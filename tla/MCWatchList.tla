------------------------------ MODULE MCWatchList ------------------------------
(* Watch lists of one and two entries, by registration, by fingerprint, by  *)
(* both, and with a code that is not a fingerprint; aircraft that are       *)
(* named, blocked, and blocked with a registration; a military type in      *)
(* lower case, and military codes in upper and in lower case.               *)
EXTENDS WatchList

T(is, case) == [is |-> is, case |-> case]

Entry(slug, registration, code, blocked) ==
    [slug |-> slug, registration |-> registration, code |-> code, match_blocked |-> blocked]

Craft(registration, code, callsign) ==
    [registration |-> registration, code |-> code, callsign |-> callsign]

ByReg   == Entry("reg", T("C-GRPF", "lower"), NoText, FALSE)
ByPrint == Entry("print", NoText, T("EC35", "upper"), TRUE)
Both    == Entry("both", T("C-GRPF", "upper"), T("EC35", "lower"), TRUE)
NoPrint == Entry("noprint", T("C-GRPF", "upper"), T("EC35", "upper"), FALSE)
Blank   == Entry("blank", NoText, NoText, TRUE)

MCLists == {<<ByReg>>, <<Blank>>, <<ByPrint, Both>>, <<NoPrint, ByPrint>>}

MCAircraft == {Craft(T("C-GRPF", "upper"), T("EC35", "upper"), "RPS1"),
               Craft(NoText, T("EC35", "upper"), "Blocked"),
               Craft(T("C-GABC", "upper"), T("EC35", "upper"), "Blocked"),
               Craft(NoText, NoText, "Blocked"),
               Craft(T("130", "upper"), T("C17", "lower"), "CFC1")}

MCSkies    == {MCAircraft}
MCHelo     == {T("EC35", "upper")}
MCCodes    == {{T("C17", "upper"), T("C130", "upper")}, {T("C17", "lower")}}
================================================================================
