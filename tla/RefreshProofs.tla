------------------------------ MODULE RefreshProofs ------------------------------
(***************************************************************************)
(* Theorems about Refresh and, in the second part, about Entities,         *)
(* for any page size, any number of rows, aircraft, helicopters and search *)
(* terms: what the sensors show is a page that exists, counts that never   *)
(* go back, and, once refreshes are quiet, all that did not come while the *)
(* last build was reading; the boxes show what was asked for last, and an  *)
(* entity is unavailable exactly after a failure.                          *)
(***************************************************************************)
EXTENDS Entities, FiniteSetTheorems, TLAPS

(* The live list has a number of flights.                                  *)
LEMMA LiveCount == ASSUME NEW S \in SUBSET Flight PROVE Cardinality(S) \in Nat
  BY RefreshAssumption, FS_Subset, FS_CardinalityType

(* Division by the page size: the quotient is what fits, and no more.      *)
LEMMA Division ==
  ASSUME NEW a \in Nat
  PROVE  /\ a \div PageSize \in Nat
         /\ (a \div PageSize) * PageSize <= a
         /\ a < (a \div PageSize) * PageSize + PageSize
  <1>1. \A d \in Nat \ {0} : /\ a \div d \in Nat
                             /\ (a \div d) * d <= a
                             /\ a < (a \div d) * d + d
    BY SMTT(30)
  <1> QED BY <1>1, RefreshAssumption

(* More pages hold at least as many rows.                                  *)
LEMMA MorePages ==
  ASSUME NEW q \in Nat, NEW p \in 1 .. q
  PROVE  /\ (p - 1) * PageSize <= (q - 1) * PageSize
         /\ p < q => p * PageSize <= (q - 1) * PageSize
         /\ (q - 1) * PageSize = q * PageSize - PageSize
         /\ (p - 1) * PageSize = p * PageSize - PageSize
         /\ {p * PageSize, q * PageSize} \subseteq Int
  <1>1. \A d \in Nat \ {0} : /\ (p - 1) * d <= (q - 1) * d
                             /\ p < q => p * d <= (q - 1) * d
                             /\ (q - 1) * d = q * d - d
                             /\ (p - 1) * d = p * d - d
                             /\ {p * d, q * d} \subseteq Int
    BY SMTT(30)
  <1> QED BY <1>1, RefreshAssumption

(* query_recent's page arithmetic: whatever page is asked for, the one     *)
(* that is read exists, is full unless it is the last, and is not empty    *)
(* unless nothing was counted - also if rows were added after the COUNT.   *)
LEMMA Paging ==
  ASSUME NEW total \in Nat, NEW now \in Nat, total <= now, NEW p \in Nat
  PROVE  LET given == ClampedPage(p, total)
             pages == TotalPages(total)
             count == PageRows(given, now)
         IN  /\ pages \in Nat \ {0}
             /\ given \in 1 .. pages
             /\ count \in Nat
             /\ count = 0 => total = 0
             /\ pages * PageSize >= total
             /\ given < pages => count = PageSize
  <1> DEFINE q     == (total + PageSize - 1) \div PageSize
             pages == TotalPages(total)
             given == ClampedPage(p, total)
             count == PageRows(given, now)
  <1>0. PageSize \in Nat \ {0}
    BY RefreshAssumption
  <1>1. /\ q \in Nat
        /\ q * PageSize <= total + PageSize - 1
        /\ total + PageSize - 1 < q * PageSize + PageSize
    BY <1>0, Division, total + PageSize - 1 \in Nat
  <1>2. pages = IF 1 >= q THEN 1 ELSE q
    BY DEF TotalPages, AtLeast
  <1>3. pages \in Nat \ {0} /\ given \in 1 .. pages
    BY <1>1, <1>2 DEF ClampedPage, AtLeast, AtMost
  <1>4. total > 0 => pages = q
    <2> SUFFICES ASSUME total > 0, q = 0 PROVE FALSE
      BY <1>1, <1>2
    <2> QED BY <1>0, <1>1
  <1>5. /\ (given - 1) * PageSize <= pages * PageSize - PageSize
        /\ given < pages => given * PageSize <= pages * PageSize - PageSize
        /\ (given - 1) * PageSize = given * PageSize - PageSize
        /\ {given * PageSize, pages * PageSize} \subseteq Int
    BY <1>3, MorePages
  <1>6. total > 0 => /\ pages * PageSize <= total + PageSize - 1
                     /\ total + PageSize - 1 < pages * PageSize + PageSize
    BY <1>1, <1>4
  <1> HIDE DEF pages, given
  <1>7. count = LET left == now - (given - 1) * PageSize IN
                IF 0 >= (IF PageSize <= left THEN PageSize ELSE left)
                THEN 0 ELSE IF PageSize <= left THEN PageSize ELSE left
    BY DEF PageRows, AtLeast, AtMost
  <1>8. count \in Nat
    BY <1>0, <1>5, <1>7
  <1>9. count = 0 => total = 0
    <2> SUFFICES ASSUME total > 0 PROVE count > 0
      BY <1>8
    <2>1. now - (given - 1) * PageSize >= 1
      BY <1>0, <1>5, <1>6
    <2> QED BY <2>1, <1>0, <1>5, <1>7
  <1>10. pages * PageSize >= total
    <2>1. CASE total = 0
      BY <2>1, <1>0, <1>3
    <2>2. CASE total > 0
      BY <2>2, <1>0, <1>5, <1>6
    <2> QED BY <2>1, <2>2
  <1>11. given < pages => count = PageSize
    <2> SUFFICES ASSUME given < pages PROVE count = PageSize
      OBVIOUS
    <2>1. pages # 1
      BY <1>3
    <2>2. total > 0
      BY <2>1, <1>0, <1>1, <1>2 DEF pages
    <2>3. now - (given - 1) * PageSize >= PageSize
      BY <2>2, <1>0, <1>5, <1>6
    <2> QED BY <2>3, <1>0, <1>5, <1>7
  <1> QED BY <1>3, <1>8, <1>9, <1>10, <1>11 DEF pages, given

-----------------------------------------------------------------------------
(* What the invariant ShownPageHasRows says of a build.                    *)
PageExists(b) ==
    b.pages > 0 =>
        /\ b.page \in 1 .. b.pages
        /\ b.count = 0 => b.total = 0
        /\ b.pages * PageSize >= b.total
        /\ b.page < b.pages => b.count = PageSize

Pages ==
    /\ PageExists(data.built)
    /\ refresh.at = "built" => PageExists(refresh.built)

(* No count is ahead of the table, and none under way is behind the one    *)
(* that is shown.                                                          *)
Counts ==
    /\ data.built.total <= Len(rows)
    /\ refresh.at = "counted" => /\ data.built.total <= refresh.total
                                 /\ refresh.total <= Len(rows)
    /\ refresh.at = "built" => /\ refresh.built.total <= Len(rows)
                               /\ refresh.built.pages > 0 =>
                                     data.built.total <= refresh.built.total

(* Unless another refresh is wanted, the one under way, or what it left,   *)
(* is for the page and the search term asked for last, or has missed them. *)
ForTheLast ==
    (db /\ ~wanted) =>
        /\ refresh.at = "querying" =>
              /\ refresh.page = page \/ "page" \in missed
              /\ refresh.search = search \/ "search" \in missed
        /\ refresh.at = "counted" =>
              /\ refresh.args.page = page \/ "page" \in missed
              /\ refresh.args.search = search \/ "search" \in missed
        /\ refresh.at = "built" =>
              /\ refresh.built.asked = page \/ "page" \in missed
              /\ refresh.built.search = search \/ "search" \in missed
        /\ (refresh.at = "idle" /\ data.ok) =>
              /\ data.built.asked = page \/ "page" \in missed
              /\ data.built.search = search \/ "search" \in missed

(* Rows are missing from a count only if they were imported since, or if   *)
(* the exit that stored them has yet to ask for a refresh, has asked for   *)
(* one that will come, or has asked in vain.                               *)
NothingMissing ==
    /\ refresh.at = "counted" => refresh.total + late = Len(rows)
    /\ (db /\ ~wanted /\ owed = 0 /\ ~("rows" \in missed)) =>
          /\ refresh.at = "built" => refresh.built.total + late = Len(rows)
          /\ (refresh.at = "idle" /\ data.ok) => data.built.total + late = Len(rows)

(* The inductive invariant.                                                *)
IInv == TypeOK /\ Pages /\ Counts /\ ForTheLast /\ NothingMissing

(* What a build makes of its arguments is well-formed.                     *)
LEMMA BuiltType ==
  ASSUME NEW args \in Arguments, NEW total \in Nat, NEW now \in Nat, total <= now
  PROVE  BuildData(args, total, now) \in Built
  <1> DEFINE given == ClampedPage(args.page, total)
             count == PageRows(given, now)
             pages == TotalPages(total)
  <1>1. args.page \in Nat /\ args.search \in Term /\ now + args.live \in Nat
    BY DEF Arguments
  <1>2. given \in Nat /\ pages \in Nat /\ count \in Nat
    <2>1. pages \in Nat \ {0} /\ given \in 1 .. pages /\ count \in Nat
      BY <1>1, Paging
    <2> HIDE DEF given, count, pages
    <2> QED BY <2>1
  <1>3. BuildData(args, total, now)
          = [asked |-> args.page, search |-> args.search, page |-> given,
             pages |-> pages, count |-> count, total |-> total,
             active |-> now + args.live]
    BY DEF BuildData
  <1> HIDE DEF given, count, pages
  <1> QED BY <1>1, <1>2, <1>3 DEF Built

(* async_setup leaves a state of the invariant.                            *)
LEMMA InitInv == Init => IInv
  <1> SUFFICES ASSUME Init PROVE IInv
    OBVIOUS
  <1>1. TypeOK
    <2>1. FirstData(inside) \in Built
      BY RefreshAssumption, LiveCount DEF FirstData, Built, Init
    <2>2. data \in [ok : BOOLEAN, built : Built]
      BY <2>1 DEF Init
    <2>7. missed \subseteq {"page", "search", "rows"}
      BY DEF Init
    <2>3. refresh \in [at : {"idle", "queued", "failed"}]
      BY DEF Init
    <2>4. {db, closed} \subseteq BOOLEAN /\ wanted \in BOOLEAN
      BY DEF Init
    <2>5. /\ exiting \in [Flight -> Nat]
          /\ rows \in Seq(Flight)
          /\ inside \in SUBSET Flight
      BY DEF Init
    <2>6. search \in Term /\ page \in Nat \ {0} /\ {owed, late, fails, asks} \subseteq Nat
      BY RefreshAssumption DEF Init
    <2> QED BY <2>2, <2>3, <2>4, <2>5, <2>6, <2>7 DEF TypeOK
  <1>2. Pages /\ Counts /\ ForTheLast /\ NothingMissing
    BY RefreshAssumption DEF Init, FirstData, Pages, PageExists, Counts, ForTheLast, NothingMissing
  <1> QED BY <1>1, <1>2 DEF IInv

(* Every step keeps the types.                                             *)
LEMMA TypeStep == ASSUME IInv, [Next]_vars PROVE TypeOK'
  <1> USE DEF IInv, TypeOK, sky, asked, screen, ghosts, life, bounds, vars
  <1>1. ASSUME NEW f \in Flight, EnterArea(f) PROVE TypeOK'
    BY <1>1 DEF EnterArea
  <1>2. ASSUME NEW f \in Flight, LeaveArea(f) PROVE TypeOK'
    BY <1>2 DEF LeaveArea
  <1>3. ASSUME NEW f \in Flight, StoreExit(f) PROVE TypeOK'
    BY <1>3 DEF StoreExit
  <1>4. ASSUME NEW f \in Flight, Import(f) PROVE TypeOK'
    BY <1>4 DEF Import
  <1>5. CASE AskAfterExit
    BY <1>5 DEF AskAfterExit, RequestRefresh, Misses
  <1>6. ASSUME NEW p \in 0 .. MaxPage, SetPage(p) PROVE TypeOK'
    BY <1>6, RefreshAssumption DEF SetPage, AtLeast, RequestRefresh, Misses
  <1>7. ASSUME NEW t \in Term, SetSearchTerm(t) PROVE TypeOK'
    BY <1>7 DEF SetSearchTerm, RequestRefresh, Misses
  <1>8. CASE StartRefresh
    BY <1>8, RefreshAssumption DEF StartRefresh, Empty, Built
  <1>9. CASE ReadArguments
    BY <1>9, LiveCount DEF ReadArguments, Arguments
  <1>10. CASE CountRows
    BY <1>10 DEF CountRows, Arguments
  <1>11. CASE Query
    <2>1. /\ refresh.args \in Arguments
          /\ refresh.total \in Nat
          /\ refresh.total <= Len(rows)
          /\ Len(rows) \in Nat
      BY <1>11 DEF Query, Counts, Arguments
    <2>2. BuildData(refresh.args, refresh.total, Len(rows)) \in Built
      BY <2>1, BuiltType
    <2> QED BY <1>11, <2>2 DEF Query
  <1>12. CASE FailBuild
    BY <1>12 DEF FailBuild
  <1>13. CASE Publish
    <2>1. refresh.at = "built" => refresh.built \in Built
      BY DEF Arguments
    <2>2. data' \in [ok : BOOLEAN, built : Built]
      BY <1>13, <2>1 DEF Publish
    <2>3. refresh' \in [at : {"idle", "queued", "failed"}]
      BY <1>13 DEF Publish
    <2> QED BY <1>13, <2>2, <2>3 DEF Publish
  <1>14. CASE Unload
    BY <1>14 DEF Unload
  <1>15. CASE Close
    BY <1>15 DEF Close
  <1>16. CASE UNCHANGED vars
    BY <1>16
  <1> QED BY <1>1, <1>2, <1>3, <1>4, <1>5, <1>6, <1>7, <1>8, <1>9, <1>10, <1>11,
             <1>12, <1>13, <1>14, <1>15, <1>16 DEF Next

(* Steps that neither read the table nor touch what was read from it.      *)
Apart ==
    \/ \E f \in Flight : EnterArea(f) \/ LeaveArea(f) \/ StoreExit(f) \/ Import(f)
    \/ AskAfterExit
    \/ \E p \in 0 .. MaxPage : SetPage(p)
    \/ \E t \in Term : SetSearchTerm(t)
    \/ Unload \/ Close
    \/ UNCHANGED vars

(* The table only grows; exits, imports and requests change no build.      *)
LEMMA ApartFacts ==
  ASSUME TypeOK, Apart
  PROVE  UNCHANGED <<refresh, data>> /\ Len(rows') \in Nat /\ Len(rows') >= Len(rows)
  <1> USE DEF TypeOK, sky, asked, screen, ghosts, life, bounds, vars
  <1>1. ASSUME NEW f \in Flight, rows' = Append(rows, f)
        PROVE  Len(rows') \in Nat /\ Len(rows') >= Len(rows)
    BY <1>1
  <1>2. UNCHANGED <<refresh, data>>
    BY DEF Apart, EnterArea, LeaveArea, StoreExit, Import, AskAfterExit, SetPage,
           SetSearchTerm, Unload, Close
  <1>3. rows' = rows \/ \E f \in Flight : rows' = Append(rows, f)
    BY DEF Apart, EnterArea, LeaveArea, StoreExit, Import, AskAfterExit, SetPage,
           SetSearchTerm, Unload, Close
  <1> QED BY <1>1, <1>2, <1>3

(* The builds and what is published of them keep to pages that exist.      *)
LEMMA PagesStep == ASSUME IInv, [Next]_vars PROVE Pages'
  <1> USE DEF IInv, Pages, screen
  <1>1. CASE Apart
    BY <1>1, ApartFacts DEF PageExists
  <1>2. CASE StartRefresh
    BY <1>2 DEF StartRefresh, Empty, PageExists
  <1>3. CASE ReadArguments \/ CountRows \/ FailBuild
    BY <1>3 DEF ReadArguments, CountRows, FailBuild, PageExists
  <1>4. CASE Query
    <2> DEFINE b == BuildData(refresh.args, refresh.total, Len(rows))
    <2>1. /\ refresh.args.page \in Nat
          /\ refresh.total \in Nat
          /\ refresh.total <= Len(rows)
          /\ Len(rows) \in Nat
      BY <1>4 DEF Query, TypeOK, Counts, Arguments
    <2>2. PageExists(b)
      BY <2>1, Paging DEF BuildData, PageExists
    <2> HIDE DEF b
    <2>3. refresh' = [at |-> "built", built |-> b] /\ data' = data
      BY <1>4 DEF Query, b
    <2> QED BY <2>2, <2>3 DEF PageExists
  <1>5. CASE Publish
    <2>1. data'.built \in {data.built, refresh.built} /\ refresh'.at = "idle"
      BY <1>5 DEF Publish, TypeOK
    <2>2. PageExists(data'.built)
      BY <1>5 DEF Publish, TypeOK
    <2> QED BY <2>1, <2>2 DEF PageExists
  <1> QED BY <1>1, <1>2, <1>3, <1>4, <1>5 DEF Next, Apart

(* Counts keep to the table, and a later one is not below an earlier.      *)
LEMMA CountsStep == ASSUME IInv, [Next]_vars PROVE Counts'
  <1> USE DEF IInv, Counts, screen
  <1>1. CASE Apart
    <2>1. /\ data.built.total \in Nat
          /\ refresh.at = "counted" => refresh.total \in Nat
          /\ refresh.at = "built" => refresh.built.total \in Nat
          /\ Len(rows) \in Nat
      BY DEF TypeOK, Built, Arguments
    <2> QED BY <1>1, <2>1, ApartFacts
  <1>2. CASE StartRefresh
    BY <1>2 DEF StartRefresh, Empty, TypeOK
  <1>3. CASE ReadArguments \/ CountRows \/ FailBuild
    BY <1>3 DEF ReadArguments, CountRows, FailBuild, TypeOK
  <1>4. CASE Query
    BY <1>4 DEF Query, BuildData
  <1>5. CASE Publish
    BY <1>5 DEF Publish, TypeOK
  <1> QED BY <1>1, <1>2, <1>3, <1>4, <1>5 DEF Next, Apart

(* A request is wanted, unless it was dropped: then the build that has     *)
(* read too early is marked with what it missed.                           *)
LEMMA ForTheLastStep == ASSUME IInv, [Next]_vars PROVE ForTheLast'
  <1> USE DEF IInv, ForTheLast, asked, screen, ghosts, life, vars
  <1>1. CASE Apart
    <2>0. UNCHANGED <<refresh, data>>
      BY <1>1, ApartFacts
    <2>1. ASSUME NEW p \in 0 .. MaxPage, SetPage(p) PROVE ForTheLast'
      BY <2>0, <2>1 DEF SetPage, RequestRefresh, Misses, TypeOK
    <2>2. ASSUME NEW t \in Term, SetSearchTerm(t) PROVE ForTheLast'
      BY <2>0, <2>2 DEF SetSearchTerm, RequestRefresh, Misses, TypeOK
    <2>3. CASE AskAfterExit
      <3>1. /\ UNCHANGED <<page, search, db>>
            /\ wanted => wanted'
            /\ missed \subseteq missed'
        BY <2>3 DEF AskAfterExit, RequestRefresh, Misses
      <3> QED BY <2>0, <3>1
    <2>4. CASE \/ \E f \in Flight : EnterArea(f) \/ LeaveArea(f) \/ StoreExit(f) \/ Import(f)
               \/ Unload \/ Close
               \/ UNCHANGED vars
      <3>1. ~db' \/ UNCHANGED <<page, search, wanted, missed, db>>
        BY <2>4 DEF EnterArea, LeaveArea, StoreExit, Import, Unload, Close
      <3> QED BY <2>0, <3>1
    <2> QED BY <1>1, <2>1, <2>2, <2>3, <2>4 DEF Apart
  <1>2. CASE StartRefresh
    BY <1>2 DEF StartRefresh
  <1>3. CASE ReadArguments
    BY <1>3 DEF ReadArguments
  <1>4. CASE CountRows
    BY <1>4 DEF CountRows
  <1>5. CASE FailBuild
    BY <1>5 DEF FailBuild
  <1>6. CASE Query
    BY <1>6 DEF Query, BuildData
  <1>7. CASE Publish
    BY <1>7 DEF Publish, TypeOK
  <1> QED BY <1>1, <1>2, <1>3, <1>4, <1>5, <1>6, <1>7 DEF Next, Apart

(* An imported row leaves every count one more row behind.                 *)
LEMMA OneMoreRow ==
  ASSUME late \in Nat, Len(rows) \in Nat, late' = late + 1, Len(rows') = Len(rows) + 1
  PROVE  \A total \in Nat : total + late = Len(rows) => total + late' = Len(rows')
  OBVIOUS

(* A row that is stored too late for a COUNT is imported, or its exit      *)
(* still has to ask, or has asked, for another refresh.                    *)
LEMMA NothingMissingStep == ASSUME IInv, [Next]_vars PROVE NothingMissing'
  <1> USE DEF IInv, NothingMissing, asked, screen, ghosts, life, vars
  <1>1. ASSUME NEW f \in Flight, Import(f) PROVE NothingMissing'
    <2>1. Len(rows') = Len(rows) + 1 /\ late' = late + 1
      BY <1>1 DEF Import, TypeOK
    <2>2. UNCHANGED <<refresh, data, db, wanted, owed, missed>>
      BY <1>1 DEF Import, life
    <2>4. /\ {late, Len(rows)} \subseteq Nat
          /\ refresh.at = "counted" => refresh.total \in Nat
          /\ refresh.at = "built" => refresh.built.total \in Nat
          /\ data.built.total \in Nat
      BY DEF TypeOK, Built, Arguments
    <2>3. \A total \in Nat : total + late = Len(rows) => total + late' = Len(rows')
      BY <2>1, <2>4, OneMoreRow
    <2> QED BY <2>2, <2>3, <2>4
  <1>2. ASSUME NEW f \in Flight, StoreExit(f) PROVE NothingMissing'
    <2>1. refresh'.at # "counted"
      BY <1>2 DEF StoreExit, Building
    <2>2. ~(owed' = 0)
      BY <1>2 DEF StoreExit, TypeOK
    <2> QED BY <2>1, <2>2
  <1>3. CASE AskAfterExit
    <2>1. UNCHANGED <<rows, refresh, data, late, db>>
      BY <1>3 DEF AskAfterExit
    <2>2. /\ refresh.at = "idle" => wanted'
          /\ refresh.at = "built" => "rows" \in missed'
      BY <1>3 DEF AskAfterExit, RequestRefresh, Misses
    <2> QED BY <2>1, <2>2
  <1>4. CASE \/ \E f \in Flight : EnterArea(f) \/ LeaveArea(f)
             \/ \E p \in 0 .. MaxPage : SetPage(p)
             \/ \E t \in Term : SetSearchTerm(t)
             \/ Unload \/ Close
             \/ UNCHANGED vars
    <2>1. UNCHANGED <<rows, refresh, data, late, owed>>
      BY <1>4 DEF EnterArea, LeaveArea, SetPage, SetSearchTerm, Unload, Close
    <2>2. \/ ~db'
          \/ (wanted => wanted') /\ missed \subseteq missed' /\ UNCHANGED db
      BY <1>4 DEF EnterArea, LeaveArea, SetPage, SetSearchTerm, Unload, Close,
                  RequestRefresh, Misses
    <2> QED BY <2>1, <2>2
  <1>5. CASE StartRefresh
    BY <1>5 DEF StartRefresh
  <1>6. CASE ReadArguments \/ FailBuild
    BY <1>6 DEF ReadArguments, FailBuild
  <1>7. CASE CountRows
    BY <1>7 DEF CountRows, TypeOK
  <1>8. CASE Query
    BY <1>8 DEF Query, BuildData
  <1>9. CASE Publish
    BY <1>9 DEF Publish, TypeOK
  <1> QED BY <1>1, <1>2, <1>3, <1>4, <1>5, <1>6, <1>7, <1>8, <1>9 DEF Next

-----------------------------------------------------------------------------
(* The invariant holds in every reachable state.                           *)
THEOREM Invariance == Spec => []IInv
  <1>1. Init => IInv
    BY InitInv
  <1>2. IInv /\ [Next]_vars => IInv'
    BY TypeStep, PagesStep, CountsStep, ForTheLastStep, NothingMissingStep DEF IInv
  <1> QED BY <1>1, <1>2, PTL DEF Spec

(* Type correctness of the refresh path.                                   *)
THEOREM TypeCorrect == Spec => []TypeOK
  <1>1. IInv => TypeOK
    BY DEF IInv
  <1> QED BY <1>1, Invariance, PTL

(* query_recent and build_data: for any page size and number of rows, the  *)
(* page shown exists, is full unless it is the last, and is empty only if  *)
(* nothing was counted - whatever page was asked for, and whatever an      *)
(* import commits between the COUNT and the SELECT.                        *)
THEOREM PagesHaveRows == Spec => []ShownPageHasRows
  <1>1. IInv => ShownPageHasRows
    BY DEF IInv, Pages, PageExists, ShownPageHasRows
  <1> QED BY <1>1, Invariance, PTL

(* When nothing is wanted or under way, the sensors show every request and *)
(* every stored exit but those that came after the last build had read     *)
(* them: nothing else is lost with a refresh.                              *)
THEOREM NoChangeIsLost == Spec => []QuietIsFresh
  <1>1. IInv => QuietIsFresh
    BY DEF IInv, ForTheLast, NothingMissing, QuietIsFresh
  <1> QED BY <1>1, Invariance, PTL

(* The counters of a loaded entry never go back.                           *)
THEOREM CountersNeverGoBack == Spec => CountsNeverGoBack
  <1>1. ASSUME IInv, [Next]_vars
        PROVE  (db /\ data.built.pages > 0 /\ data'.built.pages > 0)
                  => data'.built.total >= data.built.total
    <2> USE <1>1 DEF IInv, Counts, screen
    <2>1. data.built.total \in Nat
      BY DEF TypeOK, Built
    <2>2. CASE Publish
      BY <2>1, <2>2 DEF Publish, TypeOK
    <2>3. CASE data' = data
      BY <2>1, <2>3
    <2>4. Publish \/ data' = data
      BY ApartFacts DEF Next, Apart, StartRefresh, ReadArguments, CountRows, Query,
                        FailBuild, vars
    <2> QED BY <2>2, <2>3, <2>4
  <1> QED BY <1>1, Invariance, PTL DEF Spec, CountsNeverGoBack

-----------------------------------------------------------------------------
(* The page that is read is at most the one that was asked for.            *)
Clamped ==
    /\ refresh.at = "querying" => refresh.page \in Nat \ {0}
    /\ refresh.at = "counted" => refresh.args.page \in Nat \ {0}
    /\ refresh.at = "built" /\ db => refresh.built.page <= refresh.built.asked
    /\ db => data.built.page <= data.built.asked

(* Available entities show the data there is; the boxes show what was      *)
(* asked for unless a refresh is to come.                                  *)
ShowsData ==
    (db /\ shown.available) =>
        /\ shown.recent = data.built.page
        /\ shown.term = data.built.search
        /\ (~wanted /\ refresh.at = "idle") => shown.number = page /\ shown.text = search

(* The inductive invariant, on top of the one of Refresh.                  *)
EInv == IInv /\ EntitiesTypeOK /\ UnavailableIsFailed /\ Clamped /\ ShowsData

(* The states that are written are well-formed.                            *)
LEMMA StatesType ==
  ASSUME TypeOK, NEW success \in BOOLEAN, NEW built \in Built
  PROVE  LET s == States(success, built)
         IN  s \in StateType /\ (s.helo => s.present) /\ (s.present <=> s.area > 0)
  <1>1. Cardinality(inside) \in Nat
    BY LiveCount DEF TypeOK
  <1>2. inside # {} <=> Cardinality(inside) > 0
    <2>1. IsFiniteSet(inside)
      BY RefreshAssumption, FS_Subset DEF TypeOK
    <2>2. Cardinality(inside) = 0 <=> inside = {}
      BY <2>1, FS_EmptySet
    <2> QED BY <1>1, <2>2
  <1>3. built.page \in Nat /\ built.search \in Term
    BY DEF Built
  <1>4. page \in Nat \ {0} /\ search \in Term
    BY DEF TypeOK
  <1>5. inside \cap Helo # {} => inside # {}
    OBVIOUS
  <1>6. (inside # {}) \in BOOLEAN /\ (inside \cap Helo # {}) \in BOOLEAN
    OBVIOUS
  <1> DEFINE live == Cardinality(inside)
             any  == inside # {}
             helo == inside \cap Helo # {}
  <1>7. States(success, built) = [available |-> success, recent |-> built.page,
                           term |-> built.search, number |-> page, text |-> search,
                           area |-> live, present |-> any, helo |-> helo]
    BY DEF States, FlightsInArea, HasAircraft, HelicopterOverhead
  <1>8. /\ live \in Nat /\ any \in BOOLEAN /\ helo \in BOOLEAN
        /\ any <=> live > 0
        /\ helo => any
    BY <1>1, <1>2, <1>5, <1>6
  <1> HIDE DEF live, any, helo
  <1> QED BY <1>3, <1>4, <1>7, <1>8 DEF StateType

(* So are those of a platform that is not there.                           *)
LEMMA NoStatesType == NoStates \in StateType /\ ~NoStates.helo /\ ~NoStates.present
                      /\ ~(NoStates.area > 0) /\ ~NoStates.available
  <1>1. NoTerm \in Term
    BY RefreshAssumption
  <1> QED BY <1>1 DEF NoStates, StateType

(* The first states are written of the data of the first refresh.          *)
LEMMA EntitiesInitInv == EntitiesInit => EInv
  <1> SUFFICES ASSUME EntitiesInit PROVE EInv
    OBVIOUS
  <1>1. IInv
    BY InitInv DEF EntitiesInit
  <1>2. EntitiesTypeOK
    <2>1. data.ok \in BOOLEAN /\ data.built \in Built
      BY <1>1 DEF IInv, TypeOK
    <2>2. shown = States(data.ok, data.built)
      BY DEF EntitiesInit
    <2> QED BY <1>1, <2>1, <2>2, StatesType DEF IInv, EntitiesTypeOK
  <1>4. UnavailableIsFailed
    BY DEF EntitiesInit, States, UnavailableIsFailed
  <1>3. Clamped /\ ShowsData
    BY DEF EntitiesInit, Init, States, FirstData, Clamped, ShowsData
  <1> QED BY <1>1, <1>2, <1>3, <1>4 DEF EInv

(* Every step of Entities is a step of Refresh.                            *)
LEMMA IsRefreshStep == [EntitiesNext]_entityVars => [Next]_vars
  BY DEF EntitiesNext, entityVars, Next

(* The page a build reads is clamped, whatever was asked for.              *)
LEMMA ClampedStep == ASSUME EInv, [Next]_vars PROVE Clamped'
  <1> USE DEF EInv, IInv, Clamped, asked, screen, life
  <1>1. CASE Apart
    <2>1. UNCHANGED <<refresh, data>>
      BY <1>1, ApartFacts
    <2>2. db' => db
      BY <1>1 DEF Apart, EnterArea, LeaveArea, StoreExit, Import, AskAfterExit, SetPage,
                  SetSearchTerm, Unload, Close, vars
    <2> QED BY <2>1, <2>2
  <1>2. CASE StartRefresh
    BY <1>2 DEF StartRefresh
  <1>3. CASE ReadArguments
    BY <1>3 DEF ReadArguments, TypeOK
  <1>4. CASE CountRows
    BY <1>4 DEF CountRows
  <1>5. CASE Query
    <2>1. /\ refresh.args.page \in Nat \ {0}
          /\ refresh.total \in Nat
      BY <1>5 DEF Query, Counts, TypeOK, Arguments
    <2>2. ClampedPage(refresh.args.page, refresh.total) <= refresh.args.page
      <3> DEFINE quotient == (refresh.total + PageSize - 1) \div PageSize
      <3>2. quotient \in Nat
        <4>1. refresh.total + PageSize - 1 \in Nat
          BY <2>1, RefreshAssumption
        <4> QED BY <4>1, Division
      <3>3. TotalPages(refresh.total) = AtLeast(1, quotient)
        BY DEF TotalPages
      <3> HIDE DEF quotient
      <3>1. TotalPages(refresh.total) \in Nat \ {0}
        BY <3>2, <3>3 DEF AtLeast
      <3> QED BY <2>1, <3>1 DEF ClampedPage, AtMost, AtLeast
    <2> DEFINE b == BuildData(refresh.args, refresh.total, Len(rows))
    <2>3. b.page <= b.asked
      <3>1. b.page = ClampedPage(refresh.args.page, refresh.total) /\ b.asked = refresh.args.page
        BY DEF BuildData
      <3> HIDE DEF b
      <3> QED BY <2>2, <3>1
    <2>4. refresh' = [at |-> "built", built |-> b] /\ UNCHANGED <<data, db>>
      BY <1>5 DEF Query
    <2> HIDE DEF b
    <2> QED BY <2>3, <2>4
  <1>6. CASE FailBuild
    BY <1>6 DEF FailBuild
  <1>7. CASE Publish
    BY <1>7 DEF Publish
  <1> QED BY <1>1, <1>2, <1>3, <1>4, <1>5, <1>6, <1>7 DEF Next, Apart

(* What the listeners are told keeps the entities' types, availability and *)
(* data; so does everything they are not told of.                          *)
LEMMA ShownStep ==
  ASSUME EInv, TypeOK', [EntitiesNext]_entityVars
  PROVE  EntitiesTypeOK' /\ UnavailableIsFailed' /\ ShowsData'
  <1> USE DEF EInv, IInv, UnavailableIsFailed, ShowsData
  <1>1. CASE Publish /\ db /\ TellListeners
    <2>1. UNCHANGED <<page, search, wanted, db>> /\ refresh'.at = "idle"
      BY <1>1 DEF Publish, asked, life
    <2>0. data'.built \in Built
      BY DEF TypeOK
    <2>2. CASE refresh.at = "built"
      <3>1. shown' = States(TRUE, data'.built)
        BY <1>1, <2>2 DEF TellListeners
      <3>2. EntitiesTypeOK'
        BY <2>0, <3>1, StatesType DEF EntitiesTypeOK
      <3>3. data'.ok = TRUE
        BY <1>1, <2>2 DEF Publish
      <3> QED BY <2>1, <3>1, <3>2, <3>3 DEF States
    <2>3. CASE refresh.at = "failed"
      <3>1. data'.ok = FALSE
        BY <1>1, <2>3 DEF Publish, TypeOK
      <3>2. CASE data.ok
        <4>1. shown' = States(FALSE, data'.built)
          BY <1>1, <2>3, <3>2 DEF TellListeners
        <4>2. EntitiesTypeOK'
          BY <2>0, <4>1, StatesType DEF EntitiesTypeOK
        <4> QED BY <3>1, <4>1, <4>2 DEF States
      <3>3. CASE ~data.ok
        <4>1. shown' = shown /\ shown.available = FALSE
          BY <1>1, <2>3, <3>3 DEF TellListeners, EntitiesTypeOK, StateType
        <4> QED BY <3>1, <4>1 DEF EntitiesTypeOK
      <3> QED BY <3>2, <3>3
    <2> QED BY <1>1, <2>2, <2>3 DEF Publish
  <1>2. CASE Unload /\ shown' = NoStates
    <2>1. ~db' /\ shown' = NoStates
      BY <1>2 DEF Unload
    <2> QED BY <2>1, NoStatesType DEF EntitiesTypeOK
  <1>3. CASE Next /\ ~(db /\ Publish) /\ ~Unload /\ UNCHANGED shown
    <2>1. EntitiesTypeOK'
      BY <1>3 DEF EntitiesTypeOK
    <2>2. CASE Apart
      <3>1. UNCHANGED <<refresh, data>>
        BY <2>2, ApartFacts
      <3>2. /\ db' => db
            /\ (db' /\ refresh.at = "idle" /\ ~wanted')
                  => ~wanted /\ UNCHANGED <<page, search>>
        <4>1. \/ UNCHANGED <<db, wanted, page, search>>
              \/ ~db'
              \/ db' = db /\ (refresh.at = "idle" => wanted')
          BY <1>3, <2>2 DEF Apart, EnterArea, LeaveArea, StoreExit, Import, AskAfterExit,
                      SetPage, SetSearchTerm, Unload, Close, vars, screen, life, asked,
                      RequestRefresh
        <4> QED BY <4>1
      <3>3. UnavailableIsFailed'
        BY <1>3, <3>1, <3>2
      <3>4. ShowsData'
        <4>1. shown' = shown /\ data' = data /\ refresh' = refresh
          BY <1>3, <3>1
        <4> QED BY <3>2, <4>1
      <3> QED BY <2>1, <3>3, <3>4
    <2>3. CASE StartRefresh \/ ReadArguments \/ CountRows \/ Query \/ FailBuild
      <3>1. UNCHANGED <<data, db>> /\ refresh'.at # "idle"
        BY <2>3 DEF StartRefresh, ReadArguments, CountRows, Query, FailBuild, life
      <3> QED BY <1>3, <2>1, <3>1
    <2>4. CASE Publish
      <3>1. ~db'
        BY <1>3, <2>4 DEF Publish, life
      <3> QED BY <2>1, <3>1
    <2> QED BY <1>3, <2>2, <2>3, <2>4 DEF Next, Apart
  <1>4. CASE UNCHANGED entityVars
    BY <1>4 DEF entityVars, vars, asked, screen, life, EntitiesTypeOK
  <1> QED BY <1>1, <1>2, <1>3, <1>4 DEF EntitiesNext

(* The invariant of the entities, and with it that of the refresh path.    *)
THEOREM EntitiesInvariance == EntitiesSpec => []EInv
  <1>1. EntitiesInit => EInv
    BY EntitiesInitInv
  <1>2. EInv /\ [EntitiesNext]_entityVars => EInv'
    <2> SUFFICES ASSUME EInv, [EntitiesNext]_entityVars PROVE EInv'
      OBVIOUS
    <2>1. [Next]_vars
      BY IsRefreshStep
    <2>2. IInv'
      BY <2>1, TypeStep, PagesStep, CountsStep, ForTheLastStep, NothingMissingStep
      DEF EInv, IInv
    <2>3. TypeOK'
      BY <2>2 DEF IInv
    <2> QED BY <2>1, <2>2, <2>3, ClampedStep, ShownStep DEF EInv
  <1> QED BY <1>1, <1>2, PTL DEF EntitiesSpec

(* Type correctness of what is shown: no helicopter without an aircraft,   *)
(* none present when none is counted.                                      *)
THEOREM EntitiesTypeCorrect == EntitiesSpec => []EntitiesTypeOK
  <1>1. EInv => EntitiesTypeOK
    BY DEF EInv
  <1> QED BY <1>1, EntitiesInvariance, PTL

(* Every entity is unavailable exactly when the last refresh failed.       *)
THEOREM AvailabilityIsHonest == EntitiesSpec => []UnavailableIsFailed
  <1>1. EInv => UnavailableIsFailed
    BY DEF EInv
  <1> QED BY <1>1, EntitiesInvariance, PTL

(* Once refreshes are quiet the boxes show what was asked for last, and    *)
(* the lists beside them are of it unless it came while the last build was *)
(* reading.                                                                *)
THEOREM BoxesAreFollowed == EntitiesSpec => []BoxesShowTheLast
  <1>1. EInv => BoxesShowTheLast
    <2> SUFFICES ASSUME EInv, db, shown.available, ~wanted, refresh.at = "idle"
                 PROVE  /\ shown.text = search
                        /\ shown.number = page
                        /\ shown.term = shown.text \/ "search" \in missed
                        /\ shown.recent <= shown.number \/ "page" \in missed
      BY DEF BoxesShowTheLast
    <2>1. /\ data.ok
          /\ data.built.asked = page \/ "page" \in missed
          /\ data.built.search = search \/ "search" \in missed
      BY DEF EInv, IInv, UnavailableIsFailed, ForTheLast
    <2> QED BY <2>1 DEF EInv, ShowsData, Clamped
  <1> QED BY <1>1, EntitiesInvariance, PTL
=================================================================================
