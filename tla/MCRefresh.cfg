SPECIFICATION EntitiesSpec
CONSTANTS
    f1 = f1
    Flight = {f1}
    Term = {"", "AC"}
    NoTerm = ""
    Helo = {f1}
    PageSize = 1
    MaxPage = 2
    MaxRows = 2
    MaxFail = 1
    MaxAsk = 2
INVARIANTS
    QuietIsFresh
    ShownPageHasRows
    BoxesShowTheLast
PROPERTIES
    CountsNeverGoBack
    LastPageIsShown
    EveryRowIsCounted
    EntitiesCatchUp
