CONSTANTS
    a1 = a1
    a2 = a2
    a3 = a3
    Accounts <- MCAccounts
    Balances = {0, 1}
    Handlers = {"adminModelsRefresh"}
    Schedulers = {"RunModelRefreshNow"}
    MaxVersion = 2
SYMMETRY Symmetry
SPECIFICATION Spec
INVARIANTS
    PicksRichest
    AskedFits
PROPERTIES
    ListGoesForward
