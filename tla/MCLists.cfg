SPECIFICATION FairSpec
CONSTANTS
    groceries = groceries
    chores = chores
    party = party
    trip = trip
    ListIds = {groceries, chores, party, trip}
    ThisList = groceries
    BuiltIn = {groceries, chores}
    Kept = {groceries}
    GroupOf <- MCGroupOf
    Tabs = {tab1, tab2}
    Titles = {"To Buy", "To Do"}
    Scenarios <- MCScenarios
INVARIANTS
    TypeOK
    AddingShownOnce
    QuietPagesAreTrue
PROPERTIES
    NothingHangs
CHECK_DEADLOCK FALSE
