SPECIFICATION Spec
CONSTANTS
  Ids <- MCIds
  FirstRoutes <- MCFirstRoutes
  FirstRecords <- MCFirstRecords
  Typed <- MCTyped
  Statuses <- MCStatuses
  ValidDomains = {"a", "b", "c"}
  ValidHosts = {"h1", "h2"}
  None = None
  Recent = 2
  Keys = {"url", "zone"}
  Values = {"u"}
  NotSet = NotSet
  FirstStored <- MCFirstStored
  Visited = {"routes", "settings"}
  MaxSent = 2
  MaxEdits = 2
  MaxCalls = 4
  MaxVisits = 2
  MaxEntered = 1
  MaxRoutesWork = 3
  MaxSettingsWork = 4
  MaxWork = 2
INVARIANTS TypeOK FeedbackIsTrue
PROPERTIES ToldDeletedStaysGone UndoneEditHasCause ExternalReadOnly ErasedHasCause
CHECK_DEADLOCK FALSE
