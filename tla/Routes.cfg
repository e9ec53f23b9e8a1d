SPECIFICATION Spec
CONSTANTS
  Watcher = watcher
  Reader = {reader}
  Goroutine <- MCGoroutine
  Content = {"split", "odd"}
  Broken = "broken"
  NoConfig = "none"
  MaxEdits = 2
  ServersOf <- MCServersOf
CHECK_DEADLOCK FALSE
INVARIANTS TypeOK CacheIsSound RoutesAccounted RoutesSettled
PROPERTIES RoutesSettle
