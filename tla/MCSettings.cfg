SPECIFICATION Spec
CHECK_DEADLOCK FALSE
CONSTANTS
  Names = {"key", "password", "backup"}
  Servers = {"twitch", "other"}
  Twitch = "twitch"
  Obses = {"o1", "o2"}
  LocalObs = "o1"
  Runs <- RunsMC
  Acts = {"update", "key", "connect", "configure", "restore", "edit"}
  MaxActs = 3
  MaxBad = 2
  MaxStarts = 2
INVARIANTS
  SecretsStayHome
  OwnSettingsKept
PROPERTIES
  RefusedChangesNothing
