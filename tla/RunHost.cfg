SPECIFICATION FairSpec
CONSTANTS
  Hosts = {"systemd", "launchd"}
  Watchers = {w1, w2}
  Nobody = Nobody
  Budget = {"start", "startAgain", "retry", "abort", "edit", "failure", "crash",
            "rollback", "misjudged", "watcherDies", "reboot"}
  MaxEvents = 4
INVARIANTS
  HostKeepsTheStoredJob
  EveryWatcherIsKnown
  EndedRunStaysDown
CHECK_DEADLOCK FALSE
PROPERTIES
  SettledRunIsReleased
