CONSTANTS
  interval = interval
  Crons = {"daily", "hourly"}
  Pausable = TRUE
  Syncers = {interval}
  MaxEdits = 2
  MaxStops = 1
  MaxJobs = 2
  Triggers <- TriggerKinds
  Deletes = TRUE
  MaxEvents = 4
  MaxFails = 1
  Cooldowns = {1, 2}
  Probes = {"p", "q"}
  MaxTime = 3
  MaxChanges = 1
  MaxProbed = 2
SPECIFICATION SuiteSpec
INVARIANT NothingStartsTwice
PROPERTIES
  SchedulesFollow
  LastFileIsServed
