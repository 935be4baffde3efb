---------------------------- MODULE MCScheduler ----------------------------
(***************************************************************************)
(* The three ways workflows are started, which share no state: part says   *)
(* which of them a behaviour is one of.  The crons have their own names    *)
(* here; the event triggers are Sensor, the probing sensors Probing.       *)
(***************************************************************************)
EXTENDS Scheduler

CONSTANTS
  interval,                             \* the thread of the interval job
  Triggers, Deletes, MaxEvents, MaxFails,        \* of the event triggers
  Cooldowns, Probes, MaxTime, MaxChanges, MaxProbed  \* of the probing sensors

VARIABLES
  part,
  sensor, file, clock, born, runs, state, place, seen, found, served, fails,
  now, stored, changes, resets, entries, current, armed, submitted, at, loaded, check

sensorVars == <<sensor, file, clock, born, runs, state, place, seen, found, served, fails>>
probeVars  == <<now, stored, changes, resets, entries, current, armed, submitted, at, loaded, check>>
suiteVars  == <<part, vars, sensorVars, probeVars>>

\* A trigger of each kind.
TriggerKinds ==
  {[kind |-> "exists", check_size |-> FALSE], [kind |-> "newer_than", check_size |-> FALSE],
   [kind |-> "newer_than", check_size |-> TRUE], [kind |-> "workflow_success", check_size |-> FALSE]}

\* The interval job is never run twice at a time (max_instances=1).
Sensor == INSTANCE SensorTriggers WITH
            Tickers <- {interval}, trigger <- sensor, pc <- place, jobs <- served

Probing == INSTANCE ProbeSensors WITH
             MaxEdits <- MaxChanges, MaxJobs <- MaxProbed, saved <- stored, edits <- changes,
             jobs <- submitted, pc <- at, snap <- loaded

-----------------------------------------------------------------------------
\* The variables a part does not use.
NoCron ==
  /\ saved = 0 /\ edits = 0 /\ up = 0 /\ stops = 0 /\ trigger = 0 /\ entry = 0
  /\ jobs = 0 /\ active = 0 /\ pc = 0 /\ snap = 0 /\ fired = 0
NoSensor ==
  /\ sensor = 0 /\ file = 0 /\ clock = 0 /\ born = 0 /\ runs = 0 /\ state = 0
  /\ place = 0 /\ seen = 0 /\ found = 0 /\ served = 0 /\ fails = 0
NoProbe ==
  /\ now = 0 /\ stored = 0 /\ changes = 0 /\ resets = 0 /\ entries = 0 /\ current = 0
  /\ armed = 0 /\ submitted = 0 /\ at = 0 /\ loaded = 0 /\ check = 0

SuiteInit ==
  \/ part = "cron" /\ Init /\ NoSensor /\ NoProbe
  \/ part = "sensor" /\ Sensor!Init /\ NoCron /\ NoProbe
  \/ part = "probe" /\ Probing!Init /\ NoCron /\ NoSensor

\* What a part leaves alone.
notCron   == <<part, sensorVars, probeVars>>
notSensor == <<part, vars, probeVars>>
notProbe  == <<part, vars, sensorVars>>

SuiteNext ==
  \/ part = "cron" /\ Next /\ UNCHANGED notCron
  \/ part = "sensor" /\ Sensor!Next /\ UNCHANGED notSensor
  \/ part = "probe" /\ Probing!Next /\ UNCHANGED notProbe

\* The interval job ticks again and again, threads go on, and an upstream run
\* ends some day.
SuiteSpec ==
  /\ SuiteInit /\ [][SuiteNext]_suiteVars
  /\ \A p \in Threads :
       /\ WF_suiteVars(part = "cron" /\ Begin(p) /\ UNCHANGED notCron)
       /\ WF_suiteVars(part = "cron" /\ Sync(p) /\ UNCHANGED notCron)
  /\ \A f \in Firings : WF_suiteVars(part = "cron" /\ Firing(f) /\ UNCHANGED notCron)
  /\ WF_suiteVars(part = "sensor" /\ Sensor!EndRun /\ UNCHANGED notSensor)
  /\ WF_suiteVars(part = "sensor" /\ Sensor!Tick(interval) /\ UNCHANGED notSensor)

ASSUME SuiteAssumption ==
  /\ CronsAssumption /\ SyncersAssumption /\ BoundsAssumption
  /\ Sensor!TriggersAssumption /\ Sensor!BoundsAssumption
  /\ Probing!ProbeAssumption

-----------------------------------------------------------------------------
\* Nothing is started twice: the scheduled jobs of a workflow that is left
\* alone never overlap, and an event of a sensor is served by one job, again
\* only after a deletion; a probing sensor's jobs are its cooldown apart.
NothingStartsTwice ==
  /\ part = "cron" => NoOverlap
  /\ part = "sensor" => Sensor!FiresOnce
  /\ part = "probe" => Probing!Paced

\* APScheduler ends up with the current cron of a schedulable workflow.
SchedulesFollow == <>[](part = "cron" => Followed)

\* A file that stays is served in the end, unless a submission failed.
LastFileIsServed == <>[](part = "sensor" => Sensor!LastIsServed)
=============================================================================
