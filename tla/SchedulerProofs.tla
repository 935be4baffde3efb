--------------------------- MODULE SchedulerProofs ---------------------------
(***************************************************************************)
(* Proofs about the three ways workflows are started: the crons of         *)
(* Scheduler, the probing sensors of ProbeSensors (Probing) and the event  *)
(* triggers of SensorTriggers (Sensor), and that all of them start nothing *)
(* twice.                                                                  *)
(***************************************************************************)
EXTENDS MCScheduler, Sequences, FiniteSetTheorems, WellFoundedInduction, NaturalsInduction, TLAPS

-----------------------------------------------------------------------------
(* The crons.                                                              *)

Places == {"idle", "prune", "entry", "look", "add", "reschedule", "tick", "load", "check", "submit", "record"}

\* Past its first look at it, a thread works on a cron.
PlaceInv ==
  /\ pc \in [Threads -> Places]
  /\ \A p \in Threads : pc[p] \notin {"idle", "tick", "load", "prune"} => snap[p] # Off

\* While nothing was edited or stopped, only the first firing ever runs, every
\* thread works on the one cron there is, and what may still be active is the job
\* that the entry remembers, or the one that the firing is about to record.
QuietInv ==
  edits = 0 /\ stops = 0 =>
    /\ saved # Off /\ entry.cron = saved
    /\ \A f \in Firings \ {0} : pc[f] = "idle"
    /\ \A p \in Threads : pc[p] # "tick" /\ (pc[p] \notin {"idle", "load"} => snap[p] = saved)
    /\ pc[0] = "submit" => active = {}
    /\ pc[0] = "record" => active \subseteq {fired[0]}
    /\ pc[0] \notin {"submit", "record"} => active \subseteq {entry.last}

SchedulerInv == TypeOK /\ PlaceInv /\ QuietInv

\* What _entry_for makes of a cron is an entry, and the one there is if that has
\* the cron already.
LEMMA EntryForType ==
  ASSUME CronsAssumption, TypeOK, jobs \in Nat, NEW c \in Crons
  PROVE  /\ EntryFor(c) \in [cron : Crons \cup {Off}, last : 0..jobs]
         /\ EntryFor(c).cron = c /\ EntryFor(c).cron # Off
         /\ entry.cron = c => EntryFor(c) = entry
<1>1. Fresh(c) \in [cron : Crons \cup {Off}, last : 0..jobs]
  BY DEF Fresh
<1>2. Fresh(c).cron = c
  BY DEF Fresh
<1>3. c # Off
  BY DEF CronsAssumption
<1>4. QED BY <1>1, <1>2, <1>3 DEF EntryFor, TypeOK

LEMMA SchedulerInit ==
  ASSUME CronsAssumption, BoundsAssumption, Init
  PROVE  SchedulerInv
<1>1. \A c \in Crons : c # Off
  BY DEF CronsAssumption
<1>2. 0 \in Firings /\ {MaxEdits, MaxStops, MaxJobs} \subseteq Nat
  BY DEF BoundsAssumption, Firings
<1>3. saved \in Crons /\ Fresh(saved) \in [cron : Crons \cup {Off}, last : 0..0] /\ Fresh(saved).cron = saved
  BY DEF Init, Fresh
<1>4. TypeOK
  BY <1>1, <1>2, <1>3 DEF Init, TypeOK
<1>5. PlaceInv
  BY DEF Init, PlaceInv, Places
<1>6. QuietInv
  BY <1>1, <1>2, <1>3 DEF Init, QuietInv, Firings, Threads
<1>7. QED BY <1>4, <1>5, <1>6 DEF SchedulerInv

LEMMA PlaceStep ==
  ASSUME CronsAssumption, TypeOK, PlaceInv, [Next]_vars
  PROVE  PlaceInv'
<1> USE DEF PlaceInv, Places, Goto, TypeOK, world, Threads
<1>1. CASE Save \/ JobEnds \/ Stop \/ Start \/ UNCHANGED vars
  BY <1>1 DEF Save, JobEnds, Stop, Start, vars
<1>2. ASSUME NEW f \in Firings, Trigger(f) \/ Load(f) \/ Check(f) PROVE PlaceInv'
  BY <1>2 DEF Trigger, Load, Check
<1>3. ASSUME NEW f \in Firings, Submit(f) \/ SubmitFails(f) \/ Record(f) PROVE PlaceInv'
  BY <1>3 DEF Submit, SubmitFails, Record
<1>4. ASSUME NEW p \in Threads, Begin(p) PROVE PlaceInv'
  BY <1>4 DEF Begin
<1>5. ASSUME NEW p \in Threads, Sync(p) PROVE PlaceInv'
  BY <1>5 DEF Sync, Prune, MakeEntry, Look, Add, Reschedule
<1>6. QED BY <1>1, <1>2, <1>3, <1>4, <1>5 DEF Next, Firing

LEMMA TypeStep ==
  ASSUME CronsAssumption, BoundsAssumption, TypeOK, PlaceInv, [Next]_vars
  PROVE  TypeOK'
<1>n. /\ {MaxEdits, MaxStops, MaxJobs} \subseteq Nat /\ jobs \in Nat /\ edits \in Nat /\ stops \in Nat
      /\ Firings \subseteq Threads
  BY DEF BoundsAssumption, TypeOK, Threads
<1>e. /\ NoEntry \in [cron : Crons \cup {Off}, last : 0..jobs]
      /\ \A c \in Crons : /\ c # Off
                          /\ EntryFor(c) \in [cron : Crons \cup {Off}, last : 0..jobs]
                          /\ EntryFor(c).cron = c
  BY <1>n, EntryForType DEF NoEntry, CronsAssumption
<1>1. CASE UNCHANGED vars
  BY <1>1 DEF TypeOK, vars
<1>2. CASE Save
  BY <1>2, <1>n DEF Save, TypeOK
<1>3. CASE JobEnds
  BY <1>3, <1>n DEF JobEnds, TypeOK, world
<1>4. CASE Stop
  <2>1. stops' \in 0..MaxStops
    BY <1>4, <1>n DEF Stop
  <2>2. QED BY <1>4, <2>1, <1>e DEF Stop, TypeOK
<1>5. CASE Start
  BY <1>5, <1>n, <1>e DEF Start, TypeOK
<1>6. ASSUME NEW f \in Firings, Trigger(f) \/ Load(f) PROVE TypeOK'
  BY <1>6, <1>n DEF Trigger, Load, TypeOK, world
<1>7. ASSUME NEW f \in Firings, Check(f) \/ SubmitFails(f) PROVE TypeOK'
  <2>1. snap[f] \in Crons
    BY <1>7, <1>n DEF Check, SubmitFails, PlaceInv, TypeOK
  <2>2. entry' = EntryFor(snap[f])
    BY <1>7 DEF Check, SubmitFails
  <2>3. UNCHANGED <<world, trigger, jobs, active, snap, fired>>
    BY <1>7 DEF Check, SubmitFails
  <2>4. QED BY <2>1, <2>2, <2>3, <1>e DEF TypeOK, world
<1>8. ASSUME NEW f \in Firings, Submit(f) PROVE TypeOK'
  <2>1. jobs' = jobs + 1 /\ jobs' \in 0..MaxJobs /\ 0..jobs \subseteq 0..jobs' /\ 1..jobs \subseteq 1..jobs' /\ jobs' \in 1..jobs'
    BY <1>8, <1>n DEF Submit
  <2>2. active' = active \cup {jobs'} /\ fired' = [fired EXCEPT ![f] = jobs'] /\ UNCHANGED <<world, trigger, entry, snap>>
    BY <1>8 DEF Submit
  <2>3. active' \subseteq 1..jobs' /\ fired' \in [Firings -> 0..jobs']
    BY <2>1, <2>2 DEF TypeOK
  <2>4. entry' \in [cron : Crons \cup {Off}, last : 0..jobs']
    BY <2>1, <2>2 DEF TypeOK
  <2>5. QED BY <2>1, <2>2, <2>3, <2>4 DEF TypeOK, world
<1>9. ASSUME NEW f \in Firings, Record(f) PROVE TypeOK'
  <2>1. snap[f] \in Crons
    BY <1>9, <1>n DEF Record, PlaceInv, TypeOK
  <2>2. fired[f] \in 0..jobs
    BY DEF TypeOK
  <2> DEFINE e == EntryFor(snap[f])
  <2>3. e \in [cron : Crons \cup {Off}, last : 0..jobs] /\ e.cron # Off
    BY <2>1, <1>e
  <2>4. entry' = [e EXCEPT !.last = fired[f]]
    BY <1>9 DEF Record
  <2> HIDE DEF e
  <2>5. entry' \in [cron : Crons \cup {Off}, last : 0..jobs] /\ entry'.cron # Off
    BY <2>2, <2>3, <2>4
  <2>6. UNCHANGED <<world, trigger, jobs, active, snap, fired>>
    BY <1>9 DEF Record
  <2>7. QED BY <2>5, <2>6 DEF TypeOK, world
<1>10. ASSUME NEW p \in Threads, Begin(p) \/ Look(p) PROVE TypeOK'
  BY <1>10 DEF Begin, Look, TypeOK, world
<1>11. ASSUME NEW p \in Threads, Prune(p) PROVE TypeOK'
  BY <1>11, <1>e DEF Prune, TypeOK, world
<1>12. ASSUME NEW p \in Threads, MakeEntry(p) PROVE TypeOK'
  <2>1. snap[p] \in Crons
    BY <1>12 DEF MakeEntry, PlaceInv, TypeOK
  <2>2. QED BY <1>12, <2>1, <1>e DEF MakeEntry, TypeOK, world
<1>13. ASSUME NEW p \in Threads, Add(p) \/ Reschedule(p) PROVE TypeOK'
  BY <1>13 DEF Add, Added, Reschedule, Rescheduled, TypeOK, world
<1>14. QED
  BY <1>1, <1>2, <1>3, <1>4, <1>5, <1>6, <1>7, <1>8, <1>9, <1>10, <1>11, <1>12, <1>13 DEF Next, Firing, Sync

\* The step of a thread that is not the first firing leaves the first one alone.
LEMMA QuietStep ==
  ASSUME CronsAssumption, SyncersAssumption, BoundsAssumption, SchedulerInv, [Next]_vars
  PROVE  QuietInv'
<1>1. SUFFICES ASSUME edits' = 0, stops' = 0 PROVE QuietInv'
  BY DEF QuietInv
<1>n. 0 \in Firings /\ Firings \subseteq Threads /\ edits \in Nat /\ stops \in Nat /\ jobs \in Nat
  BY DEF Firings, Threads, BoundsAssumption, SchedulerInv, TypeOK
<1>q. TypeOK /\ PlaceInv /\ QuietInv
  BY DEF SchedulerInv
<1>2. ~Save /\ ~Stop
  BY <1>1, <1>n DEF Save, Stop
<1>3. UNCHANGED <<saved, edits, stops>>
  BY <1>2 DEF Next, vars, world, JobEnds, Start, Trigger, Firing, Load, Check, Submit, SubmitFails, Record,
       Begin, Sync, Prune, MakeEntry, Look, Add, Reschedule
<1>4. edits = 0 /\ stops = 0 /\ saved \in Crons /\ entry.cron = saved /\ saved # Off
  BY <1>1, <1>3, <1>q DEF QuietInv, TypeOK
<1>5. EntryFor(saved) = entry
  BY <1>4, <1>n, <1>q, EntryForType
<1>6. /\ \A f \in Firings \ {0} : pc[f] = "idle"
      /\ \A p \in Threads : pc[p] # "tick" /\ (pc[p] \notin {"idle", "load"} => snap[p] = saved)
  BY <1>4, <1>q DEF QuietInv
<1>7. /\ pc[0] = "submit" => active = {}
      /\ pc[0] = "record" => active \subseteq {fired[0]}
      /\ pc[0] \notin {"submit", "record"} => active \subseteq {entry.last}
  BY <1>4, <1>q DEF QuietInv
<1>t. pc \in [Threads -> Places] /\ snap \in [Threads -> Crons \cup {Off}] /\ fired \in [Firings -> 0..jobs]
  BY <1>q DEF TypeOK, PlaceInv
<1> DEFINE Goal == /\ entry'.cron = saved
                   /\ \A f \in Firings \ {0} : pc'[f] = "idle"
                   /\ \A p \in Threads : pc'[p] # "tick" /\ (pc'[p] \notin {"idle", "load"} => snap'[p] = saved)
                   /\ pc'[0] = "submit" => active' = {}
                   /\ pc'[0] = "record" => active' \subseteq {fired'[0]}
                   /\ pc'[0] \notin {"submit", "record"} => active' \subseteq {entry'.last}
<1>8. SUFFICES Goal
  BY <1>3, <1>4 DEF QuietInv
<1>9. CASE UNCHANGED vars
  BY <1>9, <1>4, <1>6, <1>7 DEF vars
<1>10. CASE JobEnds
  BY <1>10, <1>4, <1>6, <1>7 DEF JobEnds
<1>11. CASE Start
  <2>1. entry' = entry
    BY <1>11, <1>4, <1>5 DEF Start
  <2>2. QED BY <1>11, <2>1, <1>4, <1>6, <1>7 DEF Start
<1>12. ASSUME NEW f \in Firings, Trigger(f) \/ Load(f) \/ Check(f) \/ Submit(f) \/ SubmitFails(f) \/ Record(f)
       PROVE  Goal
  <2>1. f = 0
    BY <1>12, <1>4, <1>6, <1>n DEF Trigger, Load, Check, Submit, SubmitFails, Record
  <2>2. CASE Trigger(0) \/ Load(0)
    BY <2>2, <1>3, <1>4, <1>6, <1>7, <1>t, <1>n DEF Trigger, Load, Goto, world
  <2>3. CASE Check(0)
    <3>1. snap[0] = saved
      BY <2>3, <1>6, <1>n DEF Check
    <3>2. entry' = entry
      BY <2>3, <3>1, <1>5 DEF Check
    <3>3. pc' = [pc EXCEPT ![0] = IF entry.last \in active THEN "idle" ELSE "submit"]
      BY <2>3, <3>2 DEF Check, Busy, Goto
    <3>4. active \subseteq {entry.last} /\ UNCHANGED <<active, snap, fired>>
      BY <2>3, <1>7 DEF Check
    <3>5. CASE entry.last \in active
      BY <3>1, <3>2, <3>3, <3>4, <3>5, <1>4, <1>6, <1>7, <1>t, <1>n
    <3>6. CASE entry.last \notin active
      BY <3>1, <3>2, <3>3, <3>4, <3>6, <1>4, <1>6, <1>7, <1>t, <1>n
    <3>7. QED BY <3>5, <3>6
  <2>4. CASE Submit(0)
    <3>1. active' = {jobs + 1} /\ fired'[0] = jobs + 1
      BY <2>4, <1>7, <1>t, <1>n DEF Submit
    <3>2. QED BY <2>4, <3>1, <1>4, <1>6, <1>t, <1>n DEF Submit, Goto
  <2>5. CASE SubmitFails(0)
    <3>1. snap[0] = saved
      BY <2>5, <1>6, <1>n DEF SubmitFails
    <3>2. entry' = entry /\ active' = {}
      BY <2>5, <3>1, <1>5, <1>7 DEF SubmitFails
    <3>3. QED BY <2>5, <3>2, <1>4, <1>6, <1>t, <1>n DEF SubmitFails, Goto
  <2>6. CASE Record(0)
    <3>1. snap[0] = saved
      BY <2>6, <1>6, <1>n DEF Record
    <3>2. entry' = [entry EXCEPT !.last = fired[0]]
      BY <2>6, <3>1, <1>5 DEF Record
    <3>3. entry'.last = fired[0] /\ entry'.cron = saved
      BY <3>2, <1>4, <1>q DEF TypeOK
    <3>4. active' \subseteq {fired[0]}
      BY <2>6, <1>7 DEF Record
    <3>5. QED BY <2>6, <3>3, <3>4, <1>6, <1>t, <1>n DEF Record, Goto
  <2>7. QED BY <1>12, <2>1, <2>2, <2>3, <2>4, <2>5, <2>6
<1>13. ASSUME NEW p \in Threads, Begin(p) PROVE Goal
  <2>1. p \notin Firings
    BY <1>13, <1>6, <1>n DEF Begin
  <2>2. p # 0 /\ \A f \in Firings : f # p
    BY <2>1, <1>n
  <2>3. QED BY <1>13, <2>2, <1>4, <1>6, <1>7, <1>t, <1>n DEF Begin, Goto
<1>14. ASSUME NEW p \in Threads, Sync(p) PROVE Goal
  <2>1. pc[p] \in {"prune", "entry", "look", "add", "reschedule"} /\ snap[p] = saved
    BY <1>14, <1>6 DEF Sync, Prune, MakeEntry, Look, Add, Reschedule
  <2>2. \A f \in Firings \ {0} : f # p
    BY <2>1, <1>6
  <2>3. entry' = entry
    BY <1>14, <2>1, <1>4, <1>5 DEF Sync, Prune, MakeEntry, Look, Add, Reschedule
  <2>4. UNCHANGED <<active, snap, fired>>
    BY <1>14 DEF Sync, Prune, MakeEntry, Look, Add, Reschedule
  <2>5. \E l \in {"idle", "entry", "look", "add", "reschedule"} : pc' = [pc EXCEPT ![p] = l]
    BY <1>14 DEF Sync, Prune, MakeEntry, Look, Add, Reschedule, Goto
  <2>6. QED BY <2>1, <2>2, <2>3, <2>4, <2>5, <1>4, <1>6, <1>7, <1>t, <1>n
<1>15. QED BY <1>2, <1>9, <1>10, <1>11, <1>12, <1>13, <1>14 DEF Next, Firing

LEMMA QuietIsNoOverlap ==
  ASSUME SchedulerInv
  PROVE  NoOverlap
<1>1. SUFFICES ASSUME edits = 0, stops = 0 PROVE Cardinality(active) <= 1
  BY DEF NoOverlap
<1>2. \E j : active \subseteq {j}
  BY <1>1 DEF SchedulerInv, QuietInv
<1>3. PICK j : active \subseteq {j}
  BY <1>2
<1>4. active = {} \/ active = {j}
  BY <1>3
<1>5. Cardinality({}) = 0 /\ Cardinality({j}) = 1
  BY FS_EmptySet, FS_Singleton
<1>6. Cardinality(active) = 0 \/ Cardinality(active) = 1
  BY <1>4, <1>5
<1>7. QED BY <1>6

\* The scheduled jobs of a workflow that is left alone never overlap: for any
\* number of threads that tick beside the firing, and however often it fires.
THEOREM JobsNeverOverlap ==
  ASSUME CronsAssumption, SyncersAssumption, BoundsAssumption
  PROVE  Spec => []NoOverlap
<1>1. Init => SchedulerInv
  BY SchedulerInit
<1>2. SchedulerInv /\ [Next]_vars => SchedulerInv'
  BY TypeStep, PlaceStep, QuietStep DEF SchedulerInv
<1>3. QED BY <1>1, <1>2, QuietIsNoOverlap, PTL DEF Spec

-----------------------------------------------------------------------------
(* The probing sensors.                                                    *)

EntryRecords == [cooldown : Cooldowns, at : Nat, last : Nat]
JobRecords   == [entry : Nat, at : Nat, active : BOOLEAN]
ProbePlaces  == {"idle", "prune", "entry", "look", "add", "load", "tick", "check", "probe", "submit", "record"}
Working      == {"check", "probe", "submit", "record"}  \* places of a check that has begun

\* Past its first look at it, a thread works on a sensor.
ProbeTypes ==
  /\ now \in Nat \ {0} /\ resets \in Nat /\ changes \in Nat
  /\ stored \in Probing!Sensors \cup {Probing!Off}
  /\ entries \in Seq(EntryRecords) /\ current \in 0..Len(entries) /\ armed \in BOOLEAN
  /\ submitted \in Seq(JobRecords)
  /\ at \in [Probing!Threads -> ProbePlaces]
  /\ loaded \in [Probing!Threads -> Probing!Sensors \cup {Probing!Off}]
  /\ check \in [entry : Nat, at : Nat]
  /\ \A t \in Probing!Threads : at[t] \notin {"idle", "load", "tick", "prune"} => loaded[t] # Probing!Off

Checking == at[Probing!Checker]

\* A check began by now, after those that started a job, and it keeps an entry.
CheckInv ==
  /\ Checking \in Working => check.at \in 1..now
  /\ Checking \in Working \ {"check"} => check.entry \in DOMAIN entries
  /\ \A j \in DOMAIN submitted :
       /\ submitted[j].entry \in DOMAIN entries /\ submitted[j].at \in 1..now
       /\ Checking \in Working => submitted[j].at <= check.at
  /\ Checking = "record" =>
       /\ Len(submitted) > 0
       /\ submitted[Len(submitted)].entry = check.entry /\ submitted[Len(submitted)].at = check.at

\* Every job but the one that is about to be recorded.
Recorded == {j \in DOMAIN submitted : Checking = "record" => j # Len(submitted)}

\* An entry knows the last job recorded of it, and when its check began.
Knows(e) ==
  \/ /\ entries[e].last = 0 /\ entries[e].at = 0
     /\ \A j \in Recorded : submitted[j].entry # e
  \/ /\ entries[e].last \in Recorded /\ submitted[entries[e].last].entry = e
     /\ entries[e].at = submitted[entries[e].last].at
     /\ \A j \in Recorded : submitted[j].entry = e => j <= entries[e].last
LastInv == \A e \in DOMAIN entries : Knows(e)

\* What the check saw of its entry still holds when it submits.
ClearInv ==
  Checking \in {"probe", "submit"} =>
    ~Probing!Busy(entries[check.entry]) /\ ~Probing!Cooling(entries[check.entry])

Apart(a, b) == ~submitted[a].active /\ submitted[b].at - submitted[a].at >= entries[submitted[a].entry].cooldown
ApartInv ==
  \A a, b \in DOMAIN submitted : a < b /\ submitted[a].entry = submitted[b].entry => Apart(a, b)

\* While only the probe was edited there is one entry, which every thread finds
\* to fit.
OneEntryInv ==
  resets = 0 =>
    /\ stored # Probing!Off /\ stored.cooldown = entries[1].cooldown
    /\ Len(entries) = 1 /\ current = 1 /\ Checking # "tick"
    /\ \A t \in Probing!Threads :
         /\ loaded[t] # Probing!Off => loaded[t].cooldown = entries[1].cooldown
         /\ at[t] = "prune" => loaded[t] # Probing!Off

ProbeInv == ProbeTypes /\ CheckInv /\ LastInv /\ ClearInv /\ ApartInv /\ OneEntryInv

\* _sensor_entry_for gives an entry of the sensor's cooldown: the one there is, or
\* a new one that knows no job.
Grown == /\ entries' \in Seq(EntryRecords) /\ Len(entries) <= Len(entries')
         /\ \A e \in 1..Len(entries) : entries'[e] = entries[e]
         /\ \A e \in 1..Len(entries') : e > Len(entries) => entries'[e].last = 0 /\ entries'[e].at = 0

LEMMA ProbeEntry ==
  ASSUME ProbeTypes, NEW s \in Probing!Sensors, Probing!EntryFor(s)
  PROVE  /\ Grown /\ current' \in 1..Len(entries') /\ entries'[current'].cooldown = s.cooldown
         /\ current # 0 /\ entries[current].cooldown = s.cooldown => UNCHANGED <<entries, current>>
<1>1. entries \in Seq(EntryRecords) /\ current \in 0..Len(entries)
  BY DEF ProbeTypes
<1>2. CASE Probing!Fits(s)
  <2>1. UNCHANGED <<entries, current>> /\ current # 0 /\ entries[current].cooldown = s.cooldown
    BY <1>2 DEF Probing!EntryFor, Probing!Fits
  <2>2. QED BY <1>1, <2>1 DEF Grown
<1>3. CASE ~Probing!Fits(s)
  <2>1. entries' = Append(entries, Probing!Fresh(s)) /\ current' = Len(entries) + 1
    BY <1>3 DEF Probing!EntryFor
  <2>2. Probing!Fresh(s) \in EntryRecords /\ Probing!Fresh(s).cooldown = s.cooldown
        /\ Probing!Fresh(s).last = 0 /\ Probing!Fresh(s).at = 0
    BY DEF Probing!Fresh, EntryRecords, Probing!Sensors
  <2>3. \A f \in EntryRecords :
          /\ Append(entries, f) \in Seq(EntryRecords) /\ Len(Append(entries, f)) = Len(entries) + 1
          /\ \A e \in 1..Len(entries) : Append(entries, f)[e] = entries[e]
          /\ Append(entries, f)[Len(entries) + 1] = f
    BY <1>1
  <2>4. entries' \in Seq(EntryRecords) /\ Len(entries') = Len(entries) + 1
        /\ (\A e \in 1..Len(entries) : entries'[e] = entries[e])
        /\ entries'[Len(entries) + 1] = Probing!Fresh(s)
    BY <2>1, <2>2, <2>3
  <2>5. Len(entries) \in Nat
    BY <1>1
  <2>6. Grown
    BY <2>2, <2>4, <2>5 DEF Grown
  <2>7. ~(current # 0 /\ entries[current].cooldown = s.cooldown)
    BY <1>3 DEF Probing!Fits
  <2>8. QED BY <2>1, <2>2, <2>4, <2>5, <2>6, <2>7
<1>4. QED BY <1>2, <1>3

\* The steps by what they do to the entries and the jobs.
ProbeWorld  == Probing!TimePasses \/ Probing!Save
ProbeThread(t) == Probing!Begin(t) \/ Probing!Prune(t) \/ Probing!Look(t) \/ Probing!Add(t)
ProbeCheck  == Probing!Fire \/ Probing!Load \/ Probing!Probe
ProbeMakes  == (\E t \in Probing!Threads : Probing!MakeEntry(t)) \/ Probing!Check \/ Probing!Fails

LEMMA ProbeCases ==
  ASSUME Probing!Next
  PROVE  \/ ProbeWorld \/ (\E t \in Probing!Threads : ProbeThread(t)) \/ ProbeCheck \/ ProbeMakes
         \/ Probing!JobEnds \/ Probing!Submit \/ Probing!Record
BY DEF Probing!Next, Probing!Sync, ProbeWorld, ProbeThread, ProbeCheck, ProbeMakes

\* The threads that make an entry work on a sensor.
LEMMA MakesGrow ==
  ASSUME ProbeTypes, ProbeMakes
  PROVE  /\ Grown /\ current' \in 1..Len(entries') /\ UNCHANGED <<now, stored, changes, resets, armed, submitted>>
         /\ \E t \in Probing!Threads :
              /\ loaded[t] \in Probing!Sensors /\ at[t] \in {"entry", "check", "probe", "submit"}
              /\ entries'[current'].cooldown = loaded[t].cooldown
              /\ current # 0 /\ entries[current].cooldown = loaded[t].cooldown => UNCHANGED <<entries, current>>
<1>0. Probing!Checker \in Probing!Threads
  BY DEF Probing!Threads
<1>1. PICK t \in Probing!Threads : Probing!EntryFor(loaded[t]) /\ at[t] \in {"entry", "check", "probe", "submit"}
  BY <1>0 DEF ProbeMakes, Probing!MakeEntry, Probing!Check, Probing!Fails
<1>2. loaded[t] \in Probing!Sensors
  BY <1>1 DEF ProbeTypes
<1>3. UNCHANGED <<now, stored, changes, resets, armed, submitted>>
  BY DEF ProbeMakes, Probing!MakeEntry, Probing!Check, Probing!Fails, Probing!world
<1>4. QED BY <1>1, <1>2, <1>3, ProbeEntry

\* Off is no sensor: a cooldown is positive.
LEMMA SensorIsOn ==
  ASSUME Probing!ProbeAssumption, NEW s \in Probing!Sensors
  PROVE  s # Probing!Off /\ s.cooldown # Probing!Off.cooldown /\ s.cooldown \in Nat
<1>1. s.cooldown \in Cooldowns /\ Cooldowns \subseteq Nat \ {0}
  BY DEF Probing!Sensors, Probing!ProbeAssumption
<1>2. Probing!Off.cooldown = 0
  BY DEF Probing!Off
<1>3. QED BY <1>1, <1>2

LEMMA ProbeInit ==
  ASSUME Probing!ProbeAssumption, Probing!Init
  PROVE  ProbeInv
<1>1. /\ stored \in Probing!Sensors /\ entries = <<Probing!Fresh(stored)>> /\ current = 1 /\ armed = TRUE
      /\ submitted = <<>> /\ now = 1 /\ resets = 0 /\ changes = 0 /\ check = [entry |-> 0, at |-> 0]
      /\ at = [t \in Probing!Threads |-> "idle"] /\ loaded = [t \in Probing!Threads |-> Probing!Off]
  BY DEF Probing!Init
<1>2. Probing!Fresh(stored) \in EntryRecords /\ Probing!Fresh(stored).cooldown = stored.cooldown
      /\ Probing!Fresh(stored).last = 0 /\ Probing!Fresh(stored).at = 0
  BY <1>1 DEF Probing!Fresh, EntryRecords, Probing!Sensors
<1>3. entries \in Seq(EntryRecords) /\ Len(entries) = 1 /\ entries[1] = Probing!Fresh(stored)
  BY <1>1, <1>2
<1>4. Probing!Checker \in Probing!Threads /\ Checking = "idle"
  BY <1>1 DEF Probing!Threads, Checking
<1>5. submitted \in Seq(JobRecords) /\ DOMAIN submitted = {} /\ Recorded = {}
  BY <1>1 DEF Recorded
<1>6. ProbeTypes
  BY <1>1, <1>3, <1>5 DEF ProbeTypes, ProbePlaces
<1>7. CheckInv /\ ClearInv /\ ApartInv
  BY <1>4, <1>5 DEF CheckInv, ClearInv, ApartInv, Working
<1>8. LastInv
  BY <1>2, <1>3, <1>5 DEF LastInv, Knows
<1>9. stored # Probing!Off
  BY <1>1, SensorIsOn
<1>10. OneEntryInv
  BY <1>1, <1>2, <1>3, <1>4, <1>9 DEF OneEntryInv
<1>11. QED BY <1>6, <1>7, <1>8, <1>10 DEF ProbeInv

LEMMA ProbeTypesStep ==
  ASSUME Probing!ProbeAssumption, ProbeTypes, CheckInv, [Probing!Next]_(Probing!vars)
  PROVE  ProbeTypes'
<1>0. Probing!Checker \in Probing!Threads
  BY DEF Probing!Threads
<1>1. CASE UNCHANGED Probing!vars
  BY <1>1 DEF Probing!vars, ProbeTypes
<1>2. CASE ProbeWorld
  BY <1>2 DEF ProbeWorld, Probing!TimePasses, Probing!Save, ProbeTypes
<1>3. ASSUME NEW t \in Probing!Threads, ProbeThread(t) PROVE ProbeTypes'
  <2>1. UNCHANGED <<now, stored, changes, resets, entries, submitted, check>> /\ current' \in {current, 0}
        /\ armed' \in BOOLEAN
    BY <1>3 DEF ProbeThread, Probing!Begin, Probing!Prune, Probing!Look, Probing!Add, Probing!world, ProbeTypes
  <2>2. CASE Probing!Begin(t)
    BY <2>1, <2>2 DEF Probing!Begin, Probing!Take, ProbeTypes, ProbePlaces
  <2>3. CASE Probing!Prune(t) \/ Probing!Look(t) \/ Probing!Add(t)
    <3>1. PICK l \in {"idle", "entry", "add"} : Probing!Goto(t, l) /\ (l # "idle" => loaded[t] # Probing!Off)
      <4>1. CASE Probing!Prune(t)
        BY <4>1 DEF Probing!Prune
      <4>2. CASE Probing!Look(t)
        BY <4>2 DEF Probing!Look, ProbeTypes
      <4>3. CASE Probing!Add(t)
        BY <4>3 DEF Probing!Add
      <4>4. QED BY <2>3, <4>1, <4>2, <4>3
    <3>2. at' = [at EXCEPT ![t] = l] /\ loaded' = IF l = "idle" THEN [loaded EXCEPT ![t] = Probing!Off] ELSE loaded
      BY <3>1 DEF Probing!Goto
    <3>3. /\ at' \in [Probing!Threads -> ProbePlaces]
          /\ loaded' \in [Probing!Threads -> Probing!Sensors \cup {Probing!Off}]
      BY <3>2 DEF ProbeTypes, ProbePlaces
    <3>4. ASSUME NEW u \in Probing!Threads, at'[u] \notin {"idle", "load", "tick", "prune"}
          PROVE  loaded'[u] # Probing!Off
      <4>1. CASE u = t
        BY <3>1, <3>2, <3>4, <4>1 DEF ProbeTypes
      <4>2. CASE u # t
        BY <3>2, <3>4, <4>2 DEF ProbeTypes
      <4>3. QED BY <4>1, <4>2
    <3>5. current' \in 0..Len(entries')
      BY <2>1 DEF ProbeTypes
    <3>6. QED BY <2>1, <3>3, <3>4, <3>5 DEF ProbeTypes
  <2>4. QED BY <1>3, <2>2, <2>3 DEF ProbeThread
<1>4. CASE ProbeCheck
  <2>1. UNCHANGED <<now, stored, changes, resets, entries, current, armed, submitted>>
    BY <1>4 DEF ProbeCheck, Probing!Fire, Probing!Load, Probing!Probe, Probing!world
  <2>2. CASE Probing!Load
    BY <2>1, <2>2, <1>0 DEF Probing!Load, Probing!Take, ProbeTypes, ProbePlaces
  <2>3. CASE Probing!Fire \/ Probing!Probe
    BY <2>1, <2>3, <1>0 DEF Probing!Fire, Probing!Probe, Probing!Goto, ProbeTypes, ProbePlaces
  <2>4. QED BY <1>4, <2>2, <2>3 DEF ProbeCheck
<1>5. CASE ProbeMakes
  <2>1. Grown /\ current' \in 1..Len(entries') /\ UNCHANGED <<now, stored, changes, resets, armed, submitted>>
    BY <1>5, MakesGrow
  <2>2. entries' \in Seq(EntryRecords) /\ current' \in 0..Len(entries') /\ current' \in Nat
    BY <2>1 DEF Grown
  <2>3. check' \in [entry : Nat, at : Nat]
    BY <1>5, <2>2 DEF ProbeMakes, Probing!MakeEntry, Probing!Check, Probing!Fails, ProbeTypes
  <2>4. \E t \in Probing!Threads : \E l \in ProbePlaces :
          /\ Probing!Goto(t, l) /\ (l \notin {"idle", "load", "tick", "prune"} => loaded[t] # Probing!Off)
    BY <1>5, <1>0 DEF ProbeMakes, Probing!MakeEntry, Probing!Check, Probing!Fails, ProbePlaces, ProbeTypes
  <2>5. /\ at' \in [Probing!Threads -> ProbePlaces]
        /\ loaded' \in [Probing!Threads -> Probing!Sensors \cup {Probing!Off}]
        /\ \A t \in Probing!Threads : at'[t] \notin {"idle", "load", "tick", "prune"} => loaded'[t] # Probing!Off
    BY <2>4 DEF Probing!Goto, ProbeTypes
  <2>6. QED BY <2>1, <2>2, <2>3, <2>5 DEF ProbeTypes
<1>6. CASE Probing!JobEnds
  <2>1. PICK j \in DOMAIN submitted : submitted' = [submitted EXCEPT ![j].active = FALSE]
    BY <1>6 DEF Probing!JobEnds
  <2>2. submitted' \in Seq(JobRecords)
    <3>1. submitted \in Seq(JobRecords)
      BY DEF ProbeTypes
    <3>2. [submitted[j] EXCEPT !.active = FALSE] \in JobRecords
      <4>1. \A r \in JobRecords : [r EXCEPT !.active = FALSE] \in JobRecords
        BY DEF JobRecords
      <4>2. submitted[j] \in JobRecords
        BY <2>1, <3>1
      <4>3. QED BY <4>1, <4>2
    <3>3. submitted' = [submitted EXCEPT ![j] = [submitted[j] EXCEPT !.active = FALSE]]
      BY <2>1
    <3>4. QED BY <2>1, <3>1, <3>2, <3>3
  <2>3. QED BY <1>6, <2>2 DEF Probing!JobEnds, Probing!world, ProbeTypes
<1>7. CASE Probing!Submit
  <2>1. submitted' \in Seq(JobRecords)
    BY <1>7 DEF Probing!Submit, ProbeTypes, JobRecords
  <2>2. UNCHANGED <<now, stored, changes, resets, entries, current, armed, check>>
    BY <1>7 DEF Probing!Submit, Probing!world
  <2>3. Probing!Goto(Probing!Checker, "record") /\ at[Probing!Checker] = "submit"
    BY <1>7 DEF Probing!Submit
  <2>4. QED BY <2>1, <2>2, <2>3, <1>0 DEF Probing!Goto, ProbeTypes, ProbePlaces
<1>8. CASE Probing!Record
  <2>1. entries' \in Seq(EntryRecords) /\ Len(entries') = Len(entries)
    <3>1. Len(submitted) \in Nat /\ check.at \in Nat /\ entries \in Seq(EntryRecords)
      BY DEF ProbeTypes
    <3>2. entries' = [entries EXCEPT ![check.entry].at = check.at, ![check.entry].last = Len(submitted)]
      BY <1>8 DEF Probing!Record
    <3>3. \A e \in DOMAIN entries : entries[e] \in EntryRecords
      BY <3>1
    <3>4. \A n, m \in Nat, r \in EntryRecords : [[r EXCEPT !.at = n] EXCEPT !.last = m] \in EntryRecords
      BY DEF EntryRecords
    <3>5. DOMAIN entries' = DOMAIN entries /\ \A e \in DOMAIN entries :
            entries'[e] = IF e = check.entry THEN [[entries[e] EXCEPT !.at = check.at] EXCEPT !.last = Len(submitted)] ELSE entries[e]
      BY <3>2
    <3>6. ASSUME NEW e \in DOMAIN entries PROVE entries'[e] \in EntryRecords
      <4>1. [[entries[e] EXCEPT !.at = check.at] EXCEPT !.last = Len(submitted)] \in EntryRecords
        BY <3>1, <3>3, <3>4
      <4>2. QED BY <3>3, <3>5, <4>1
    <3>7a. DOMAIN entries = 1..Len(entries) /\ Len(entries) \in Nat
      BY <3>1
    <3>7b. entries' = [e \in DOMAIN entries |-> entries'[e]]
      BY <3>2
    <3>7. DOMAIN entries = 1..Len(entries) /\ Len(entries) \in Nat /\ entries' = [e \in 1..Len(entries) |-> entries'[e]]
      BY <3>7a, <3>7b
    <3>8. QED BY <3>6, <3>7
  <2>2. UNCHANGED <<now, stored, changes, resets, current, armed, submitted, check>>
    BY <1>8 DEF Probing!Record, Probing!world
  <2>3. Probing!Goto(Probing!Checker, "idle")
    BY <1>8 DEF Probing!Record
  <2>4. QED BY <2>1, <2>2, <2>3, <1>0 DEF Probing!Goto, ProbeTypes, ProbePlaces
<1>9. QED BY <1>1, <1>2, <1>3, <1>4, <1>5, <1>6, <1>7, <1>8, ProbeCases

\* Where a check is, and when it began, changes as the steps say.
LEMMA CheckPlaces ==
  ASSUME ProbeTypes, [Probing!Next]_(Probing!vars)
  PROVE  /\ Probing!Checker \in Probing!Threads /\ Checking \in ProbePlaces
         /\ Checking' \in Working =>
              \/ Checking' = Checking /\ check' = check
              \/ Probing!Load /\ check' = [entry |-> 0, at |-> now] /\ Checking' = "check"
              \/ Probing!Check /\ Checking = "check" /\ Checking' = "probe" /\ check' = [check EXCEPT !.entry = current']
              \/ Probing!Probe /\ Checking = "probe" /\ Checking' = "submit" /\ check' = check
              \/ Probing!Submit /\ Checking = "submit" /\ Checking' = "record" /\ check' = check
         /\ Checking = "record" => Checking' = "record" \/ Probing!Record
<1>0. Probing!Checker \in Probing!Threads /\ Checking \in ProbePlaces /\ at \in [Probing!Threads -> ProbePlaces]
  BY DEF Probing!Threads, ProbeTypes, Checking
<1>1. CASE UNCHANGED Probing!vars
  BY <1>0, <1>1 DEF Probing!vars, Checking
<1>2. CASE ProbeWorld \/ Probing!JobEnds
  BY <1>0, <1>2 DEF ProbeWorld, Probing!TimePasses, Probing!Save, Probing!JobEnds, Checking
<1>3. ASSUME NEW t \in Probing!Threads, ProbeThread(t) \/ Probing!MakeEntry(t)
      PROVE  check' = check /\ (Checking' \in Working \/ Checking = "record" => Checking' = Checking)
  <2>1. /\ check' = check /\ at[t] \in {"idle", "tick", "prune", "entry", "look", "add"}
        /\ \E l \in {"prune", "idle", "entry", "look", "add"} : at' = [at EXCEPT ![t] = l]
    BY <1>3 DEF ProbeThread, Probing!Begin, Probing!Prune, Probing!Look, Probing!Add, Probing!MakeEntry,
       Probing!Take, Probing!Goto
  <2>2. QED BY <1>0, <2>1 DEF Checking, Working
<1>4. CASE Probing!Fire \/ Probing!Fails \/ Probing!Record
  <2>1. Checking' \in {"load", "idle"} /\ Checking # "load"
    BY <1>0, <1>4 DEF Probing!Fire, Probing!Fails, Probing!Record, Probing!Goto, Checking
  <2>2. Checking = "record" => Probing!Record
    BY <1>4 DEF Probing!Fire, Probing!Fails, Checking
  <2>3. QED BY <1>0, <2>1, <2>2 DEF Working
<1>5. CASE Probing!Load
  <2>1. Checking = "load" /\ Checking' \in {"tick", "check"} /\ check' = [entry |-> 0, at |-> now]
    BY <1>0, <1>5 DEF Probing!Load, Probing!Take, Checking
  <2>2. QED BY <1>0, <1>5, <2>1 DEF Working
<1>6. CASE Probing!Check
  <2>1. Checking = "check" /\ Checking' \in {"idle", "probe"} /\ check' = [check EXCEPT !.entry = current']
    BY <1>0, <1>6 DEF Probing!Check, Probing!Goto, Checking
  <2>2. QED BY <1>0, <1>6, <2>1 DEF Working
<1>7. CASE Probing!Probe
  <2>1. Checking = "probe" /\ Checking' \in {"idle", "submit"} /\ check' = check
    BY <1>0, <1>7 DEF Probing!Probe, Probing!Goto, Checking
  <2>2. QED BY <1>0, <1>7, <2>1 DEF Working
<1>8. CASE Probing!Submit
  <2>1. Checking = "submit" /\ Checking' = "record" /\ check' = check
    BY <1>0, <1>8 DEF Probing!Submit, Probing!Goto, Checking
  <2>2. QED BY <1>0, <1>8, <2>1 DEF Working
<1>9. QED BY <1>0, <1>1, <1>2, <1>3, <1>4, <1>5, <1>6, <1>7, <1>8, ProbeCases DEF ProbeCheck, ProbeMakes

\* Time does not go back, entries are never dropped, and jobs are only added.
LEMMA ProbeGrows ==
  ASSUME ProbeTypes, ProbeTypes', [Probing!Next]_(Probing!vars)
  PROVE  /\ now <= now' /\ Len(entries) <= Len(entries')
         /\ \/ Probing!Submit /\ submitted' = Append(submitted, [entry |-> check.entry, at |-> check.at, active |-> TRUE])
            \/ /\ ~Probing!Submit /\ Len(submitted') = Len(submitted)
               /\ \A j \in DOMAIN submitted :
                    /\ submitted'[j].entry = submitted[j].entry /\ submitted'[j].at = submitted[j].at
                    /\ submitted'[j].active => submitted[j].active
<1>n. now \in Nat /\ Len(entries) \in Nat /\ Len(submitted) \in Nat /\ submitted \in Seq(JobRecords) /\ entries \in Seq(EntryRecords)
  BY DEF ProbeTypes
<1> DEFINE Same == UNCHANGED submitted /\ now <= now' /\ Len(entries) <= Len(entries')
<1>1. CASE UNCHANGED Probing!vars
  <2>1. Same
    BY <1>1, <1>n DEF Probing!vars
  <2>2. QED BY <2>1, <1>n DEF Probing!Submit
<1>2. ASSUME ProbeWorld PROVE Same
  BY <1>2, <1>n DEF ProbeWorld, Probing!TimePasses, Probing!Save
<1>3. ASSUME NEW t \in Probing!Threads, ProbeThread(t) PROVE UNCHANGED <<now, entries, submitted>>
  BY <1>3 DEF ProbeThread, Probing!Begin, Probing!Prune, Probing!Look, Probing!Add, Probing!world
<1>4. ASSUME ProbeCheck PROVE Same
  BY <1>4, <1>n DEF ProbeCheck, Probing!Fire, Probing!Load, Probing!Probe, Probing!world
<1>5. ASSUME ProbeMakes PROVE Same
  BY <1>5, <1>n, MakesGrow DEF Grown
<1>6. CASE Probing!JobEnds
  <2>1. PICK k \in DOMAIN submitted : submitted[k].active /\ submitted' = [submitted EXCEPT ![k].active = FALSE]
    BY <1>6 DEF Probing!JobEnds
  <2>2. \A j \in DOMAIN submitted : submitted[j] \in JobRecords
    BY <1>n
  <2>3. \A r \in JobRecords : [r EXCEPT !.active = FALSE].entry = r.entry /\ [r EXCEPT !.active = FALSE].at = r.at
                              /\ ~[r EXCEPT !.active = FALSE].active
    BY DEF JobRecords
  <2>4. submitted' = [submitted EXCEPT ![k] = [submitted[k] EXCEPT !.active = FALSE]]
    BY <2>1
  <2>5. \A j \in DOMAIN submitted : submitted'[j] = submitted[j] \/ submitted'[j] = [submitted[j] EXCEPT !.active = FALSE]
    BY <2>4
  <2>6. Len(submitted') = Len(submitted)
    BY <1>n, <2>4
  <2>7. UNCHANGED <<now, entries>>
    BY <1>6 DEF Probing!JobEnds, Probing!world
  <2>8. /\ ~Probing!Submit
        /\ \A j \in DOMAIN submitted : /\ submitted'[j].entry = submitted[j].entry /\ submitted'[j].at = submitted[j].at
                                       /\ submitted'[j].active => submitted[j].active
    <3>1. ~Probing!Submit
      BY <1>n, <2>6 DEF Probing!Submit
    <3>2. ASSUME NEW j \in DOMAIN submitted
          PROVE  /\ submitted'[j].entry = submitted[j].entry /\ submitted'[j].at = submitted[j].at
                 /\ submitted'[j].active => submitted[j].active
      <4>1. submitted[j] \in JobRecords
        BY <2>2
      <4>2. CASE submitted'[j] = submitted[j]
        BY <4>2
      <4>3. CASE submitted'[j] = [submitted[j] EXCEPT !.active = FALSE]
        BY <2>3, <4>1, <4>3
      <4>4. QED BY <2>5, <4>2, <4>3
    <3>3. QED BY <3>1, <3>2
  <2>9. QED BY <1>n, <2>6, <2>7, <2>8
<1>7. CASE Probing!Submit
  BY <1>7, <1>n DEF Probing!Submit, Probing!world
<1>8. CASE Probing!Record
  <2>1. UNCHANGED <<now, submitted>> /\ Len(entries') = Len(entries)
    BY <1>8, <1>n DEF Probing!Record, Probing!world
  <2>2. ~Probing!Submit
    BY <1>n, <2>1 DEF Probing!Submit
  <2>3. QED BY <1>n, <2>1, <2>2
<1>9. QED
  <2>1. ASSUME UNCHANGED submitted PROVE ~Probing!Submit
    BY <1>n, <2>1 DEF Probing!Submit
  <2>2. QED BY <1>n, <2>1, <1>1, <1>2, <1>3, <1>4, <1>5, <1>6, <1>7, <1>8, ProbeCases

LEMMA CheckStep ==
  ASSUME Probing!ProbeAssumption, ProbeTypes, ProbeTypes', CheckInv, [Probing!Next]_(Probing!vars)
  PROVE  CheckInv'
<1>n. /\ now \in Nat \ {0} /\ now' \in Nat \ {0} /\ now <= now' /\ Len(entries) \in Nat /\ Len(entries') \in Nat
      /\ Len(submitted) \in Nat /\ Len(entries) <= Len(entries') /\ check \in [entry : Nat, at : Nat]
      /\ submitted \in Seq(JobRecords) /\ submitted' \in Seq(JobRecords)
      /\ DOMAIN entries = 1..Len(entries) /\ DOMAIN entries' = 1..Len(entries')
      /\ DOMAIN submitted = 1..Len(submitted) /\ DOMAIN submitted' = 1..Len(submitted') /\ current' \in 0..Len(entries')
  BY ProbeGrows DEF ProbeTypes
<1>1. Checking' \in Working =>
              \/ Checking' = Checking /\ check' = check
              \/ Probing!Load /\ check' = [entry |-> 0, at |-> now] /\ Checking' = "check"
              \/ Probing!Check /\ Checking = "check" /\ Checking' = "probe" /\ check' = [check EXCEPT !.entry = current']
              \/ Probing!Probe /\ Checking = "probe" /\ Checking' = "submit" /\ check' = check
              \/ Probing!Submit /\ Checking = "submit" /\ Checking' = "record" /\ check' = check
  BY CheckPlaces
<1>2. Checking' \in Working => check'.at \in 1..now'
  BY <1>1, <1>n DEF CheckInv, Working
<1>3. Checking' \in Working \ {"check"} => check'.entry \in DOMAIN entries'
  <2>1. Probing!Check => current' # 0
    BY MakesGrow DEF ProbeMakes
  <2>2. Probing!Check /\ check' = [check EXCEPT !.entry = current'] => check'.entry \in DOMAIN entries'
    BY <1>n, <2>1
  <2>3. check.entry \in DOMAIN entries => check.entry \in DOMAIN entries'
    BY <1>n
  <2>4. QED BY <1>1, <2>2, <2>3 DEF CheckInv, Working
<1>4. CASE Probing!Submit
  <2>1. submitted' = Append(submitted, [entry |-> check.entry, at |-> check.at, active |-> TRUE])
    BY <1>4 DEF Probing!Submit
  <2>2. Checking = "submit" /\ Checking' = "record" /\ check' = check /\ entries' = entries /\ now' = now
    BY <1>4, CheckPlaces DEF Probing!Submit, Probing!Goto, Checking, Probing!world, ProbeTypes
  <2>3. Len(submitted') = Len(submitted) + 1 /\ submitted'[Len(submitted')].entry = check.entry
        /\ submitted'[Len(submitted')].at = check.at /\ \A j \in DOMAIN submitted : submitted'[j] = submitted[j]
    BY <2>1, <1>n
  <2>4. check.at \in 1..now /\ check.entry \in DOMAIN entries
    BY <2>2 DEF CheckInv, Working
  <2>5. ASSUME NEW j \in DOMAIN submitted'
        PROVE  submitted'[j].entry \in DOMAIN entries' /\ submitted'[j].at \in 1..now' /\ submitted'[j].at <= check'.at
    <3>1. CASE j = Len(submitted')
      BY <3>1, <2>2, <2>3, <2>4, <1>n
    <3>2. CASE j # Len(submitted')
      <4>1. j \in DOMAIN submitted
        BY <3>2, <2>3, <1>n
      <4>2. submitted'[j] = submitted[j]
        BY <4>1, <2>3
      <4>3. QED BY <4>1, <4>2, <2>2 DEF CheckInv, Working
    <3>3. QED BY <3>1, <3>2
  <2>6. QED BY <1>2, <1>3, <2>2, <2>3, <2>5, <1>n DEF CheckInv
<1>5. CASE ~Probing!Submit
  <2>1. Len(submitted') = Len(submitted)
        /\ \A j \in DOMAIN submitted : submitted'[j].entry = submitted[j].entry /\ submitted'[j].at = submitted[j].at
    BY <1>5, ProbeGrows
  <2>2. ASSUME NEW j \in DOMAIN submitted'
        PROVE  /\ submitted'[j].entry \in DOMAIN entries' /\ submitted'[j].at \in 1..now'
               /\ Checking' \in Working => submitted'[j].at <= check'.at
    <3>1. j \in DOMAIN submitted /\ submitted'[j].entry = submitted[j].entry /\ submitted'[j].at = submitted[j].at
      BY <1>n, <2>1
    <3>2. submitted[j].entry \in DOMAIN entries /\ submitted[j].at \in 1..now
          /\ (Checking \in Working => submitted[j].at <= check.at)
      BY <3>1 DEF CheckInv
    <3>3. ASSUME Checking' \in Working PROVE submitted'[j].at <= check'.at
      <4>1. CASE Checking \in Working /\ check'.at = check.at
        BY <3>1, <3>2, <4>1
      <4>2. CASE check' = [entry |-> 0, at |-> now]
        BY <3>1, <3>2, <4>2, <1>n
      <4>3. QED BY <1>1, <1>5, <1>n, <3>3, <4>1, <4>2 DEF Working
    <3>4. QED BY <1>n, <3>1, <3>2, <3>3
  <2>3. Checking' = "record" => Checking = "record" /\ check' = check
    BY <1>1, <1>5 DEF Working
  <2>4. ASSUME Checking' = "record"
        PROVE  Len(submitted') > 0 /\ submitted'[Len(submitted')].entry = check'.entry /\ submitted'[Len(submitted')].at = check'.at
    <3>1. Len(submitted) > 0 /\ submitted[Len(submitted)].entry = check.entry /\ submitted[Len(submitted)].at = check.at
      BY <2>3, <2>4 DEF CheckInv
    <3>2. QED BY <3>1, <2>1, <2>3, <2>4, <1>n
  <2>5. QED BY <1>2, <1>3, <2>2, <2>4 DEF CheckInv
<1>6. QED BY <1>4, <1>5

\* The steps but Submit and Record keep what entries and jobs know of each other:
\* entries stay, new ones know nothing, and at most a job ends.
LEMMA OthersKeep ==
  ASSUME ProbeTypes, ProbeTypes', [Probing!Next]_(Probing!vars), ~Probing!Submit, ~Probing!Record
  PROVE  /\ Grown /\ (Checking' = "record" <=> Checking = "record")
         /\ Len(submitted') = Len(submitted) /\ DOMAIN submitted' = DOMAIN submitted
         /\ \A j \in DOMAIN submitted :
              /\ submitted'[j].entry = submitted[j].entry /\ submitted'[j].at = submitted[j].at
              /\ submitted'[j].active => submitted[j].active
<1>n. entries \in Seq(EntryRecords) /\ submitted \in Seq(JobRecords) /\ submitted' \in Seq(JobRecords)
  BY DEF ProbeTypes
<1>0. UNCHANGED entries => Grown
  BY <1>n DEF Grown
<1>1. ASSUME UNCHANGED Probing!vars \/ ProbeWorld \/ ProbeCheck \/ Probing!JobEnds PROVE Grown
  BY <1>0, <1>1 DEF Probing!vars, ProbeWorld, ProbeCheck, Probing!TimePasses, Probing!Save, Probing!Fire,
     Probing!Load, Probing!Probe, Probing!JobEnds
<1>2. ASSUME NEW t \in Probing!Threads, ProbeThread(t) PROVE Grown
  BY <1>0, <1>2 DEF ProbeThread, Probing!Begin, Probing!Prune, Probing!Look, Probing!Add
<1>3. Grown
  BY <1>1, <1>2, MakesGrow, ProbeCases
<1>4. Checking' = "record" <=> Checking = "record"
  BY CheckPlaces DEF Working
<1>5. QED BY <1>n, <1>3, <1>4, ProbeGrows

LEMMA LastKept ==
  ASSUME ProbeTypes, ProbeTypes', CheckInv, LastInv, [Probing!Next]_(Probing!vars), ~Probing!Submit, ~Probing!Record
  PROVE  LastInv'
<1>1. /\ Grown /\ (Checking' = "record" <=> Checking = "record")
      /\ Len(submitted') = Len(submitted) /\ DOMAIN submitted' = DOMAIN submitted
      /\ \A j \in DOMAIN submitted : submitted'[j].entry = submitted[j].entry /\ submitted'[j].at = submitted[j].at
  BY OthersKeep
<1>2. Recorded' = Recorded /\ Recorded \subseteq DOMAIN submitted
  BY <1>1 DEF Recorded
<1>n. DOMAIN entries = 1..Len(entries) /\ DOMAIN entries' = 1..Len(entries') /\ Len(entries) \in Nat /\ Len(entries') \in Nat
  BY DEF ProbeTypes
<1>3. ASSUME NEW e \in DOMAIN entries' PROVE Knows(e)'
  <2>1. CASE e \in DOMAIN entries
    <3>1. entries'[e] = entries[e]
      BY <1>1, <2>1, <1>n DEF Grown
    <3>2. Knows(e)
      BY <2>1 DEF LastInv
    <3>3. QED BY <1>1, <1>2, <3>1, <3>2 DEF Knows
  <2>2. CASE e \notin DOMAIN entries
    <3>1. entries'[e].last = 0 /\ entries'[e].at = 0
      BY <1>1, <1>3, <2>2, <1>n DEF Grown
    <3>2. ASSUME NEW j \in Recorded PROVE submitted'[j].entry # e
      <4>1. submitted[j].entry \in DOMAIN entries /\ submitted'[j].entry = submitted[j].entry
        BY <1>1, <1>2 DEF CheckInv
      <4>2. QED BY <2>2, <4>1
    <3>3. QED BY <1>2, <3>1, <3>2 DEF Knows
  <2>3. QED BY <2>1, <2>2
<1>4. QED BY <1>3 DEF LastInv

\* A submission is not recorded yet; Record does that.
LEMMA LastSubmitted ==
  ASSUME ProbeTypes, ProbeTypes', LastInv, Probing!Submit
  PROVE  LastInv'
<1>0. [Probing!Next]_(Probing!vars)
  BY DEF Probing!Next
<1>1. /\ Checking = "submit" /\ Checking' = "record" /\ UNCHANGED entries
      /\ submitted' = Append(submitted, [entry |-> check.entry, at |-> check.at, active |-> TRUE])
  BY <1>0, CheckPlaces DEF Probing!Submit, Probing!Goto, Checking, ProbeTypes
<1>2. submitted \in Seq(JobRecords) /\ Len(submitted) \in Nat /\ DOMAIN submitted = 1..Len(submitted)
  BY DEF ProbeTypes
<1>3. Len(submitted') = Len(submitted) + 1 /\ DOMAIN submitted' = 1..(Len(submitted) + 1)
      /\ \A j \in DOMAIN submitted : submitted'[j] = submitted[j]
  BY <1>1, <1>2
<1>4. Recorded' = DOMAIN submitted /\ Recorded = DOMAIN submitted
  BY <1>1, <1>2, <1>3 DEF Recorded
<1>5. QED BY <1>1, <1>3, <1>4 DEF LastInv, Knows

LEMMA LastRecorded ==
  ASSUME ProbeTypes, ProbeTypes', CheckInv, LastInv, Probing!Record
  PROVE  LastInv'
<1>1. /\ Checking = "record" /\ Checking' = "idle" /\ UNCHANGED submitted
      /\ entries' = [entries EXCEPT ![check.entry].at = check.at, ![check.entry].last = Len(submitted)]
  BY DEF Probing!Record, Probing!Goto, Checking, ProbeTypes, Probing!Threads
<1>2. submitted \in Seq(JobRecords) /\ Len(submitted) \in Nat /\ DOMAIN submitted = 1..Len(submitted)
      /\ entries \in Seq(EntryRecords)
  BY DEF ProbeTypes
<1>3. check.entry \in DOMAIN entries /\ Len(submitted) > 0
      /\ submitted[Len(submitted)].entry = check.entry /\ submitted[Len(submitted)].at = check.at
  BY <1>1 DEF CheckInv, Working
<1>4. Recorded' = DOMAIN submitted /\ Recorded = DOMAIN submitted \ {Len(submitted)}
  BY <1>1 DEF Recorded
<1>5. DOMAIN entries' = DOMAIN entries /\ \A e \in DOMAIN entries : e # check.entry => entries'[e] = entries[e]
  BY <1>1, <1>2
<1>6. entries'[check.entry].at = check.at /\ entries'[check.entry].last = Len(submitted)
  <2>1. entries[check.entry] \in EntryRecords
    BY <1>2, <1>3
  <2>2. entries'[check.entry] = [[entries[check.entry] EXCEPT !.at = check.at] EXCEPT !.last = Len(submitted)]
    BY <1>1, <1>3
  <2>3. QED BY <2>1, <2>2 DEF EntryRecords
<1>7. ASSUME NEW e \in DOMAIN entries, e = check.entry PROVE Knows(e)'
  <2>1. Len(submitted) \in Recorded' /\ \A j \in Recorded' : j <= Len(submitted)
    BY <1>2, <1>3, <1>4
  <2>2. entries'[e].last = Len(submitted) /\ entries'[e].at = submitted'[Len(submitted)].at
        /\ submitted'[Len(submitted)].entry = e
    BY <1>1, <1>3, <1>6, <1>7
  <2>3. QED BY <2>1, <2>2 DEF Knows
<1>8. ASSUME NEW e \in DOMAIN entries, e # check.entry PROVE Knows(e)'
  <2>1. Knows(e) /\ entries'[e] = entries[e]
    BY <1>5, <1>8 DEF LastInv
  <2>2. \A j \in Recorded' : submitted[j].entry = e => j \in Recorded
    BY <1>3, <1>4, <1>8
  <2>3. Recorded \subseteq Recorded'
    BY <1>4
  <2>4. QED BY <1>1, <2>1, <2>2, <2>3 DEF Knows
<1>9. QED BY <1>5, <1>7, <1>8 DEF LastInv

LEMMA LastStep ==
  ASSUME ProbeTypes, ProbeTypes', CheckInv, LastInv, [Probing!Next]_(Probing!vars)
  PROVE  LastInv'
BY LastKept, LastSubmitted, LastRecorded

\* The check that is about to submit leaves time enough since the last job of its entry.
LEMMA ApartSubmitted ==
  ASSUME Probing!ProbeAssumption, ProbeTypes, ProbeTypes', CheckInv, LastInv, ClearInv, ApartInv, Probing!Submit
  PROVE  ApartInv'
<1>0. [Probing!Next]_(Probing!vars)
  BY DEF Probing!Next
<1>1. /\ Checking = "submit" /\ UNCHANGED entries
      /\ submitted' = Append(submitted, [entry |-> check.entry, at |-> check.at, active |-> TRUE])
  BY DEF Probing!Submit, Checking
<1>2. submitted \in Seq(JobRecords) /\ Len(submitted) \in Nat /\ DOMAIN submitted = 1..Len(submitted)
      /\ entries \in Seq(EntryRecords) /\ now \in Nat
      /\ \A j \in DOMAIN submitted : submitted[j].at \in Nat
  <2>1. submitted \in Seq(JobRecords) /\ entries \in Seq(EntryRecords) /\ now \in Nat
    BY DEF ProbeTypes
  <2>2. \A r \in JobRecords : r.at \in Nat
    BY DEF JobRecords
  <2>3. QED BY <2>1, <2>2
<1>3. DOMAIN submitted' = 1..(Len(submitted) + 1)
      /\ (\A j \in DOMAIN submitted : submitted'[j] = submitted[j])
      /\ submitted'[Len(submitted) + 1] = [entry |-> check.entry, at |-> check.at, active |-> TRUE]
  BY <1>1, <1>2
<1>4. Recorded = DOMAIN submitted
  BY <1>1 DEF Recorded
<1>5. check.entry \in DOMAIN entries /\ check.at \in 1..now /\ \A j \in DOMAIN submitted : submitted[j].at \in 1..now /\ submitted[j].at <= check.at
  BY <1>1 DEF CheckInv, Working
<1>c. entries[check.entry].cooldown \in Nat /\ entries[check.entry].at \in Nat
  <2>1. entries[check.entry] \in EntryRecords
    BY <1>2, <1>5
  <2>2. QED BY <2>1 DEF EntryRecords, Probing!ProbeAssumption
<1>6. ~Probing!Busy(entries[check.entry]) /\ ~Probing!Cooling(entries[check.entry])
  BY <1>1 DEF ClearInv
<1>7. ASSUME NEW a \in DOMAIN submitted, submitted[a].entry = check.entry
      PROVE  ~submitted[a].active /\ check.at - submitted[a].at >= entries[check.entry].cooldown
  <2> DEFINE l == entries[check.entry].last
  <2>1. Knows(check.entry)
    BY <1>5 DEF LastInv
  <2>2. /\ l \in DOMAIN submitted /\ submitted[l].entry = check.entry /\ entries[check.entry].at = submitted[l].at
        /\ a <= l
    BY <1>4, <1>7, <2>1 DEF Knows
  <2>3. l # 0 /\ entries[check.entry].at # 0
    BY <1>2, <1>5, <2>2
  <2>4. ~submitted[l].active /\ check.at - submitted[l].at >= entries[check.entry].cooldown
    <3>1. ~submitted[l].active
      BY <1>6, <2>3 DEF Probing!Busy
    <3>2. ~(check.at - submitted[l].at < entries[check.entry].cooldown)
      BY <1>6, <2>2, <2>3 DEF Probing!Cooling
    <3>3. QED BY <3>1, <3>2, <1>2, <1>5, <1>c, <2>2
  <2> HIDE DEF l
  <2>5. CASE a = l
    BY <2>4, <2>5
  <2>6. CASE a # l
    <3>1. a < l
      BY <1>2, <2>2, <2>6
    <3>2. ~submitted[a].active /\ submitted[l].at - submitted[a].at >= entries[check.entry].cooldown
      BY <1>7, <2>2, <3>1 DEF ApartInv, Apart
    <3>3. QED BY <3>2, <1>2, <1>5, <1>c, <2>2
  <2>7. QED BY <2>5, <2>6
<1>8. ASSUME NEW a \in DOMAIN submitted', NEW b \in DOMAIN submitted', a < b, submitted'[a].entry = submitted'[b].entry
      PROVE  Apart(a, b)'
  <2>1. a \in DOMAIN submitted /\ submitted'[a] = submitted[a]
    BY <1>2, <1>3, <1>8
  <2>2. CASE b \in DOMAIN submitted
    <3>1. submitted'[b] = submitted[b]
      BY <1>3, <2>2
    <3>2. Apart(a, b)
      BY <1>8, <2>1, <2>2, <3>1 DEF ApartInv
    <3>3. QED BY <1>1, <2>1, <3>1, <3>2 DEF Apart
  <2>3. CASE b \notin DOMAIN submitted
    <3>1. b = Len(submitted) + 1
      BY <1>2, <1>3, <2>3
    <3>2. submitted'[b].entry = check.entry /\ submitted'[b].at = check.at
      BY <1>3, <3>1
    <3>3. submitted[a].entry = check.entry
      BY <1>8, <2>1, <3>2
    <3>4. ~submitted[a].active /\ check.at - submitted[a].at >= entries[check.entry].cooldown
      BY <1>7, <2>1, <3>3
    <3>5. QED BY <1>1, <2>1, <3>2, <3>3, <3>4 DEF Apart
  <2>4. QED BY <2>2, <2>3
<1>9. QED BY <1>8 DEF ApartInv

LEMMA ApartStep ==
  ASSUME Probing!ProbeAssumption, ProbeTypes, ProbeTypes', CheckInv, LastInv, ClearInv, ApartInv,
         [Probing!Next]_(Probing!vars)
  PROVE  ApartInv'
<1>n. DOMAIN entries = 1..Len(entries) /\ Len(entries) \in Nat
  BY DEF ProbeTypes
<1>1. CASE Probing!Submit
  BY <1>1, ApartSubmitted
<1>2. CASE ~Probing!Submit
  <2>1. /\ DOMAIN submitted' = DOMAIN submitted
        /\ \A j \in DOMAIN submitted :
             /\ submitted'[j].entry = submitted[j].entry /\ submitted'[j].at = submitted[j].at
             /\ submitted'[j].active => submitted[j].active
    <3>1. /\ Len(submitted') = Len(submitted)
          /\ \A j \in DOMAIN submitted :
               /\ submitted'[j].entry = submitted[j].entry /\ submitted'[j].at = submitted[j].at
               /\ submitted'[j].active => submitted[j].active
      BY <1>2, ProbeGrows
    <3>2. DOMAIN submitted' = 1..Len(submitted') /\ DOMAIN submitted = 1..Len(submitted)
      BY DEF ProbeTypes
    <3>3. QED BY <3>1, <3>2
  <2>2. \A e \in DOMAIN entries : entries'[e].cooldown = entries[e].cooldown
    <3>1. CASE ~Probing!Record
      BY <1>2, <1>n, <3>1, OthersKeep DEF Grown
    <3>2. CASE Probing!Record
      <4>1. entries' = [entries EXCEPT ![check.entry].at = check.at, ![check.entry].last = Len(submitted)]
        BY <3>2 DEF Probing!Record
      <4>2. \A e \in DOMAIN entries : entries[e] \in EntryRecords
        BY DEF ProbeTypes
      <4>3. \A n, m : \A r \in EntryRecords : [[r EXCEPT !.at = n] EXCEPT !.last = m].cooldown = r.cooldown
        BY DEF EntryRecords
      <4>4. \A e \in DOMAIN entries :
              entries'[e] = IF e = check.entry THEN [[entries[e] EXCEPT !.at = check.at] EXCEPT !.last = Len(submitted)] ELSE entries[e]
        BY <4>1
      <4>5. QED
        <5>1. SUFFICES ASSUME NEW e \in DOMAIN entries PROVE entries'[e].cooldown = entries[e].cooldown
          OBVIOUS
        <5>2. CASE e = check.entry
          <6>1. entries[e] \in EntryRecords
            BY <4>2
          <6>2. [[entries[e] EXCEPT !.at = check.at] EXCEPT !.last = Len(submitted)].cooldown = entries[e].cooldown
            BY <4>3, <6>1
          <6>3. QED BY <4>4, <5>2, <6>2
        <5>3. CASE e # check.entry
          BY <4>4, <5>3
        <5>4. QED BY <5>2, <5>3
    <3>3. QED BY <3>1, <3>2
  <2>3. ASSUME NEW a \in DOMAIN submitted', NEW b \in DOMAIN submitted', a < b, submitted'[a].entry = submitted'[b].entry
        PROVE  Apart(a, b)'
    <3>1. a \in DOMAIN submitted /\ b \in DOMAIN submitted /\ submitted[a].entry = submitted[b].entry
      BY <2>1, <2>3
    <3>2. Apart(a, b)
      BY <2>3, <3>1 DEF ApartInv
    <3>3. submitted[a].entry \in DOMAIN entries
      BY <3>1 DEF CheckInv
    <3>4. submitted'[a].entry = submitted[a].entry /\ submitted'[a].at = submitted[a].at /\ submitted'[b].at = submitted[b].at
          /\ (submitted'[a].active => submitted[a].active)
          /\ entries'[submitted[a].entry].cooldown = entries[submitted[a].entry].cooldown
      BY <2>1, <2>2, <3>1, <3>3
    <3>5. QED BY <3>2, <3>4 DEF Apart
  <2>4. QED BY <2>3 DEF ApartInv
<1>3. QED BY <1>1, <1>2

LEMMA ClearStep ==
  ASSUME ProbeTypes, ProbeTypes', CheckInv, LastInv, ClearInv, [Probing!Next]_(Probing!vars)
  PROVE  ClearInv'
<1>1. SUFFICES ASSUME Checking' \in {"probe", "submit"}
               PROVE  ~Probing!Busy(entries[check.entry])' /\ ~Probing!Cooling(entries[check.entry])'
  BY DEF ClearInv
<1>2. \/ Checking' = Checking /\ check' = check
      \/ Probing!Check /\ Checking = "check" /\ Checking' = "probe" /\ check' = [check EXCEPT !.entry = current']
      \/ Probing!Probe /\ Checking = "probe" /\ Checking' = "submit" /\ check' = check
  BY <1>1, CheckPlaces DEF Working
<1>n. check \in [entry : Nat, at : Nat] /\ DOMAIN entries = 1..Len(entries) /\ Len(entries) \in Nat
  BY DEF ProbeTypes
<1>3. CASE Probing!Check
  <2>1. Checking' = "probe" /\ check' = [check EXCEPT !.entry = current'] /\ UNCHANGED submitted
    BY <1>1, <1>3, CheckPlaces DEF Probing!Check, Probing!Goto, Checking, ProbeTypes
  <2>2. Probing!Goto(Probing!Checker, IF Probing!Busy(entries'[current']) \/ Probing!Cooling(entries'[current']) THEN "idle" ELSE "probe")
    BY <1>3 DEF Probing!Check
  <2>3. ~(Probing!Busy(entries'[current']) \/ Probing!Cooling(entries'[current']))
    BY <2>1, <2>2 DEF Probing!Goto, Checking, ProbeTypes, Probing!Threads
  <2>4. check'.entry = current' /\ check'.at = check.at
    BY <2>1, <1>n
  <2>5. QED BY <2>1, <2>3, <2>4 DEF Probing!Busy, Probing!Cooling
<1>4. CASE ~Probing!Check
  <2>1. Checking \in {"probe", "submit"} /\ check' = check
    BY <1>1, <1>2, <1>4
  <2>2. check.entry \in DOMAIN entries /\ ~Probing!Busy(entries[check.entry]) /\ ~Probing!Cooling(entries[check.entry])
    BY <2>1 DEF ClearInv, CheckInv, Working
  <2>3. ~Probing!Submit /\ ~Probing!Record
    BY <1>1 DEF Probing!Submit, Probing!Record, Probing!Goto, Checking, ProbeTypes, Probing!Threads
  <2>4. entries'[check.entry] = entries[check.entry] /\ \A j \in DOMAIN submitted : submitted'[j].active => submitted[j].active
    BY <2>2, <2>3, <1>n, OthersKeep DEF Grown
  <2>5. entries[check.entry].last # 0 => entries[check.entry].last \in DOMAIN submitted
    BY <2>2 DEF LastInv, Knows, Recorded
  <2>6. QED BY <2>1, <2>2, <2>4, <2>5 DEF Probing!Busy, Probing!Cooling
<1>5. QED BY <1>3, <1>4

\* Whoever makes an entry of a sensor whose cooldown was never edited finds the one
\* there is; no thread finds the sensor off.
LEMMA OneEntryStep ==
  ASSUME Probing!ProbeAssumption, ProbeTypes, ProbeTypes', OneEntryInv, [Probing!Next]_(Probing!vars)
  PROVE  OneEntryInv'
<1>1. SUFFICES ASSUME resets' = 0 PROVE OneEntryInv'
  BY DEF OneEntryInv
<1>n. /\ resets \in Nat /\ Probing!Checker \in Probing!Threads
      /\ at \in [Probing!Threads -> ProbePlaces]
      /\ loaded \in [Probing!Threads -> Probing!Sensors \cup {Probing!Off}]
      /\ stored \in Probing!Sensors \cup {Probing!Off} /\ stored' \in Probing!Sensors \cup {Probing!Off}
  BY DEF ProbeTypes, Probing!Threads
<1>2. resets = 0 /\ (stored' = stored \/ stored'.cooldown = stored.cooldown)
  <2>1. CASE Probing!Save
    BY <1>1, <1>n, <2>1 DEF Probing!Save
  <2>2. CASE ~Probing!Save
    <3>1. UNCHANGED <<stored, resets>>
      <4>1. CASE ProbeWorld \/ ProbeCheck \/ ProbeMakes \/ UNCHANGED Probing!vars
        BY <2>2, <4>1, MakesGrow DEF ProbeWorld, ProbeCheck, Probing!TimePasses, Probing!Fire, Probing!Load,
           Probing!Probe, Probing!world, Probing!vars
      <4>2. CASE \E t \in Probing!Threads : ProbeThread(t)
        BY <4>2 DEF ProbeThread, Probing!Begin, Probing!Prune, Probing!Look, Probing!Add, Probing!world
      <4>3. CASE Probing!JobEnds \/ Probing!Submit \/ Probing!Record
        BY <4>3 DEF Probing!JobEnds, Probing!Submit, Probing!Record, Probing!world
      <4>4. QED BY <4>1, <4>2, <4>3, ProbeCases
    <3>2. QED BY <1>1, <3>1
  <2>3. QED BY <2>1, <2>2
<1>3. /\ stored # Probing!Off /\ stored.cooldown = entries[1].cooldown
      /\ Len(entries) = 1 /\ current = 1 /\ Checking # "tick"
      /\ \A t \in Probing!Threads :
           /\ loaded[t] # Probing!Off => loaded[t].cooldown = entries[1].cooldown
           /\ at[t] = "prune" => loaded[t] # Probing!Off
  BY <1>2 DEF OneEntryInv
<1>4. stored' # Probing!Off /\ stored'.cooldown = stored.cooldown
  BY <1>2, <1>3, <1>n, SensorIsOn
<1> DEFINE Rest == /\ entries'[1].cooldown = entries[1].cooldown /\ Len(entries') = 1 /\ current' = 1
           Threads2 == /\ Checking' # "tick"
                       /\ \A t \in Probing!Threads :
                            /\ loaded'[t] # Probing!Off => loaded'[t].cooldown = entries[1].cooldown
                            /\ at'[t] = "prune" => loaded'[t] # Probing!Off
<1>5. SUFFICES Rest /\ Threads2
  BY <1>3, <1>4 DEF OneEntryInv
<1>6. CASE UNCHANGED Probing!vars \/ ProbeWorld \/ Probing!JobEnds
  BY <1>6, <1>3 DEF ProbeWorld, Probing!vars, Probing!TimePasses, Probing!Save, Probing!JobEnds, Probing!world, Checking
<1>7. ASSUME NEW t \in Probing!Threads, Probing!Goto(t, at'[t]), at'[t] \notin {"tick", "prune"} PROVE Threads2
  <2>1. \A u \in Probing!Threads : /\ loaded'[u] \in {loaded[u], Probing!Off}
                                   /\ u # t => at'[u] = at[u] /\ loaded'[u] = loaded[u]
    BY <1>7, <1>n DEF Probing!Goto
  <2>2. QED BY <1>3, <1>7, <1>n, <2>1 DEF Checking
<1>8. ASSUME NEW t \in Probing!Threads, Probing!Take(t, at'[t]), at'[t] # "tick" PROVE Threads2
  <2>1. \A u \in Probing!Threads : IF u = t THEN loaded'[u] = stored ELSE at'[u] = at[u] /\ loaded'[u] = loaded[u]
    BY <1>8, <1>n DEF Probing!Take
  <2>2. QED BY <1>3, <1>8, <1>n, <2>1 DEF Checking
<1>9. ASSUME NEW t \in Probing!Threads, ProbeThread(t) PROVE Rest /\ Threads2
  <2>1. loaded[t] = Probing!Off => ~Probing!Prune(t)
    BY <1>3 DEF Probing!Prune
  <2>2. Rest
    BY <1>9, <1>3, <2>1 DEF ProbeThread, Probing!Begin, Probing!Prune, Probing!Look, Probing!Add
  <2>3. CASE Probing!Begin(t)
    <3>1. Probing!Take(t, "prune")
      BY <2>3 DEF Probing!Begin
    <3>2. at'[t] = "prune"
      BY <3>1, <1>n DEF Probing!Take
    <3>3. QED BY <2>2, <3>1, <3>2, <1>8
  <2>4. CASE Probing!Prune(t) \/ Probing!Look(t) \/ Probing!Add(t)
    <3>1. PICK l \in {"idle", "entry", "add"} : Probing!Goto(t, l)
      BY <2>4 DEF Probing!Prune, Probing!Look, Probing!Add
    <3>2. at'[t] = l
      BY <3>1, <1>n DEF Probing!Goto
    <3>3. QED BY <2>2, <3>1, <3>2, <1>7
  <2>5. QED BY <1>9, <2>3, <2>4 DEF ProbeThread
<1>10. CASE ProbeMakes
  <2>1. Rest
    <3>1. PICK t \in Probing!Threads :
            /\ loaded[t] \in Probing!Sensors
            /\ current # 0 /\ entries[current].cooldown = loaded[t].cooldown => UNCHANGED <<entries, current>>
      BY <1>10, MakesGrow
    <3>2. loaded[t] # Probing!Off
      BY <3>1, SensorIsOn
    <3>3. QED BY <1>3, <3>1, <3>2
  <2>2. PICK t \in Probing!Threads, l \in {"look", "idle", "probe"} : Probing!Goto(t, l)
    BY <1>10, <1>n DEF ProbeMakes, Probing!MakeEntry, Probing!Check, Probing!Fails
  <2>3. at'[t] = l
    BY <2>2, <1>n DEF Probing!Goto
  <2>4. QED BY <2>1, <2>2, <2>3, <1>7
<1>11. CASE Probing!Load
  <2>1. Probing!Take(Probing!Checker, "check") /\ UNCHANGED <<entries, current>>
    BY <1>3, <1>11 DEF Probing!Load
  <2>2. at'[Probing!Checker] = "check"
    BY <2>1, <1>n DEF Probing!Take
  <2>3. QED BY <1>3, <1>n, <2>1, <2>2, <1>8
<1>12. CASE Probing!Fire \/ Probing!Probe \/ Probing!Submit \/ Probing!Record
  <2>1. Rest
    <3>1. CASE Probing!Record
      <4>1. entries' = [entries EXCEPT ![check.entry].at = check.at, ![check.entry].last = Len(submitted)] /\ current' = current
        BY <3>1 DEF Probing!Record
      <4>2. entries \in Seq(EntryRecords) /\ 1 \in DOMAIN entries
        BY <1>3 DEF ProbeTypes
      <4>3. entries[1] \in EntryRecords
        BY <4>2
      <4>4. [[entries[1] EXCEPT !.at = check.at] EXCEPT !.last = Len(submitted)].cooldown = entries[1].cooldown
        BY <4>3 DEF EntryRecords
      <4>5. entries'[1] = IF check.entry = 1 THEN [[entries[1] EXCEPT !.at = check.at] EXCEPT !.last = Len(submitted)] ELSE entries[1]
        BY <4>1, <4>2
      <4>6. Len(entries') = 1
        BY <1>3, <4>1, <4>2
      <4>7. QED BY <1>3, <4>1, <4>4, <4>5, <4>6
    <3>2. CASE ~Probing!Record
      BY <1>3, <1>12, <3>2 DEF Probing!Fire, Probing!Probe, Probing!Submit
    <3>3. QED BY <3>1, <3>2
  <2>2. PICK l \in {"load", "submit", "idle", "record"} : Probing!Goto(Probing!Checker, l)
    BY <1>12 DEF Probing!Fire, Probing!Probe, Probing!Submit, Probing!Record
  <2>3. at'[Probing!Checker] = l
    BY <2>2, <1>n DEF Probing!Goto
  <2>4. QED BY <2>1, <2>2, <2>3, <1>n, <1>7
<1>13. QED BY <1>6, <1>9, <1>10, <1>11, <1>12, ProbeCases DEF ProbeCheck

LEMMA ProbeStep ==
  ASSUME Probing!ProbeAssumption, ProbeInv, [Probing!Next]_(Probing!vars)
  PROVE  ProbeInv'
<1>1. ProbeTypes'
  BY ProbeTypesStep DEF ProbeInv
<1>2. QED BY <1>1, CheckStep, LastStep, ClearStep, ApartStep, OneEntryStep DEF ProbeInv

LEMMA ProbePaced ==
  ASSUME ProbeInv
  PROVE  Probing!Paced
<1>1. SUFFICES ASSUME NEW a \in DOMAIN submitted, NEW b \in DOMAIN submitted, a < b,
                      resets = 0 \/ submitted[a].entry = submitted[b].entry
               PROVE  Apart(a, b)
  BY DEF Probing!Paced, Apart
<1>2. submitted[a].entry \in 1..Len(entries) /\ submitted[b].entry \in 1..Len(entries)
  BY DEF ProbeInv, CheckInv, ProbeTypes
<1>3. ASSUME resets = 0 PROVE submitted[a].entry = 1 /\ submitted[b].entry = 1
  <2>1. Len(entries) = 1
    BY <1>3 DEF ProbeInv, OneEntryInv
  <2>2. QED BY <1>2, <2>1
<1>4. QED BY <1>1, <1>3 DEF ProbeInv, ApartInv

\* A probing sensor's jobs never overlap and are its cooldown apart, whatever other
\* threads tick and however its probe is edited meanwhile: for any cooldowns and any
\* number of threads, edits and jobs.
THEOREM ProbesArePaced ==
  ASSUME Probing!ProbeAssumption
  PROVE  Probing!Spec => []Probing!Paced
<1>1. Probing!Init => ProbeInv
  BY ProbeInit
<1>2. ProbeInv /\ [Probing!Next]_(Probing!vars) => ProbeInv'
  BY ProbeStep
<1>3. QED BY <1>1, <1>2, ProbePaced, PTL DEF Probing!Spec

-----------------------------------------------------------------------------
(* The event triggers.                                                     *)

StateRecords == [mtime : Nat, size : Nat, run : Nat]
FoundRecords == [fired : BOOLEAN, event : Nat, new : StateRecords]
RunStates    == {"running", "success", "failed", "deleted"}
Place        == place[interval]
Found        == found[interval]
Pending      == Place \in {"write", "submit"} /\ Found.fired  \* an event is about to be served

SensorTypes ==
  /\ sensor \in Triggers
  /\ clock \in 0..MaxEvents /\ born \in 0..clock
  /\ file = Sensor!Missing \/ (file \in [mtime : 1..clock, size : Sensor!Sizes, born : {born}] /\ born > 0)
  /\ \E n \in 0..MaxEvents : runs \in [1..n -> RunStates]
  /\ state \in StateRecords
  /\ place \in [{interval} -> {"idle", "evaluate", "write", "submit"}]
  /\ seen \in [{interval} -> StateRecords] /\ found \in [{interval} -> FoundRecords]
  /\ served \in [Sensor!Events -> Nat] /\ fails \in Nat
  /\ Place = "evaluate" => seen[interval] = state
  /\ Place = "submit" => Found.fired /\ state = Found.new

OfFile   == sensor.kind \in Sensor!Files
Appears  == sensor.kind = "exists"
Latest   == IF Appears THEN born ELSE clock
Key      == IF Appears THEN file.born ELSE file.mtime  \* the event the file there is stands for
Covers(s) == IF Appears THEN s.mtime > 0 ELSE s.mtime >= file.mtime

\* Whatever a tick works on covers the file there is if that was served, and a
\* tick that fires does so for an event that was not.
FileInv ==
  OfFile =>
    /\ \A e \in Sensor!Events : served[e] <= 1 /\ (e > Latest => served[e] = 0)
    /\ Pending => /\ Found.event \in 1..Latest /\ served[Found.event] = 0
                  /\ Found.new.mtime > 0 /\ (~Appears => Found.new.mtime = Found.event)
    /\ file # Sensor!Missing /\ served[Key] > 0 =>
         Covers(state) /\ (Place = "write" => Covers(Found.new))

\* The run that is remembered, by the tick that has evaluated if there is one.
Remembered == IF Place = "write" THEN Found.new.run ELSE state.run
DeletedAfter(e) == {r \in DOMAIN runs : r > e /\ runs[r] = "deleted"}
Counted(e) == Cardinality(DeletedAfter(e))

\* A run is served again only when a later one, which is remembered, was deleted.
RunsInv ==
  ~OfFile =>
    /\ \A e \in Sensor!Events : served[e] <= 1 + Counted(e)
    /\ \A e \in Sensor!Events :
         served[e] > 0 =>
           e \in DOMAIN runs /\ runs[e] \in (IF e > Remembered THEN {"deleted"} ELSE {"success", "deleted"})
    /\ \A e \in Sensor!Events :
         e < Remembered => served[e] <= 1 + Cardinality(DeletedAfter(e) \ {Remembered})
    /\ Remembered # 0 => Remembered \in DOMAIN runs /\ runs[Remembered] \in {"success", "deleted"}
    /\ Pending => Found.event = Remembered /\ Remembered # 0 /\ served[Remembered] <= Counted(Remembered)

SensorInv == SensorTypes /\ FileInv /\ RunsInv

LEMMA SameCardinality == \A S : Sensor!Cardinality(S) = Cardinality(S)
BY DEF Sensor!Cardinality, Cardinality

LEMMA SensorInit ==
  ASSUME Sensor!TriggersAssumption, Sensor!BoundsAssumption, Sensor!Init
  PROVE  SensorInv
<1>1. /\ sensor \in Triggers /\ file = Sensor!Missing /\ clock = 0 /\ born = 0 /\ runs = <<>> /\ state = Sensor!Never
      /\ place = [t \in {interval} |-> "idle"] /\ seen = [t \in {interval} |-> Sensor!Never]
      /\ found = [t \in {interval} |-> Sensor!Nothing]
      /\ served = [e \in Sensor!Events |-> 0] /\ fails = 0
  BY DEF Sensor!Init
<1>2. /\ Sensor!Never \in StateRecords /\ Sensor!Never.run = 0
      /\ Sensor!Nothing \in FoundRecords /\ MaxEvents \in Nat
  BY DEF Sensor!Never, Sensor!Nothing, StateRecords, FoundRecords, Sensor!BoundsAssumption
<1>3. DOMAIN runs = {} /\ runs \in [1..0 -> RunStates]
  BY <1>1
<1>4. Place = "idle"
  BY <1>1 DEF Place
<1>5. SensorTypes
  <2>1. served \in [Sensor!Events -> Nat] /\ place \in [{interval} -> {"idle", "evaluate", "write", "submit"}]
        /\ seen \in [{interval} -> StateRecords] /\ found \in [{interval} -> FoundRecords]
    BY <1>1, <1>2
  <2>2. clock \in 0..MaxEvents /\ born \in 0..clock /\ 0 \in 0..MaxEvents /\ fails \in Nat
    BY <1>1, <1>2
  <2>3. \E n \in 0..MaxEvents : runs \in [1..n -> RunStates]
    BY <1>3, <2>2
  <2>4. QED BY <1>1, <1>2, <1>4, <2>1, <2>2, <2>3 DEF SensorTypes
<1>6. FileInv
  BY <1>1, <1>4 DEF FileInv, Pending
<1>7. RunsInv
  <2>1. Remembered = 0
    BY <1>1, <1>2, <1>4 DEF Remembered
  <2>2. \A e : DeletedAfter(e) = {} /\ Counted(e) = 0
    BY <1>3, FS_EmptySet DEF DeletedAfter, Counted
  <2>3. \A e \in Sensor!Events : e \in Nat /\ served[e] = 0
    BY <1>1, <1>2 DEF Sensor!Events
  <2>4. QED BY <1>4, <2>1, <2>2, <2>3 DEF RunsInv, Pending
<1>8. QED BY <1>5, <1>6, <1>7 DEF SensorInv

\* The greatest of some of the first numbers.
LEMMA GreatestIsMax ==
  ASSUME NEW n \in Nat, NEW S, S \subseteq 1..n, S # {}
  PROVE  Sensor!Max(S) \in S /\ Sensor!Max(S) \in Nat /\ \A k \in S : k <= Sensor!Max(S)
<1> DEFINE T == {n - k : k \in S}
<1>1. T \subseteq Nat /\ T # {}
  <2>1. \A k \in 1..n : n - k \in Nat
    OBVIOUS
  <2>2. QED BY <2>1
<1>2. \E m \in T : \A k \in T : m <= k
  <2>1. IsWellFoundedOn(OpToRel(<, Nat), Nat)
    BY NatLessThanWellFounded
  <2>2. \E m \in T : \A k \in T : <<k, m>> \notin OpToRel(<, Nat)
    BY <1>1, <2>1, WFMin
  <2>3. \A m, k \in Nat : <<k, m>> \in OpToRel(<, Nat) <=> k < m
    BY DEF OpToRel
  <2>4. \A m, k \in Nat : ~(k < m) => m <= k
    OBVIOUS
  <2>5. QED BY <1>1, <2>2, <2>3, <2>4
<1>3. PICK g \in S : \A k \in T : n - g <= k
  BY <1>2
<1>4. \A k \in S : n - g <= n - k
  BY <1>3
<1>5. \A k \in S : k \in Nat /\ g >= k
  BY <1>3, <1>4
<1>6. \E x \in S : \A y \in S : x >= y
  BY <1>5
<1>7. Sensor!Max(S) \in S /\ \A k \in S : Sensor!Max(S) >= k
  BY <1>6 DEF Sensor!Max
<1>8. QED BY <1>5, <1>7

\* What evaluate_sensor makes of a copy of the trigger's state.
LEMMA EvaluationType ==
  ASSUME Sensor!BoundsAssumption, SensorTypes, NEW s \in StateRecords
  PROVE  Sensor!Evaluation(s) \in FoundRecords
<1>1. file.mtime \in Nat /\ file.size \in Nat /\ file.born \in Nat
  BY DEF SensorTypes, Sensor!Missing, Sensor!Sizes
<1>2. PICK n \in 0..MaxEvents : runs \in [1..n -> RunStates]
  BY DEF SensorTypes
<1>3. Sensor!Successes # {} => Sensor!Max(Sensor!Successes) \in Nat
  <2>1. Sensor!Successes \subseteq 1..n
    BY <1>2 DEF Sensor!Successes
  <2>2. n \in Nat
    BY DEF Sensor!BoundsAssumption
  <2>3. QED BY <2>1, <2>2, GreatestIsMax
<1>4. \A r \in StateRecords, a, b \in Nat :
        [r EXCEPT !.mtime = a, !.size = b] \in StateRecords /\ [r EXCEPT !.run = a] \in StateRecords
  BY DEF StateRecords
<1>5. Sensor!Quiet(s) \in FoundRecords
  BY DEF Sensor!Quiet, FoundRecords
<1>6. Sensor!FileSeen(s) \in StateRecords /\ Sensor!Forget(s) \in StateRecords
  BY <1>1, <1>4 DEF Sensor!FileSeen, Sensor!Forget
<1>7. \A e \in Nat, r \in StateRecords : Sensor!Fires(e, r) \in FoundRecords
  BY DEF Sensor!Fires, FoundRecords
<1>8. Sensor!EvaluateSuccess(s) \in FoundRecords
  BY <1>3, <1>4, <1>5, <1>7 DEF Sensor!EvaluateSuccess
<1>9. Sensor!EvaluateExists(s) \in FoundRecords /\ Sensor!EvaluateNewer(s) \in FoundRecords
  BY <1>1, <1>5, <1>6, <1>7 DEF Sensor!EvaluateExists, Sensor!EvaluateNewer
<1>10. Sensor!Quiet(Sensor!Forget(s)) \in FoundRecords
  BY <1>6 DEF Sensor!Quiet, FoundRecords
<1>11. QED BY <1>8, <1>9, <1>10 DEF Sensor!Evaluation

\* The steps of the one tick, by where it is.
LEMMA TickPlaces ==
  ASSUME SensorTypes
  PROVE  /\ Place \in {"idle", "evaluate", "write", "submit"} /\ Found \in FoundRecords /\ seen[interval] \in StateRecords
         /\ Sensor!Read(interval) =>
              /\ Place = "idle" /\ Place' = "evaluate" /\ seen'[interval] = state
              /\ UNCHANGED <<sensor, file, clock, born, runs, state, found, served, fails>>
         /\ Sensor!Evaluate(interval) =>
              /\ Place = "evaluate" /\ Place' = "write" /\ Found' = Sensor!Evaluation(seen[interval])
              /\ UNCHANGED <<sensor, file, clock, born, runs, state, served, fails>>
         /\ Sensor!Write(interval) =>
              /\ Place = "write" /\ state' = Found.new
              /\ IF Found.fired THEN Place' = "submit" /\ Found' = Found ELSE Place' = "idle" /\ Found' = Sensor!Nothing
              /\ UNCHANGED <<sensor, file, clock, born, runs, seen, served, fails>>
         /\ Sensor!Submit(interval) =>
              /\ Place = "submit" /\ Place' = "idle" /\ served' = [served EXCEPT ![Found.event] = @ + 1]
              /\ UNCHANGED <<sensor, file, clock, born, runs, state, seen, fails>>
         /\ Sensor!SubmitFails(interval) =>
              /\ Place = "submit" /\ Place' = "idle" /\ fails' = fails + 1
              /\ UNCHANGED <<sensor, file, clock, born, runs, state, seen, served>>
<1>1. /\ place \in [{interval} -> {"idle", "evaluate", "write", "submit"}]
      /\ seen \in [{interval} -> StateRecords] /\ found \in [{interval} -> FoundRecords]
  BY DEF SensorTypes
<1>2. Place \in {"idle", "evaluate", "write", "submit"} /\ Found \in FoundRecords /\ seen[interval] \in StateRecords
  BY <1>1 DEF Place, Found
<1>3. \A l : Sensor!Goto(interval, l) => Place' = l
  BY <1>1 DEF Sensor!Goto, Place
<1>4. ASSUME Sensor!Read(interval)
      PROVE  /\ Place = "idle" /\ Place' = "evaluate" /\ seen'[interval] = state
             /\ UNCHANGED <<sensor, file, clock, born, runs, state, found, served, fails>>
  BY <1>1, <1>3, <1>4 DEF Sensor!Read, Sensor!world, Place
<1>5. ASSUME Sensor!Evaluate(interval)
      PROVE  /\ Place = "evaluate" /\ Place' = "write" /\ Found' = Sensor!Evaluation(seen[interval])
             /\ UNCHANGED <<sensor, file, clock, born, runs, state, served, fails>>
  BY <1>1, <1>3, <1>5 DEF Sensor!Evaluate, Sensor!world, Place, Found
<1>6. ASSUME Sensor!Write(interval)
      PROVE  /\ Place = "write" /\ state' = Found.new
             /\ IF Found.fired THEN Place' = "submit" /\ Found' = Found ELSE Place' = "idle" /\ Found' = Sensor!Nothing
             /\ UNCHANGED <<sensor, file, clock, born, runs, seen, served, fails>>
  BY <1>1, <1>3, <1>6 DEF Sensor!Write, Sensor!world, Place, Found
<1>7. ASSUME Sensor!Submit(interval)
      PROVE  /\ Place = "submit" /\ Place' = "idle" /\ served' = [served EXCEPT ![Found.event] = @ + 1]
             /\ UNCHANGED <<sensor, file, clock, born, runs, state, seen, fails>>
  BY <1>1, <1>3, <1>7 DEF Sensor!Submit, Sensor!world, Place, Found
<1>8. ASSUME Sensor!SubmitFails(interval)
      PROVE  /\ Place = "submit" /\ Place' = "idle" /\ fails' = fails + 1
             /\ UNCHANGED <<sensor, file, clock, born, runs, state, seen, served>>
  BY <1>1, <1>3, <1>8 DEF Sensor!SubmitFails, Sensor!world, Place, Found
<1>9. QED BY <1>2, <1>4, <1>5, <1>6, <1>7, <1>8

\* The world's steps leave the tick alone.
World == Sensor!WriteFile \/ Sensor!RemoveFile \/ Sensor!StartRun \/ Sensor!EndRun \/ Sensor!DeleteRun

LEMMA WorldLeaves ==
  ASSUME World
  PROVE  UNCHANGED <<sensor, state, place, seen, found, served, fails, Place, Found>>
BY DEF World, Sensor!WriteFile, Sensor!RemoveFile, Sensor!StartRun, Sensor!EndRun, Sensor!DeleteRun, Place, Found

LEMMA RunsKeepTheirForm ==
  ASSUME Sensor!BoundsAssumption, SensorTypes, World
  PROVE  \E n \in 0..MaxEvents : runs' \in [1..n -> RunStates]
<1>1. PICK n \in 0..MaxEvents : runs \in [1..n -> RunStates]
  BY DEF SensorTypes
<1>2. n \in Nat /\ MaxEvents \in Nat /\ DOMAIN runs = 1..n
  BY <1>1 DEF Sensor!BoundsAssumption
<1>3. CASE Sensor!WriteFile \/ Sensor!RemoveFile
  BY <1>1, <1>3 DEF Sensor!WriteFile, Sensor!RemoveFile
<1>4. CASE Sensor!StartRun
  <2>1. Sensor!Cardinality(DOMAIN runs) = n
    BY <1>2, SameCardinality, FS_Interval
  <2>2. n < MaxEvents /\ runs' = [r \in 1..n + 1 |-> IF r \in DOMAIN runs THEN runs[r] ELSE "running"]
    BY <1>4, <2>1 DEF Sensor!StartRun
  <2>3. runs' \in [1..(n + 1) -> RunStates] /\ n + 1 \in 0..MaxEvents
    BY <1>1, <1>2, <2>2 DEF RunStates
  <2>4. QED BY <2>3
<1>5. CASE Sensor!EndRun \/ Sensor!DeleteRun
  BY <1>1, <1>5 DEF Sensor!EndRun, Sensor!DeleteRun, RunStates
<1>6. QED BY <1>3, <1>4, <1>5 DEF World

LEMMA SensorTypesStep ==
  ASSUME Sensor!TriggersAssumption, Sensor!BoundsAssumption, SensorTypes, FileInv, RunsInv, [Sensor!Next]_(Sensor!vars)
  PROVE  SensorTypes'
<1>n. MaxEvents \in Nat /\ clock \in Nat /\ born \in Nat
  BY DEF SensorTypes, Sensor!BoundsAssumption
<1>1. CASE UNCHANGED Sensor!vars
  BY <1>1 DEF Sensor!vars, SensorTypes, Place, Found
<1>2. CASE World
  <2>1. \E n \in 0..MaxEvents : runs' \in [1..n -> RunStates]
    BY <1>2, RunsKeepTheirForm
  <2>2. UNCHANGED <<sensor, state, place, seen, found, served, fails, Place, Found>>
    BY <1>2, WorldLeaves
  <2>3. /\ clock' \in 0..MaxEvents /\ born' \in 0..clock'
        /\ file' = Sensor!Missing \/ (file' \in [mtime : 1..clock', size : Sensor!Sizes, born : {born'}] /\ born' > 0)
    <3>1. CASE Sensor!WriteFile
      BY <1>n, <3>1 DEF Sensor!WriteFile, SensorTypes
    <3>2. CASE Sensor!RemoveFile
      BY <3>2 DEF Sensor!RemoveFile, SensorTypes
    <3>3. CASE Sensor!StartRun \/ Sensor!EndRun \/ Sensor!DeleteRun
      BY <3>3 DEF Sensor!StartRun, Sensor!EndRun, Sensor!DeleteRun, SensorTypes
    <3>4. QED BY <1>2, <3>1, <3>2, <3>3 DEF World
  <2>4. QED BY <2>1, <2>2, <2>3 DEF SensorTypes
<1>3. ASSUME Sensor!Tick(interval) PROVE SensorTypes'
  <2>1. /\ place \in [{interval} -> {"idle", "evaluate", "write", "submit"}]
        /\ seen \in [{interval} -> StateRecords] /\ found \in [{interval} -> FoundRecords]
        /\ served \in [Sensor!Events -> Nat] /\ fails \in Nat /\ state \in StateRecords
    BY DEF SensorTypes
  <2>2. UNCHANGED <<sensor, file, clock, born, runs>>
    BY <1>3 DEF Sensor!Tick, Sensor!Read, Sensor!Evaluate, Sensor!Write, Sensor!Submit, Sensor!SubmitFails, Sensor!world
  <2>c. Sensor!Never \in StateRecords /\ Sensor!Nothing \in FoundRecords
    BY DEF Sensor!Never, Sensor!Nothing, StateRecords, FoundRecords
  <2>3. place' \in [{interval} -> {"idle", "evaluate", "write", "submit"}]
    BY <1>3, <2>1 DEF Sensor!Tick, Sensor!Read, Sensor!Evaluate, Sensor!Write, Sensor!Submit, Sensor!SubmitFails, Sensor!Goto
  <2>4. seen' \in [{interval} -> StateRecords]
    BY <1>3, <2>1, <2>c DEF Sensor!Tick, Sensor!Read, Sensor!Evaluate, Sensor!Write, Sensor!Submit, Sensor!SubmitFails
  <2>5. found' \in [{interval} -> FoundRecords]
    <3>1. Sensor!Evaluation(seen[interval]) \in FoundRecords
      BY <2>1, EvaluationType
    <3>2. QED BY <1>3, <2>1, <2>c, <3>1 DEF Sensor!Tick, Sensor!Read, Sensor!Evaluate, Sensor!Write, Sensor!Submit, Sensor!SubmitFails
  <2>6. state' \in StateRecords
    <3>1. Found \in FoundRecords
      BY <2>1 DEF Found
    <3>2. Found.new \in StateRecords
      BY <3>1 DEF FoundRecords
    <3>3. QED BY <1>3, <2>1, <3>2 DEF Found, Sensor!Tick, Sensor!Read, Sensor!Evaluate, Sensor!Write, Sensor!Submit, Sensor!SubmitFails
  <2>7. served' \in [Sensor!Events -> Nat] /\ fails' \in Nat
    BY <1>3, <2>1 DEF Sensor!Tick, Sensor!Read, Sensor!Evaluate, Sensor!Write, Sensor!Submit, Sensor!SubmitFails
  <2>8. /\ Place' = "evaluate" => seen'[interval] = state'
        /\ Place' = "submit" => Found'.fired /\ state' = Found'.new
    BY <1>3, TickPlaces DEF Sensor!Tick
  <2>9. QED BY <2>2, <2>3, <2>4, <2>5, <2>6, <2>7, <2>8 DEF SensorTypes
<1>4. QED BY <1>1, <1>2, <1>3 DEF Sensor!Next, World

\* A file that is there has appeared.
LEMMA FileWasBorn ==
  ASSUME Sensor!BoundsAssumption, SensorTypes, file # Sensor!Missing
  PROVE  file.mtime \in 1..clock /\ file.born = born /\ born \in 1..MaxEvents /\ clock \in 1..MaxEvents
<1>1. /\ file \in [mtime : 1..clock, size : Sensor!Sizes, born : {born}] /\ born > 0
      /\ clock \in 0..MaxEvents /\ born \in 0..clock
  BY DEF SensorTypes
<1>2. file.mtime \in 1..clock /\ file.born = born
  BY <1>1
<1>3. MaxEvents \in Nat
  BY DEF Sensor!BoundsAssumption
<1>4. QED BY <1>1, <1>2, <1>3

\* The evaluation of the state that the trigger has, for a file.
LEMMA FileEvaluated ==
  ASSUME Sensor!BoundsAssumption, SensorTypes, FileInv, OfFile
  PROVE  LET v == Sensor!Evaluation(state) IN
         /\ v.fired => /\ v.event \in 1..Latest /\ served[v.event] = 0
                       /\ v.new.mtime > 0 /\ (~Appears => v.new.mtime = v.event)
         /\ file # Sensor!Missing /\ served[Key] > 0 => Covers(v.new)
<1> DEFINE v == Sensor!Evaluation(state)
<1>0. sensor.kind # "workflow_success"
  BY DEF OfFile, Sensor!Files
<1>1. state \in StateRecords /\ clock \in Nat /\ born \in Nat /\ state.mtime \in Nat
  BY DEF SensorTypes, StateRecords
<1>2. CASE file = Sensor!Missing
  <2>1. v = Sensor!Quiet(Sensor!Forget(state))
    BY <1>0, <1>2 DEF Sensor!Evaluation
  <2>2. ~v.fired
    BY <2>1 DEF Sensor!Quiet
  <2>3. QED BY <1>2, <2>2
<1>3. CASE file # Sensor!Missing
  <2>0. file.mtime \in 1..clock /\ file.born = born /\ born \in 1..MaxEvents /\ clock \in 1..MaxEvents
    BY <1>3, FileWasBorn
  <2>1. Key \in 1..Latest /\ Key \in Sensor!Events /\ served[Key] \in Nat
    <3>1. Key \in 1..Latest
      BY <1>1, <2>0 DEF Key, Latest
    <3>2. Latest <= MaxEvents /\ Latest \in Nat /\ MaxEvents \in Nat
      BY <2>0 DEF Latest, Sensor!BoundsAssumption
    <3>3. QED BY <3>1, <3>2 DEF Sensor!Events, SensorTypes
  <2>2. v = IF Appears THEN Sensor!EvaluateExists(state) ELSE Sensor!EvaluateNewer(state)
    BY <1>0, <1>3 DEF Sensor!Evaluation, Appears
  <2>3. Sensor!FileSeen(state).mtime = file.mtime
    BY <1>1 DEF Sensor!FileSeen, StateRecords
  <2>4. CASE v = Sensor!Quiet(state)
    BY <1>3, <2>4 DEF Sensor!Quiet, FileInv
  <2>5. CASE v # Sensor!Quiet(state)
    <3>1. v = Sensor!Fires(Key, Sensor!FileSeen(state)) /\ ~Covers(state)
      <4>1. CASE Appears
        BY <1>1, <2>2, <2>5, <4>1 DEF Sensor!EvaluateExists, Key, Covers
      <4>2. CASE ~Appears
        BY <1>1, <2>0, <2>2, <2>5, <4>2 DEF Sensor!EvaluateNewer, Sensor!Newer, Key, Covers
      <4>3. QED BY <4>1, <4>2
    <3>2. served[Key] = 0
      BY <1>3, <2>1, <3>1 DEF FileInv
    <3>3. v.event = Key /\ v.new = Sensor!FileSeen(state)
      BY <3>1 DEF Sensor!Fires
    <3>4. v.new.mtime = file.mtime /\ file.mtime > 0 /\ (~Appears => Key = file.mtime)
      BY <2>0, <2>3, <3>3 DEF Key
    <3>5. QED BY <2>1, <3>2, <3>3, <3>4
  <2>6. QED BY <2>4, <2>5
<1>4. QED BY <1>2, <1>3


LEMMA FileStep ==
  ASSUME Sensor!TriggersAssumption, Sensor!BoundsAssumption, SensorTypes, SensorTypes', FileInv, [Sensor!Next]_(Sensor!vars)
  PROVE  FileInv'
<1>0. sensor' = sensor
  BY DEF Sensor!Next, Sensor!Tick, Sensor!vars, Sensor!world, Sensor!WriteFile, Sensor!RemoveFile, Sensor!StartRun,
     Sensor!EndRun, Sensor!DeleteRun, Sensor!Read, Sensor!Evaluate, Sensor!Write, Sensor!Submit, Sensor!SubmitFails
<1>1. SUFFICES ASSUME OfFile' PROVE FileInv'
  BY DEF FileInv
<1>2. OfFile /\ (Appears' <=> Appears)
  BY <1>0, <1>1 DEF OfFile, Appears
<1>n. clock \in Nat /\ born \in Nat /\ MaxEvents \in Nat /\ served \in [Sensor!Events -> Nat] /\ state \in StateRecords
  BY DEF SensorTypes, Sensor!BoundsAssumption
<1>3. /\ \A e \in Sensor!Events : served[e] <= 1 /\ (e > Latest => served[e] = 0)
      /\ Pending => /\ Found.event \in 1..Latest /\ served[Found.event] = 0
                    /\ Found.new.mtime > 0 /\ (~Appears => Found.new.mtime = Found.event)
      /\ file # Sensor!Missing /\ served[Key] > 0 =>
           Covers(state) /\ (Place = "write" => Covers(Found.new))
  BY <1>2 DEF FileInv
<1> DEFINE A == \A e \in Sensor!Events : served'[e] <= 1 /\ (e > Latest' => served'[e] = 0)
           B == Pending' => /\ Found'.event \in 1..Latest' /\ served'[Found'.event] = 0
                            /\ Found'.new.mtime > 0 /\ (~Appears => Found'.new.mtime = Found'.event)
           C == file' # Sensor!Missing /\ served'[Key'] > 0 =>
                  Covers(state)' /\ (Place' = "write" => Covers(Found.new)')
<1>4. SUFFICES A /\ B /\ C
  BY <1>2 DEF FileInv
<1>5. CASE UNCHANGED Sensor!vars
  BY <1>3, <1>5 DEF Sensor!vars, Place, Found, Pending, Latest, Appears, Key, Covers
<1>6. CASE Sensor!WriteFile
  <2>1. UNCHANGED <<sensor, state, place, seen, found, served, fails, Place, Found>>
    BY <1>6, WorldLeaves DEF World
  <2>2. /\ clock' = clock + 1 /\ clock' <= MaxEvents /\ born' = IF file = Sensor!Missing THEN born + 1 ELSE born
        /\ file'.mtime = clock' /\ file'.born = born'
    BY <1>6, <1>n DEF Sensor!WriteFile
  <2>3. Latest' >= Latest /\ Latest' \in Nat /\ Latest \in Nat
    BY <1>2, <1>n, <2>2 DEF Latest
  <2>4. \A e \in Sensor!Events : e \in Nat
    BY DEF Sensor!Events
  <2>5. A /\ B
    BY <1>3, <2>1, <2>3, <2>4 DEF Pending
  <2>6. C
    <3>1. CASE Appears /\ file # Sensor!Missing
      <4>1. Key' = Key /\ (Covers(state)' <=> Covers(state)) /\ (Covers(Found.new)' <=> Covers(Found.new))
        <5>1. file.born = born
          BY <3>1, FileWasBorn
        <5>2. QED BY <1>2, <2>1, <2>2, <3>1, <5>1 DEF Key, Covers
      <4>2. QED BY <1>3, <2>1, <3>1, <4>1
    <3>2. CASE ~(Appears /\ file # Sensor!Missing)
      <4>1. Key' > Latest /\ Key' \in Sensor!Events
        <5>1. Key' = IF Appears THEN born' ELSE clock'
          BY <1>2, <2>2 DEF Key
        <5>2. born' \in 0..clock'
          BY DEF SensorTypes
        <5>3. Key' > Latest
          BY <1>n, <2>2, <3>2, <5>1 DEF Latest
        <5>4. QED BY <1>n, <2>2, <2>3, <5>1, <5>2, <5>3 DEF Sensor!Events
      <4>2. QED BY <1>3, <2>1, <4>1
    <3>3. QED BY <3>1, <3>2
  <2>7. QED BY <2>5, <2>6
<1>7. CASE Sensor!RemoveFile
  <2>1. UNCHANGED <<sensor, state, place, seen, found, served, fails, Place, Found>>
    BY <1>7, WorldLeaves DEF World
  <2>2. file' = Sensor!Missing /\ UNCHANGED <<clock, born>>
    BY <1>7 DEF Sensor!RemoveFile
  <2>3. QED BY <1>2, <1>3, <2>1, <2>2 DEF Pending, Latest
<1>8. CASE Sensor!StartRun
  BY <1>2, <1>8 DEF Sensor!StartRun, OfFile, Sensor!Files
<1>9. CASE Sensor!EndRun \/ Sensor!DeleteRun
  <2>1. UNCHANGED <<sensor, state, place, seen, found, served, fails, Place, Found>>
    BY <1>9, WorldLeaves DEF World
  <2>2. UNCHANGED <<file, clock, born>>
    BY <1>9 DEF Sensor!EndRun, Sensor!DeleteRun
  <2>3. QED BY <1>2, <1>3, <2>1, <2>2 DEF Pending, Latest, Key, Covers
<1>10. CASE Sensor!Read(interval)
  <2>1. Place = "idle" /\ Place' = "evaluate" /\ UNCHANGED <<sensor, file, clock, born, state, served>>
    BY <1>10, TickPlaces
  <2>2. QED BY <1>2, <1>3, <2>1 DEF Pending, Latest, Key, Covers
<1>11. CASE Sensor!Evaluate(interval)
  <2>1. /\ Place = "evaluate" /\ Place' = "write" /\ UNCHANGED <<sensor, file, clock, born, state, served>>
        /\ Found' = Sensor!Evaluation(seen[interval])
    BY <1>11, TickPlaces
  <2>2. seen[interval] = state
    BY <2>1 DEF SensorTypes
  <2>3. Found' = Sensor!Evaluation(state)
    BY <2>1, <2>2
  <2>4. /\ Found'.fired => /\ Found'.event \in 1..Latest /\ served[Found'.event] = 0
                           /\ Found'.new.mtime > 0 /\ (~Appears => Found'.new.mtime = Found'.event)
        /\ file # Sensor!Missing /\ served[Key] > 0 => Covers(Found'.new)
    BY <1>2, <2>3, FileEvaluated
  <2>5. Latest' = Latest /\ Key' = Key /\ (Covers(state)' <=> Covers(state)) /\ (Covers(Found.new)' <=> Covers(Found'.new))
    BY <1>2, <2>1 DEF Latest, Key, Covers
  <2>6. Pending' => Found'.fired
    BY DEF Pending
  <2>7. QED BY <1>3, <2>1, <2>4, <2>5, <2>6
<1>12. CASE Sensor!Write(interval)
  <2>1. /\ Place = "write" /\ state' = Found.new /\ UNCHANGED <<sensor, file, clock, born, served>>
        /\ IF Found.fired THEN Place' = "submit" /\ Found' = Found ELSE Place' = "idle" /\ Found' = Sensor!Nothing
    BY <1>12, TickPlaces
  <2>2. Latest' = Latest /\ Key' = Key /\ (Covers(state)' <=> Covers(Found.new))
    BY <1>2, <2>1 DEF Latest, Key, Covers
  <2>3. Pending' => Pending /\ Found' = Found
    BY <2>1 DEF Pending
  <2>4. QED BY <1>3, <2>1, <2>2, <2>3
<1>13. CASE Sensor!Submit(interval)
  <2>1. /\ Place = "submit" /\ Place' = "idle" /\ served' = [served EXCEPT ![Found.event] = @ + 1]
        /\ UNCHANGED <<sensor, file, clock, born, state>>
    BY <1>13, TickPlaces
  <2>2. Found.fired /\ state = Found.new
    BY <2>1 DEF SensorTypes
  <2>3. Found.event \in 1..Latest /\ served[Found.event] = 0 /\ Found.new.mtime > 0 /\ (~Appears => Found.new.mtime = Found.event)
    BY <1>3, <2>1, <2>2 DEF Pending
  <2>4. Latest' = Latest /\ Key' = Key /\ (Covers(state)' <=> Covers(state)) /\ Latest \in Nat /\ ~Pending'
    BY <1>2, <1>n, <2>1 DEF Latest, Key, Covers, Pending
  <2>5. \A e \in Sensor!Events : e \in Nat /\ served'[e] = IF e = Found.event THEN served[e] + 1 ELSE served[e]
    BY <1>n, <2>1 DEF Sensor!Events
  <2>6. A
    BY <1>3, <2>3, <2>4, <2>5
  <2>7. ASSUME file # Sensor!Missing, served'[Key] > 0 PROVE Covers(state)
    <3>1. CASE Key = Found.event
      BY <1>n, <2>2, <2>3, <3>1 DEF Covers, Key, StateRecords
    <3>2. CASE Key # Found.event
      <4>1. served'[Key] = served[Key]
        BY <1>n, <2>1, <3>2
      <4>2. QED BY <1>3, <2>7, <4>1
    <3>3. QED BY <3>1, <3>2
  <2>8. QED BY <2>1, <2>4, <2>6, <2>7
<1>14. CASE Sensor!SubmitFails(interval)
  <2>1. Place = "submit" /\ Place' = "idle" /\ UNCHANGED <<sensor, file, clock, born, state, served>>
    BY <1>14, TickPlaces
  <2>2. QED BY <1>2, <1>3, <2>1 DEF Pending, Latest, Key, Covers
<1>15. QED
  BY <1>5, <1>6, <1>7, <1>8, <1>9, <1>10, <1>11, <1>12, <1>13, <1>14 DEF Sensor!Next, Sensor!Tick

\* The runs that were deleted after one are finitely many, and those counted by
\* FiresOnce.
LEMMA Counts ==
  ASSUME Sensor!BoundsAssumption, SensorTypes, NEW e
  PROVE  /\ IsFiniteSet(DeletedAfter(e)) /\ Counted(e) \in Nat
         /\ \A s : /\ Cardinality(DeletedAfter(e) \ {s}) \in Nat /\ Cardinality(DeletedAfter(e) \ {s}) <= Counted(e)
                   /\ s \in DeletedAfter(e) => Cardinality(DeletedAfter(e) \ {s}) = Counted(e) - 1
                   /\ s \notin DeletedAfter(e) => Cardinality(DeletedAfter(e) \ {s}) = Counted(e)
<1>1. PICK n \in 0..MaxEvents : runs \in [1..n -> RunStates]
  BY DEF SensorTypes
<1>2. n \in Nat /\ DeletedAfter(e) \subseteq 1..n
  BY <1>1 DEF Sensor!BoundsAssumption, DeletedAfter
<1>3. IsFiniteSet(DeletedAfter(e))
  BY <1>2, FS_Interval, FS_Subset
<1>4. Counted(e) \in Nat
  BY <1>3, FS_CardinalityType DEF Counted
<1>5. ASSUME NEW s
      PROVE  /\ Cardinality(DeletedAfter(e) \ {s}) \in Nat /\ Cardinality(DeletedAfter(e) \ {s}) <= Counted(e)
             /\ s \in DeletedAfter(e) => Cardinality(DeletedAfter(e) \ {s}) = Counted(e) - 1
             /\ s \notin DeletedAfter(e) => Cardinality(DeletedAfter(e) \ {s}) = Counted(e)
  <2>1. Cardinality(DeletedAfter(e) \ {s}) = IF s \in DeletedAfter(e) THEN Counted(e) - 1 ELSE Counted(e)
    BY <1>3, FS_RemoveElement DEF Counted
  <2>2. IsFiniteSet(DeletedAfter(e) \ {s})
    BY <1>3, FS_Subset
  <2>3. Cardinality(DeletedAfter(e) \ {s}) \in Nat
    BY <2>2, FS_CardinalityType
  <2>4. QED BY <1>4, <2>1, <2>3
<1>6. QED BY <1>3, <1>4, <1>5

\* What evaluate_sensor makes of the state that the trigger has, for an upstream workflow.
LEMMA RunEvaluated ==
  ASSUME Sensor!BoundsAssumption, SensorTypes, RunsInv, ~OfFile, Sensor!TriggersAssumption,
         Place \notin {"write", "submit"}
  PROVE  LET v == Sensor!Evaluation(state)
             s == v.new.run
         IN /\ ~v.fired => s = state.run
            /\ v.fired =>
                 /\ v.event = s /\ s # 0 /\ s \in DOMAIN runs /\ runs[s] = "success"
                 /\ \A r \in DOMAIN runs : runs[r] = "success" => r <= s
                 /\ s # state.run
<1> DEFINE v == Sensor!Evaluation(state)
<1>1. sensor.kind = "workflow_success"
  BY DEF OfFile, Sensor!Files, Sensor!TriggersAssumption, SensorTypes
<1>2. v = Sensor!EvaluateSuccess(state)
  BY <1>1 DEF Sensor!Evaluation
<1>3. PICK n \in 0..MaxEvents : runs \in [1..n -> RunStates]
  BY DEF SensorTypes
<1>4. n \in Nat /\ Sensor!Successes \subseteq 1..n /\ DOMAIN runs = 1..n
  BY <1>3 DEF Sensor!BoundsAssumption, Sensor!Successes
<1>5. state \in StateRecords
  BY DEF SensorTypes
<1>6. CASE Sensor!Successes = {} \/ Sensor!Known(Sensor!Max(Sensor!Successes), state)
  BY <1>2, <1>6 DEF Sensor!EvaluateSuccess, Sensor!Quiet
<1>7. CASE ~(Sensor!Successes = {} \/ Sensor!Known(Sensor!Max(Sensor!Successes), state))
  <2> DEFINE m == Sensor!Max(Sensor!Successes)
  <2>1. m \in Sensor!Successes /\ m \in Nat /\ \A k \in Sensor!Successes : k <= m
    BY <1>4, <1>7, GreatestIsMax
  <2>2. m # state.run
    BY <1>7 DEF Sensor!Known
  <2>3. v = Sensor!Fires(m, [state EXCEPT !.run = m])
    BY <1>2, <1>7 DEF Sensor!EvaluateSuccess
  <2> HIDE DEF m
  <2>4. v.fired /\ v.event = m /\ v.new.run = m
    BY <1>5, <2>3 DEF Sensor!Fires, StateRecords
  <2>5. m \in DOMAIN runs /\ runs[m] = "success" /\ m # 0
    BY <1>4, <2>1 DEF Sensor!Successes
  <2>6. \A r \in DOMAIN runs : runs[r] = "success" => r <= m
    BY <2>1 DEF Sensor!Successes
  <2>7. QED BY <2>2, <2>4, <2>5, <2>6
<1>8. QED BY <1>6, <1>7

LEMMA RunsStep ==
  ASSUME Sensor!TriggersAssumption, Sensor!BoundsAssumption, SensorTypes, SensorTypes', RunsInv, [Sensor!Next]_(Sensor!vars)
  PROVE  RunsInv'
<1>0. sensor' = sensor
  BY DEF Sensor!Next, Sensor!Tick, Sensor!vars, Sensor!world, Sensor!WriteFile, Sensor!RemoveFile, Sensor!StartRun,
     Sensor!EndRun, Sensor!DeleteRun, Sensor!Read, Sensor!Evaluate, Sensor!Write, Sensor!Submit, Sensor!SubmitFails
<1>1. SUFFICES ASSUME ~OfFile' PROVE RunsInv'
  BY DEF RunsInv
<1>2. ~OfFile
  BY <1>0, <1>1 DEF OfFile
<1>n. /\ served \in [Sensor!Events -> Nat] /\ state \in StateRecords /\ Found \in FoundRecords
      /\ \A e \in Sensor!Events : e \in Nat /\ served[e] \in Nat
  BY TickPlaces DEF SensorTypes, Sensor!Events
<1>k. PICK n \in 0..MaxEvents : runs \in [1..n -> RunStates]
  BY DEF SensorTypes
<1>m. /\ n \in Nat /\ MaxEvents \in Nat /\ DOMAIN runs = 1..n /\ DOMAIN runs \subseteq Sensor!Events
      /\ Remembered \in Nat
  <2>1. n \in Nat /\ MaxEvents \in Nat /\ DOMAIN runs = 1..n /\ DOMAIN runs \subseteq Sensor!Events
    BY <1>k DEF Sensor!BoundsAssumption, Sensor!Events
  <2>2. Remembered \in Nat
    BY <1>n DEF Remembered, FoundRecords, StateRecords
  <2>3. QED BY <2>1, <2>2
<1>3. /\ \A e \in Sensor!Events : served[e] <= 1 + Counted(e)
      /\ \A e \in Sensor!Events :
           served[e] > 0 =>
             e \in DOMAIN runs /\ runs[e] \in (IF e > Remembered THEN {"deleted"} ELSE {"success", "deleted"})
      /\ \A e \in Sensor!Events :
           e < Remembered => served[e] <= 1 + Cardinality(DeletedAfter(e) \ {Remembered})
      /\ Remembered # 0 => Remembered \in DOMAIN runs /\ runs[Remembered] \in {"success", "deleted"}
      /\ Pending => Found.event = Remembered /\ Remembered # 0 /\ served[Remembered] <= Counted(Remembered)
  BY <1>2 DEF RunsInv
<1>4. ASSUME UNCHANGED <<served, Remembered>>, Pending' => Pending /\ Found' = Found,
             DOMAIN runs \subseteq DOMAIN runs',
             \A r \in DOMAIN runs : runs'[r] = runs[r] \/ runs[r] = "running" \/ runs'[r] = "deleted"
      PROVE  RunsInv'
  <2>1. \A e : DeletedAfter(e) \subseteq DeletedAfter(e)'
    BY <1>4 DEF DeletedAfter
  <2>2. ASSUME NEW e
        PROVE  /\ Counted(e) \in Nat /\ Counted(e)' \in Nat /\ Counted(e) <= Counted(e)'
               /\ Cardinality(DeletedAfter(e) \ {Remembered}) <= Cardinality(DeletedAfter(e)' \ {Remembered})
               /\ Cardinality(DeletedAfter(e) \ {Remembered}) \in Nat /\ Cardinality(DeletedAfter(e)' \ {Remembered}) \in Nat
    <3>1. IsFiniteSet(DeletedAfter(e)') /\ IsFiniteSet(DeletedAfter(e)' \ {Remembered})
      <4>1. IsFiniteSet(DeletedAfter(e)')
        <5>1. PICK k \in 0..MaxEvents : runs' \in [1..k -> RunStates]
          BY DEF SensorTypes
        <5>2. k \in Nat /\ DeletedAfter(e)' \subseteq 1..k
          BY <5>1, <1>m DEF DeletedAfter
        <5>3. QED BY <5>2, FS_Interval, FS_Subset
      <4>2. QED BY <4>1, FS_Subset
    <3>2. DeletedAfter(e) \ {Remembered} \subseteq DeletedAfter(e)' \ {Remembered}
      BY <2>1
    <3>3. Cardinality(DeletedAfter(e)) <= Cardinality(DeletedAfter(e)')
          /\ Cardinality(DeletedAfter(e) \ {Remembered}) <= Cardinality(DeletedAfter(e)' \ {Remembered})
      BY <2>1, <3>1, <3>2, FS_Subset
    <3>4. Counted(e) \in Nat /\ Cardinality(DeletedAfter(e) \ {Remembered}) \in Nat
      BY Counts
    <3>5. Cardinality(DeletedAfter(e)') \in Nat /\ Cardinality(DeletedAfter(e)' \ {Remembered}) \in Nat
      BY <3>1, FS_CardinalityType
    <3>6. QED BY <3>3, <3>4, <3>5 DEF Counted
  <2>3. ASSUME NEW e \in Sensor!Events PROVE served'[e] <= 1 + Counted(e)'
    <3>1. served'[e] = served[e] /\ served[e] \in Nat /\ served[e] <= 1 + Counted(e)
      BY <1>3, <1>4, <1>n
    <3>2. Counted(e) \in Nat /\ Counted(e)' \in Nat /\ Counted(e) <= Counted(e)'
      BY <2>2
    <3>3. QED BY <3>1, <3>2
  <2>4. ASSUME NEW e \in Sensor!Events, served'[e] > 0
        PROVE  e \in DOMAIN runs' /\ runs'[e] \in (IF e > Remembered' THEN {"deleted"} ELSE {"success", "deleted"})
    <3>1. e \in DOMAIN runs /\ runs[e] \in (IF e > Remembered THEN {"deleted"} ELSE {"success", "deleted"})
      BY <1>3, <1>4, <2>4
    <3>2. QED BY <1>4, <3>1
  <2>5. ASSUME NEW e \in Sensor!Events, e < Remembered'
        PROVE  served'[e] <= 1 + Cardinality(DeletedAfter(e)' \ {Remembered'})
    <3>1. e < Remembered
      BY <1>4, <2>5
    <3>2. served'[e] = served[e] /\ served[e] \in Nat /\ served[e] <= 1 + Cardinality(DeletedAfter(e) \ {Remembered})
      BY <1>3, <1>4, <1>n, <3>1
    <3>3. served[e] <= 1 + Cardinality(DeletedAfter(e)' \ {Remembered})
      BY <2>2, <3>2
    <3>4. Cardinality(DeletedAfter(e)' \ {Remembered'}) = Cardinality(DeletedAfter(e)' \ {Remembered})
      BY <1>4
    <3>5. QED BY <3>2, <3>3, <3>4
  <2>6. Remembered' # 0 => Remembered' \in DOMAIN runs' /\ runs'[Remembered'] \in {"success", "deleted"}
    <3>1. SUFFICES ASSUME Remembered # 0
                   PROVE  Remembered \in DOMAIN runs' /\ runs'[Remembered] \in {"success", "deleted"}
      BY <1>4
    <3>2. Remembered \in DOMAIN runs /\ runs[Remembered] \in {"success", "deleted"}
      BY <1>3, <3>1
    <3>3. QED BY <1>4, <3>2
  <2>7. Pending' => Found'.event = Remembered' /\ Remembered' # 0 /\ served'[Remembered'] <= Counted(Remembered)'
    <3>1. SUFFICES ASSUME Pending' PROVE Found'.event = Remembered /\ Remembered # 0 /\ served[Remembered] <= Counted(Remembered)'
      BY <1>4
    <3>2. Found'.event = Remembered /\ Remembered # 0 /\ served[Remembered] <= Counted(Remembered)
      BY <1>3, <1>4, <3>1
    <3>3. Remembered \in Sensor!Events
      BY <1>3, <1>m, <3>2
    <3>4. \A s : s = Remembered => Counted(s) <= Counted(s)' /\ Counted(s) \in Nat /\ Counted(s)' \in Nat
      BY <2>2
    <3>5. Counted(Remembered)' = Cardinality({r \in DOMAIN runs' : r > Remembered' /\ runs'[r] = "deleted"})
      BY DEF Counted, DeletedAfter
    <3>6. PICK s : s = Remembered
      OBVIOUS
    <3>7. Counted(s)' = Counted(Remembered)'
      BY <1>4, <3>5, <3>6 DEF Counted, DeletedAfter
    <3>8. QED BY <1>n, <3>2, <3>3, <3>4, <3>6, <3>7
  <2>8. QED BY <2>3, <2>4, <2>5, <2>6, <2>7 DEF RunsInv
<1>5. CASE UNCHANGED Sensor!vars
  BY <1>4, <1>5 DEF Sensor!vars, Remembered, Pending, Place, Found
<1>6. CASE World
  <2>1. UNCHANGED <<sensor, state, place, seen, found, served, fails, Place, Found>>
    BY <1>6, WorldLeaves
  <2>2. UNCHANGED Remembered /\ (Pending' => Pending)
    BY <2>1 DEF Remembered, Pending
  <2>3. /\ DOMAIN runs \subseteq DOMAIN runs'
        /\ \A r \in DOMAIN runs : runs'[r] = runs[r] \/ runs[r] = "running" \/ runs'[r] = "deleted"
    <3>1. CASE Sensor!WriteFile \/ Sensor!RemoveFile
      BY <3>1 DEF Sensor!WriteFile, Sensor!RemoveFile
    <3>2. CASE Sensor!StartRun
      <4>1. Sensor!Cardinality(DOMAIN runs) = n
        BY <1>m, SameCardinality, FS_Interval
      <4>2. runs' = [r \in 1..n + 1 |-> IF r \in DOMAIN runs THEN runs[r] ELSE "running"]
        BY <3>2, <4>1 DEF Sensor!StartRun
      <4>3. QED BY <1>m, <4>2
    <3>3. CASE Sensor!EndRun \/ Sensor!DeleteRun
      BY <3>3 DEF Sensor!EndRun, Sensor!DeleteRun
    <3>4. QED BY <1>6, <3>1, <3>2, <3>3 DEF World
  <2>4. QED BY <1>4, <2>1, <2>2, <2>3
<1>7. CASE Sensor!Read(interval)
  <2>1. Place = "idle" /\ Place' = "evaluate" /\ UNCHANGED <<runs, state, served>>
    BY <1>7, TickPlaces
  <2>2. UNCHANGED Remembered /\ ~Pending'
    BY <2>1 DEF Remembered, Pending
  <2>3. QED BY <1>4, <2>1, <2>2
<1>8. CASE Sensor!SubmitFails(interval)
  <2>1. Place = "submit" /\ Place' = "idle" /\ UNCHANGED <<runs, state, served>>
    BY <1>8, TickPlaces
  <2>2. UNCHANGED Remembered /\ ~Pending'
    BY <2>1 DEF Remembered, Pending
  <2>3. QED BY <1>4, <2>1, <2>2
<1>9. CASE Sensor!Write(interval)
  <2>1. /\ Place = "write" /\ state' = Found.new /\ UNCHANGED <<runs, served>>
        /\ IF Found.fired THEN Place' = "submit" /\ Found' = Found ELSE Place' = "idle" /\ Found' = Sensor!Nothing
    BY <1>9, TickPlaces
  <2>2. UNCHANGED Remembered /\ (Pending' => Pending /\ Found' = Found)
    BY <2>1 DEF Remembered, Pending
  <2>3. QED BY <1>4, <2>1, <2>2
<1>10. CASE Sensor!Evaluate(interval)
  <2>1. /\ Place = "evaluate" /\ Place' = "write" /\ UNCHANGED <<runs, state, served>>
        /\ Found' = Sensor!Evaluation(seen[interval])
    BY <1>10, TickPlaces
  <2>2. Found' = Sensor!Evaluation(state)
    BY <2>1 DEF SensorTypes
  <2> DEFINE s == Found'.new.run
  <2>3. /\ Found'.fired => /\ Found'.event = s /\ s # 0 /\ s \in DOMAIN runs /\ runs[s] = "success" /\ s # state.run
                           /\ \A r \in DOMAIN runs : runs[r] = "success" => r <= s
        /\ ~Found'.fired => s = state.run
    BY <1>2, <2>1, <2>2, RunEvaluated
  <2>4. Remembered = state.run /\ Remembered' = s /\ (Pending' <=> Found'.fired)
    BY <2>1 DEF Remembered, Pending
  <2> HIDE DEF s
  <2>5. CASE ~Found'.fired
    BY <1>4, <2>1, <2>3, <2>4, <2>5
  <2>6. CASE Found'.fired
    <3>1. /\ s \in DOMAIN runs /\ runs[s] = "success" /\ s # Remembered /\ s # 0 /\ s \in Nat
          /\ \A r \in DOMAIN runs : runs[r] = "success" => r <= s
      BY <1>m, <2>3, <2>4, <2>6
    <3>2. \A e : DeletedAfter(e)' = DeletedAfter(e) /\ s \notin DeletedAfter(e)
      BY <2>1, <3>1 DEF DeletedAfter
    <3>3. \A e : Counted(e)' = Counted(e) /\ Counted(e) \in Nat /\ Cardinality(DeletedAfter(e) \ {s}) = Counted(e)
      BY <3>2, Counts DEF Counted
    <3>4. \A e \in Sensor!Events : served'[e] <= 1 + Counted(e)'
      BY <1>3, <2>1, <3>3
    <3>5. ASSUME NEW e \in Sensor!Events, served'[e] > 0
          PROVE  e \in DOMAIN runs' /\ runs'[e] \in (IF e > Remembered' THEN {"deleted"} ELSE {"success", "deleted"})
      <4>1. e \in DOMAIN runs /\ runs[e] \in {"success", "deleted"} /\ e \in Nat
        BY <1>3, <1>n, <2>1, <3>5
      <4>2. e > s => runs[e] # "success"
        BY <3>1, <4>1
      <4>3. QED BY <2>1, <2>4, <4>1, <4>2
    <3>6. \A e \in Sensor!Events : served'[e] <= 1 + Cardinality(DeletedAfter(e)' \ {Remembered'})
      BY <1>3, <2>1, <2>4, <3>2, <3>3
    <3>7. served[s] <= Counted(s)
      <4>1. s \in Sensor!Events
        BY <1>m, <3>1
      <4>2. CASE s > Remembered
        <5>1. ~(served[s] > 0)
          BY <1>3, <3>1, <4>1, <4>2
        <5>2. QED BY <1>n, <3>3, <4>1, <5>1
      <4>3. CASE s < Remembered
        <5>1. Remembered \in DOMAIN runs /\ runs[Remembered] = "deleted"
          <6>1. Remembered # 0
            BY <1>m, <3>1, <4>3
          <6>2. Remembered \in DOMAIN runs /\ runs[Remembered] \in {"success", "deleted"}
            BY <1>3, <6>1
          <6>3. ~(Remembered <= s)
            BY <1>m, <3>1, <4>3
          <6>4. QED BY <3>1, <6>2, <6>3
        <5>2. Remembered \in DeletedAfter(s)
          BY <1>m, <3>1, <4>3, <5>1 DEF DeletedAfter
        <5>3. Cardinality(DeletedAfter(s) \ {Remembered}) = Counted(s) - 1
          BY <5>2, Counts
        <5>4. served[s] <= 1 + Cardinality(DeletedAfter(s) \ {Remembered})
          BY <1>3, <4>1, <4>3
        <5>5. QED BY <1>n, <3>3, <4>1, <5>3, <5>4
      <4>4. QED BY <1>m, <3>1, <4>2, <4>3
    <3>8. Counted(Remembered)' = Counted(s)
      BY <2>1, <2>4 DEF Counted, DeletedAfter
    <3>9. QED BY <2>1, <2>3, <2>4, <2>6, <3>1, <3>4, <3>5, <3>6, <3>7, <3>8 DEF RunsInv
  <2>7. QED BY <2>5, <2>6
<1>11. CASE Sensor!Submit(interval)
  <2>1. /\ Place = "submit" /\ Place' = "idle" /\ served' = [served EXCEPT ![Found.event] = @ + 1]
        /\ UNCHANGED <<runs, state>>
    BY <1>11, TickPlaces
  <2>2. Remembered' = Remembered /\ ~Pending' /\ Pending
    BY <2>1 DEF Remembered, Pending, SensorTypes
  <2>3. Found.event = Remembered /\ Remembered # 0 /\ served[Remembered] <= Counted(Remembered)
        /\ Remembered \in DOMAIN runs /\ runs[Remembered] \in {"success", "deleted"} /\ Remembered \in Sensor!Events
    BY <1>3, <1>m, <2>2
  <2>4. \A e \in Sensor!Events : served'[e] = IF e = Remembered THEN served[e] + 1 ELSE served[e]
    BY <1>n, <2>1, <2>3
  <2>5. \A e : DeletedAfter(e)' = DeletedAfter(e) /\ Counted(e)' = Counted(e) /\ Counted(e) \in Nat
    BY <2>1, Counts DEF DeletedAfter, Counted
  <2>6. \A e \in Sensor!Events : served'[e] <= 1 + Counted(e)'
    BY <1>3, <1>n, <2>3, <2>4, <2>5
  <2>7. \A e \in Sensor!Events :
          served'[e] > 0 => e \in DOMAIN runs' /\ runs'[e] \in (IF e > Remembered' THEN {"deleted"} ELSE {"success", "deleted"})
    <3>1. SUFFICES ASSUME NEW e \in Sensor!Events, served'[e] > 0
                   PROVE  e \in DOMAIN runs /\ runs[e] \in (IF e > Remembered THEN {"deleted"} ELSE {"success", "deleted"})
      BY <2>1, <2>2
    <3>2. CASE e = Remembered
      BY <1>m, <2>3, <3>2
    <3>3. CASE e # Remembered
      BY <1>3, <2>4, <3>1, <3>3
    <3>4. QED BY <3>2, <3>3
  <2>8. ASSUME NEW e \in Sensor!Events, e < Remembered'
        PROVE  served'[e] <= 1 + Cardinality(DeletedAfter(e)' \ {Remembered'})
    <3>1. e < Remembered /\ e # Remembered
      BY <1>m, <1>n, <2>2, <2>8
    <3>2. served'[e] = served[e]
      BY <2>4, <3>1
    <3>3. served[e] <= 1 + Cardinality(DeletedAfter(e) \ {Remembered})
      BY <1>3, <3>1
    <3>4. Cardinality(DeletedAfter(e)' \ {Remembered'}) = Cardinality(DeletedAfter(e) \ {Remembered})
      BY <2>2, <2>5
    <3>5. QED BY <3>2, <3>3, <3>4
  <2>9. Remembered' # 0 => Remembered' \in DOMAIN runs' /\ runs'[Remembered'] \in {"success", "deleted"}
    BY <2>1, <2>2, <2>3
  <2>10. QED BY <2>2, <2>6, <2>7, <2>8, <2>9 DEF RunsInv
<1>12. QED
  BY <1>5, <1>6, <1>7, <1>8, <1>9, <1>10, <1>11 DEF Sensor!Next, Sensor!Tick, World

LEMMA SensorStep ==
  ASSUME Sensor!TriggersAssumption, Sensor!BoundsAssumption, SensorInv, [Sensor!Next]_(Sensor!vars)
  PROVE  SensorInv'
<1>1. SensorTypes'
  BY SensorTypesStep DEF SensorInv
<1>2. QED BY <1>1, FileStep, RunsStep DEF SensorInv

LEMMA SensorFiresOnce ==
  ASSUME Sensor!TriggersAssumption, Sensor!BoundsAssumption, SensorInv
  PROVE  Sensor!FiresOnce
<1>1. SUFFICES ASSUME NEW e \in Sensor!Events PROVE served[e] <= 1 + Sensor!Cardinality(DeletedAfter(e))
  BY DEF Sensor!FiresOnce, DeletedAfter
<1>2. Counted(e) \in Nat /\ Sensor!Cardinality(DeletedAfter(e)) = Counted(e)
  BY Counts, SameCardinality DEF SensorInv, Counted
<1>3. served[e] \in Nat
  BY DEF SensorInv, SensorTypes
<1>4. CASE OfFile
  <2>1. served[e] <= 1
    BY <1>4 DEF SensorInv, FileInv
  <2>2. QED BY <1>2, <1>3, <2>1
<1>5. CASE ~OfFile
  <2>1. served[e] <= 1 + Counted(e)
    BY <1>5 DEF SensorInv, RunsInv
  <2>2. QED BY <1>2, <2>1
<1>6. QED BY <1>4, <1>5

\* An appearance or a version of a file starts one job at most, and a success of the
\* upstream workflow a second one only for a later run that was deleted after the
\* trigger had come to remember it: for any triggers and any number of events, with
\* the one tick at a time that APScheduler runs.
THEOREM EventsFireOnce ==
  ASSUME Sensor!TriggersAssumption, Sensor!BoundsAssumption
  PROVE  Sensor!Spec => []Sensor!FiresOnce
<1>1. Sensor!Init => SensorInv
  BY SensorInit
<1>2. SensorInv /\ [Sensor!Next]_(Sensor!vars) => SensorInv'
  BY SensorStep
<1>3. QED BY <1>1, <1>2, SensorFiresOnce, PTL DEF Sensor!Spec

-----------------------------------------------------------------------------
(* All of them.                                                            *)

SuiteInv == /\ part = "cron" => SchedulerInv
            /\ part = "sensor" => SensorInv
            /\ part = "probe" => ProbeInv

\* Whatever starts workflows starts nothing twice: NothingStartsTwice for every value of
\* the constants.
THEOREM NothingStartsTwiceAlways == SuiteSpec => []NothingStartsTwice
<1>0. /\ CronsAssumption /\ SyncersAssumption /\ BoundsAssumption
      /\ Sensor!TriggersAssumption /\ Sensor!BoundsAssumption /\ Probing!ProbeAssumption
  BY SuiteAssumption DEF SuiteAssumption
<1>1. SuiteInit => SuiteInv
  BY <1>0, SchedulerInit, SensorInit, ProbeInit DEF SuiteInit, SuiteInv
<1>2. SuiteInv /\ [SuiteNext]_suiteVars => SuiteInv'
  <2>1. SUFFICES ASSUME SuiteInv, [SuiteNext]_suiteVars PROVE SuiteInv'
    OBVIOUS
  <2>2. part' = part
    BY <2>1 DEF SuiteNext, suiteVars, notCron, notSensor, notProbe
  <2>3. ASSUME part = "cron" PROVE SchedulerInv'
    <3>1. [Next]_vars /\ SchedulerInv
      BY <2>1, <2>3 DEF SuiteNext, suiteVars, SuiteInv
    <3>2. QED BY <1>0, <3>1, TypeStep, PlaceStep, QuietStep DEF SchedulerInv
  <2>4. ASSUME part = "sensor" PROVE SensorInv'
    <3>1. [Sensor!Next]_(Sensor!vars) /\ SensorInv
      BY <2>1, <2>4 DEF SuiteNext, suiteVars, sensorVars, Sensor!vars, SuiteInv
    <3>2. QED BY <1>0, <3>1, SensorStep
  <2>5. ASSUME part = "probe" PROVE ProbeInv'
    <3>1. [Probing!Next]_(Probing!vars) /\ ProbeInv
      BY <2>1, <2>5 DEF SuiteNext, suiteVars, probeVars, Probing!vars, SuiteInv
    <3>2. QED BY <1>0, <3>1, ProbeStep
  <2>6. QED BY <2>2, <2>3, <2>4, <2>5 DEF SuiteInv
<1>3. SuiteInv => NothingStartsTwice
  BY <1>0, QuietIsNoOverlap, SensorFiresOnce, ProbePaced DEF SuiteInv, NothingStartsTwice
<1>4. QED BY <1>1, <1>2, <1>3, PTL DEF SuiteSpec
=============================================================================
