------------------------------ MODULE MCAccess ------------------------------
(***************************************************************************)
(* The modules about who is let in, side by side.  They share no state:    *)
(* part says which of them a behaviour is one of, and the variables of the *)
(* others stay 0.  Names that several of them use stand for one variable.  *)
(***************************************************************************)
EXTENDS Naturals, Sequences, FiniteSets, TLC

CONSTANTS
  Threads,
  Ids, MaxWrites,                                                    \* UserFile
  AccessTTL, RefreshTTL, SessionClock, MaxAccess, MaxRefresh,        \* Sessions
  Keys, Limit, Window, RateClock, MaxLag,                            \* RateLimiter
  Codes, MaxSecrets, MaxUses,                                        \* SecondFactor
  Users, Role, Projects, Tasks, Runs,                                \* ProjectAccess
  Submitters, Enforce, QueueMax, MaxCompare, MaxExport, MaxPerProject, MaxPerUser, Quota, MaxJobs

VARIABLES
  part,
  file, cache, lock, pc, op, id, read, found, writes, kept,
  access, revoked, refresh, account, parent, contested, ended, replayed, escaped,
  hits, asked, passed,
  user, issued, over, late,
  project, task, result, links, gone,
  jobs, made, host, sync,
  now, req, used, overlapped

files     == <<file, cache, lock, pc, op, id, read, found, writes, kept>>
sessions  == <<access, revoked, refresh, account, parent, contested, ended, replayed, escaped>>
rates     == <<hits, asked, passed>>
factors   == <<user, issued, over, late>>
projects  == <<project, task, result, links, gone>>
admission == <<jobs, made, host, sync>>

vars == <<part, files, sessions, rates, factors, projects, admission, now, req, used, overlapped>>

F == INSTANCE UserFile
S == INSTANCE Sessions WITH MaxTime <- SessionClock
L == INSTANCE RateLimiter WITH MaxTime <- RateClock
M == INSTANCE SecondFactor
P == INSTANCE ProjectAccess
A == INSTANCE Admission WITH Users <- Submitters

ASSUME InstancesAssumption ==
  /\ F!BoundAssumption /\ F!ThreadsAssumption /\ S!TTLAssumption /\ L!WindowAssumption
  /\ M!SecretsAssumption /\ P!RoleAssumption /\ P!PlacesAssumption /\ A!LimitAssumption

-----------------------------------------------------------------------------
\* The variables of a module that has no part in the behaviour.
NoFiles ==
  /\ file = 0 /\ cache = 0 /\ lock = 0 /\ pc = 0 /\ op = 0 /\ id = 0 /\ read = 0 /\ found = 0
  /\ writes = 0 /\ kept = 0
NoSessions ==
  /\ access = 0 /\ revoked = 0 /\ refresh = 0 /\ account = 0 /\ parent = 0 /\ contested = 0
  /\ ended = 0 /\ replayed = 0 /\ escaped = 0
NoRates     == hits = 0 /\ asked = 0 /\ passed = 0
NoFactors   == user = 0 /\ issued = 0 /\ over = 0 /\ late = 0
NoProjects  == project = 0 /\ task = 0 /\ result = 0 /\ links = 0 /\ gone = 0
NoAdmission == jobs = 0 /\ made = 0 /\ host = 0 /\ sync = 0

Init ==
  \/ /\ part = "files" /\ F!Init /\ now = 0 /\ req = 0 /\ used = 0
     /\ NoSessions /\ NoRates /\ NoFactors /\ NoProjects /\ NoAdmission
  \/ /\ part = "sessions" /\ S!Init /\ used = 0 /\ overlapped = 0
     /\ NoFiles /\ NoRates /\ NoFactors /\ NoProjects /\ NoAdmission
  \/ /\ part = "rate" /\ L!Init /\ req = 0 /\ used = 0 /\ overlapped = 0
     /\ NoFiles /\ NoSessions /\ NoFactors /\ NoProjects /\ NoAdmission
  \/ /\ part = "factor" /\ M!Init /\ now = 0
     /\ NoFiles /\ NoSessions /\ NoRates /\ NoProjects /\ NoAdmission
  \/ /\ part = "projects" /\ P!Init /\ now = 0 /\ req = 0 /\ used = 0 /\ overlapped = 0
     /\ NoFiles /\ NoSessions /\ NoRates /\ NoFactors /\ NoAdmission
  \/ /\ part = "admission" /\ A!Init /\ now = 0 /\ overlapped = 0
     /\ NoFiles /\ NoSessions /\ NoRates /\ NoFactors /\ NoProjects

Files ==
  /\ part = "files" /\ F!Next
  /\ UNCHANGED <<part, now, req, used, sessions, rates, factors, projects, admission>>
Session ==
  /\ part = "sessions" /\ S!Next
  /\ UNCHANGED <<part, used, overlapped, files, rates, factors, projects, admission>>
Rate ==
  /\ part = "rate" /\ L!Next
  /\ UNCHANGED <<part, req, used, overlapped, files, sessions, factors, projects, admission>>
Factor ==
  /\ part = "factor" /\ M!Next
  /\ UNCHANGED <<part, now, files, sessions, rates, projects, admission>>
Project ==
  /\ part = "projects" /\ P!Next
  /\ UNCHANGED <<part, now, req, used, overlapped, files, sessions, rates, factors, admission>>
Admit ==
  /\ part = "admission" /\ A!Next
  /\ UNCHANGED <<part, now, overlapped, files, sessions, rates, factors, projects>>

Next == Files \/ Session \/ Rate \/ Factor \/ Project \/ Admit

Spec == Init /\ [][Next]_vars

-----------------------------------------------------------------------------
\* A reader of the users gets what was written last, unless two writers met.
StoreIsCurrent == part = "files" => F!StoreIsCurrent

\* A token that was revoked stays so, and the replay of a refresh token that is
\* found revokes its family: all but what a rotation under way issues for a token
\* it had verified before, and unless one token was rotated twice at once.
EndedStaysEnded == part = "sessions" => S!LoggedOutStaysOut /\ S!ReplayEndsTheFamily

\* In no window are more requests of a key let through than its limit.  Unless
\* two handlers met, a recovery code opens one session, and a code of the
\* authenticator none once its secret was given up; while it is valid it opens
\* one each time it is sent.
LoginIsGuarded ==
  /\ part = "rate" => L!RateHolds
  /\ part = "factor" => M!SecondFactorHolds

\* What the history lists for a user is what he may open.
HistoryIsWhatOpens == part = "projects" => P!HistoryIsWhatOpens

\* A compare run is submitted within the limits, unless another request was
\* let in while this one counted.
SubmitInTime == [][part = "admission" => A!SubmitInTime]_vars

-----------------------------------------------------------------------------
(* The small instance.                                                     *)

ThreadSymmetry == Permutations(Threads)

\* An address may ask twice in the window, a name once.
TwoKeys == {<<"ip", "a">>, <<"user", "u">>}
TwoOrOne == [k \in TwoKeys |-> IF k[1] = "ip" THEN 2 ELSE 1]

\* An administrator, an editor and a viewer, who may own a project he was given.
ThreeRoles == [root |-> "admin", ann |-> "editor", bob |-> "viewer"]
=============================================================================
