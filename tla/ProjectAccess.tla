---------------------------- MODULE ProjectAccess ----------------------------
(***************************************************************************)
(* Who may see, run and discard what: projects with an owner and members,  *)
(* compare tasks that belong to a project or to nobody (""), result files, *)
(* and links to download them.  A result belongs to the project of its     *)
(* task, for as long as the task exists.  The history list and the gates   *)
(* of the other handlers find that out in different ways.                  *)
(*                                                                         *)
(* A handler is one step: no two of them depend on what lies between one's *)
(* check and its write, which is JsonStore's subject (module UserFile).    *)
(***************************************************************************)
EXTENDS FiniteSets

CONSTANTS
  Users, Role,    \* [Users -> {"viewer", "editor", "admin"}]
  Projects, Tasks, Runs

RoleAssumption == Role \in [Users -> {"viewer", "editor", "admin"}]

Global == "none"            \* the project_id ""
Unresolved == "unresolved"  \* the project of a result that has none
Places == Projects \cup {Global}

\* Ids are random hexadecimal digits.
PlacesAssumption == Unresolved \notin Places

VARIABLES
  project,   \* project to [owner, members]
  task,      \* task to its project
  result,    \* run to the task in its file
  links,     \* download tokens: [run, project, used]
  gone       \* what was deleted; ids are random and never given again

vars == <<project, task, result, links, gone>>

Init ==
  /\ project = <<>> /\ task = <<>> /\ result = <<>>
  /\ links = {} /\ gone = {}

New(S, m) == S \ (DOMAIN m \cup gone)
Put(m, x, v) == [y \in DOMAIN m \cup {x} |-> IF y = x THEN v ELSE m[y]]
Drop(m, x)   == [y \in DOMAIN m \ {x} |-> m[y]]

-----------------------------------------------------------------------------
(* _authz                                                                  *)

Admin(u)  == Role[u] = "admin"
Editor(u) == Role[u] \in {"editor", "admin"}   \* require_role("editor")

\* accessible_project_ids of one who is not an administrator
Member(u) == {p \in DOMAIN project : u = project[p].owner \/ u \in project[p].members}

\* can_access_project: the project of a task may itself be deleted.
CanAccess(u, p) == Admin(u) \/ p = Global \/ p \in Member(u)

\* compare_result_project_id: unresolved when the file or its task is gone
ResultProject(r) ==
  IF r \in DOMAIN result /\ result[r] \in DOMAIN task THEN task[result[r]] ELSE Unresolved

\* _check_run_project_access, before a result is shown or exported
MayOpen(u, r) == ResultProject(r) # Unresolved /\ CanAccess(u, ResultProject(r))

\* delete_history_api lets through what is unresolved.
MayDiscard(u, r) == Editor(u) /\ (ResultProject(r) = Unresolved \/ CanAccess(u, ResultProject(r)))

-----------------------------------------------------------------------------
(* list_result_history                                                     *)

\* Mutant: tasks of no project are left out.
AccessibleTasks_Named(u) == {k \in DOMAIN task : task[k] \in Member(u)}

AccessibleTasks(u) == {k \in DOMAIN task : task[k] = Global \/ task[k] \in Member(u)}

\* Asked for a project, it lists its own, the unbound ones and those whose task
\* is deleted.
OfProject(r, p) == p = Global \/ result[r] \notin DOMAIN task \/ task[result[r]] \in {p, Global}

History(u, p) ==
  {r \in DOMAIN result : (Admin(u) \/ result[r] \in AccessibleTasks(u)) /\ OfProject(r, p)}

-----------------------------------------------------------------------------
(* The handlers.                                                           *)

CreateProject(u) ==
  /\ Editor(u)
  /\ \E p \in New(Projects, project), ms \in SUBSET Users :
       project' = Put(project, p, [owner |-> u, members |-> ms \cup {u}])
  /\ UNCHANGED <<task, result, links, gone>>

\* update_project and delete_project are the owner's, whatever his role is.
Owned(u) == {p \in DOMAIN project : Admin(u) \/ project[p].owner = u}

UpdateProject(u) ==
  /\ \E p \in Owned(u), ms \in SUBSET Users :
       project' = [project EXCEPT ![p].members = ms \cup {project[p].owner}]
  /\ UNCHANGED <<task, result, links, gone>>

\* Its tasks stay, and name a project nobody is a member of.
DeleteProject(u) ==
  /\ \E p \in Owned(u) : project' = Drop(project, p) /\ gone' = gone \cup {p}
  /\ UNCHANGED <<task, result, links>>

Reachable(u) == {k \in DOMAIN task : CanAccess(u, task[k])}

\* create_task, and copy_task_api, which takes the project of the original
CreateTask(u) ==
  /\ Editor(u)
  /\ \E k \in New(Tasks, task), p \in Places :
       /\ CanAccess(u, p)
       /\ task' = Put(task, k, p)
  /\ UNCHANGED <<project, result, links, gone>>

CopyTask(u) ==
  /\ Editor(u)
  /\ \E k \in New(Tasks, task), o \in Reachable(u) : task' = Put(task, k, task[o])
  /\ UNCHANGED <<project, result, links, gone>>

\* A task that keeps its project needs access to that alone.
UpdateTask(u) ==
  /\ Editor(u)
  /\ \E k \in Reachable(u), p \in Places :
       /\ p = task[k] \/ CanAccess(u, p)
       /\ task' = Put(task, k, p)
  /\ UNCHANGED <<project, result, links, gone>>

DeleteTask(u) ==
  /\ Editor(u)
  /\ \E k \in Reachable(u) : task' = Drop(task, k) /\ gone' = gone \cup {k}
  /\ UNCHANGED <<project, result, links>>

RunTask(u) ==
  /\ Editor(u)
  /\ \E k \in Reachable(u), r \in New(Runs, result) : result' = Put(result, r, k)
  /\ UNCHANGED <<project, task, links, gone>>

Discard(u) ==
  /\ \E r \in DOMAIN result : MayDiscard(u, r) /\ result' = Drop(result, r) /\ gone' = gone \cup {r}
  /\ UNCHANGED <<project, task, links>>

\* issue_download_token, consume_download_nonce
Signed(r)   == [run |-> r, project |-> ResultProject(r), used |-> FALSE]
Consumed(l) == [l EXCEPT !.used = TRUE]

\* create_run_download signs the project the result is of today, ...
MakeLink(u) ==
  /\ Editor(u)
  /\ \E r \in DOMAIN result :
       MayOpen(u, r) /\ links' = links \cup {Signed(r)}
  /\ UNCHANGED <<project, task, result, gone>>

\* ... and download_via_token asks for that one; the link is used up before the
\* file is looked for.
FollowLink(u) ==
  /\ \E l \in links :
       /\ CanAccess(u, l.project) /\ ~l.used
       /\ links' = (links \ {l}) \cup {Consumed(l)}
  /\ UNCHANGED <<project, task, result, gone>>

Next == \E u \in Users :
  \/ CreateProject(u) \/ UpdateProject(u) \/ DeleteProject(u)
  \/ CreateTask(u) \/ CopyTask(u) \/ UpdateTask(u) \/ DeleteTask(u)
  \/ RunTask(u) \/ Discard(u) \/ MakeLink(u) \/ FollowLink(u)

Spec == Init /\ [][Next]_vars

-----------------------------------------------------------------------------
\* What a user's history shows is what the gates let him open, whatever projects,
\* members, tasks and results were created, moved and deleted before: nothing is
\* listed that answers 404 or 403, and nothing can be opened that is not listed.
\* An administrator's list holds the results of deleted tasks besides.  The
\* list of a project is a part of it.
HistoryIsWhatOpens ==
  \A u \in Users :
    LET opens == {r \in DOMAIN result : MayOpen(u, r)}
    IN /\ opens \subseteq History(u, Global)
       /\ \A p \in Places : \A r \in History(u, p) : r \in opens \/ (Admin(u) /\ ResultProject(r) = Unresolved)
=============================================================================
