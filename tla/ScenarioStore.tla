----------------------------- MODULE ScenarioStore -----------------------------
(***************************************************************************)
(* The files of the scenarios: <id>.yml written by the builder and by the  *)
(* import of tables, <id>.example.yml and files under other names put      *)
(* there by hand (api/scenarios, scenarios/loader, yml_importer).  A file  *)
(* is emptied and then written; who looks for a scenario reads the files   *)
(* that are there.                                                         *)
(***************************************************************************)
EXTENDS Naturals, Sequences, SequencesExt, FiniteSets

CONSTANTS
  Ids,      \* ids of scenarios; a file can be named after each
  Editors,
  MaxSaves  \* bound: saves begun

IdsAssumption == "" \notin Ids

Kinds == {"example", "user"}
Files == Ids \X Kinds
None == [state |-> "none"]

VARIABLES
  file,   \* file to [state |-> "none" | "empty" | "written", id, by]
  at,     \* editor to what it is about to write, or None
  lost,   \* scenarios written over by a save that was not to overwrite
  saves
vars == <<file, at, lost, saves>>

Written(f) == file[f].state = "written"

\* What an editor may save under an id; without overwriting, the file must
\* not exist (the import does not look).
Begin(e) ==
  /\ at[e] = None /\ saves < MaxSaves
  /\ \E id \in Ids, way \in {"save", "overwrite", "import"} :
       /\ way = "save" => file[<<id, "user">>] = None
       /\ at' = [at EXCEPT ![e] = [state |-> "open", id |-> id, way |-> way]]
  /\ saves' = saves + 1
  /\ UNCHANGED <<file, lost>>

Truncate(e) ==
  /\ at[e] # None /\ at[e].state = "open"
  /\ LET f == <<at[e].id, "user">> IN
       /\ lost' = IF at[e].way = "save" /\ Written(f) THEN lost \cup {file[f].by} ELSE lost
       /\ file' = [file EXCEPT ![f] = [state |-> "empty"]]
  /\ at' = [at EXCEPT ![e].state = "write"]
  /\ UNCHANGED saves

Write(e) ==
  /\ at[e] # None /\ at[e].state = "write"
  /\ file' = [file EXCEPT ![<<at[e].id, "user">>] = [state |-> "written", id |-> at[e].id, by |-> e]]
  /\ at' = [at EXCEPT ![e] = None]
  /\ UNCHANGED <<lost, saves>>

\* Files are put there by hand, with any scenario in them, or taken away.
ByHand ==
  /\ \E f \in Files : \E c \in {None} \cup [state : {"written"}, id : Ids, by : {"hand"}] :
       file[f] # c /\ file' = [file EXCEPT ![f] = c]
  /\ saves < MaxSaves /\ saves' = saves + 1
  /\ UNCHANGED <<at, lost>>

Init ==
  /\ file = [f \in Files |-> None] /\ at = [e \in Editors |-> None]
  /\ lost = {} /\ saves = 0

Next == ByHand \/ \E e \in Editors : Begin(e) \/ Truncate(e) \/ Write(e)

Spec == Init /\ [][Next]_vars

-----------------------------------------------------------------------------
\* Files in the order of their names: of one id the example comes first.
\* The ids are taken in the order the enumeration gives them.
Sorted == LET ids == SetToSeq(Ids) IN FlattenSeq([i \in DOMAIN ids |-> <<<<ids[i], "example">>, <<ids[i], "user">>>>])

\* Mutant: the files in the order of their names.
Candidates_Sorted(id) == Sorted
Candidates(id) == SelectSeq(Sorted, LAMBDA f : f[1] = id) \o SelectSeq(Sorted, LAMBDA f : f[1] # id)

\* The first file that can be read and holds the id.
_find_scenario_path(id) ==
  LET found == SelectSeq(Candidates(id), LAMBDA f : Written(f) /\ file[f].id = id)
  IN IF found = <<>> THEN <<>> ELSE <<found[1]>>

\* Examples are listed where there is nothing else.
list_scenarios == LET there == {f \in Files : file[f] # None}
                      user == {f \in there : f[2] = "user"}
                  IN IF user = {} THEN there ELSE user

(* What was saved last under an id is what a look for the id finds, as     *)
(* long as nobody is writing it and there is no example of the same name:  *)
(* other files that hold the same id do not come before it.  A scenario    *)
(* that is listed and can be read is found under its id.                   *)
SavedIsFound ==
  /\ \A id \in Ids : LET f == <<id, "user">> e == <<id, "example">> IN
       Written(f) /\ file[f].id = id /\ ~(Written(e) /\ file[e].id = id) => _find_scenario_path(id) = <<f>>
  /\ \A f \in list_scenarios : Written(f) => _find_scenario_path(file[f].id) # <<>>

(* <id>.yml is preferred to an example (the docstring at scenarios.py:580). *)
UserFileIsPreferred ==
  \A id \in Ids : LET f == <<id, "user">> IN
    Written(f) /\ file[f].id = id => _find_scenario_path(id) = <<f>>

(* A save that is not to overwrite writes over nothing (scenarios.py:381). *)
NothingIsLost == lost = {}
=============================================================================
