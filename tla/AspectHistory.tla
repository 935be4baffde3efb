---------------------------- MODULE AspectHistory ----------------------------
(***************************************************************************)
(* Marks on assets (asset_aspects): who owns a table, how sensitive it is, *)
(* and the trail of their changes.  A change reads the row, outside of any *)
(* transaction, and then writes the row and a record of the trail in one.  *)
(* One mark of one asset is modelled; the others are other rows.           *)
(***************************************************************************)
EXTENDS Naturals, Sequences, SequencesExt

CONSTANTS
  Editors,    \* requests that change the mark
  Values,     \* values it may have
  MaxChanges  \* bound on the length of the trail

VARIABLES
  row,      \* the value, or "" without a row
  trail,    \* sequence of [action, old, new]
  pending,  \* editor to [do, new, old] between its two steps, or Nothing
  raced     \* history: the row changed between the two steps of a change
vars == <<row, trail, pending, raced>>

Nothing == [none |-> TRUE]

\* Only values the schema of the mark allows come so far.
Read(e, do, new) ==
  /\ pending[e] = Nothing /\ Len(trail) < MaxChanges
  /\ IF do = "delete" /\ row = "" THEN UNCHANGED pending
     ELSE pending' = [pending EXCEPT ![e] = [do |-> do, new |-> new, old |-> row]]
  /\ UNCHANGED <<row, trail, raced>>

\* Mutant: a change to the value it has already is recorded too.
Recorded_Always(change) == TRUE
Recorded(change) == change.do = "delete" \/ change.new # change.old

Record(change) ==
  [action |-> IF change.do = "delete" THEN "delete" ELSE IF change.old = "" THEN "insert" ELSE "update",
   old |-> change.old, new |-> change.new]

Commit(e) ==
  /\ pending[e] # Nothing
  /\ row' = pending[e].new
  /\ trail' = IF Recorded(pending[e]) THEN Append(trail, Record(pending[e])) ELSE trail
  /\ raced' = (raced \/ row # pending[e].old)
  /\ pending' = [pending EXCEPT ![e] = Nothing]

Init == row = "" /\ trail = <<>> /\ pending = [e \in Editors |-> Nothing] /\ raced = FALSE

Next == \E e \in Editors :
  \/ \E v \in Values : Read(e, "upsert", v)
  \/ Read(e, "delete", "")
  \/ Commit(e)

Spec == Init /\ [][Next]_vars

-----------------------------------------------------------------------------
Links(i) == trail[i].old = IF i = 1 THEN "" ELSE trail[i - 1].new

(* Unless two changes overlapped, the trail tells the whole story: every   *)
(* record starts from the value the one before left, changes it, and the   *)
(* last one leaves the value there is.                                     *)
TrailIsWhole ==
  ~raced => /\ \A i \in DOMAIN trail : Links(i) /\ trail[i].new # trail[i].old
            /\ row = IF trail = <<>> THEN "" ELSE Last(trail).new

(* Every change leaves a record (the comment at sqlite_store.py:119), so   *)
(* the last record tells the value.                                        *)
TrailTellsTheValue == row = IF trail = <<>> THEN "" ELSE Last(trail).new

=============================================================================
