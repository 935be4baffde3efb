------------------------------ MODULE ScenarioFill ------------------------------
(***************************************************************************)
(* What a language model is asked to fill into a scenario (scenarios/      *)
(* ai_filler): sample values and distributions of columns and descriptions *)
(* of tables, within a number of calls.  A call may give an answer, give   *)
(* nothing that can be used, or fail; without a provider a library makes   *)
(* the sample values.                                                      *)
(***************************************************************************)
EXTENDS Naturals, Sequences, FiniteSets

CONSTANTS
  Tables,    \* sequence of sequences of columns [realistic, numeric, values, dist: BOOLEAN]
  Derived,   \* positions of the tables that are derived from another
  Described, \* positions of the tables that have a description
  MaxCalls

Scopes == <<"column_values", "column_distributions", "table_descriptions">>

VARIABLES
  scope, provider,  \* what is to be filled, and whether there is a provider
  t, p, c,          \* the table, the scope and the column that are next
  calls, filled, described
vars == <<scope, provider, t, p, c, calls, filled, described>>

Column == Tables[t][c]
Realistic == t \notin Derived /\ Column.realistic
Has(what) == Column[what] \/ <<t, c, what>> \in filled
Running == t <= Len(Tables)
Spent == provider /\ calls >= MaxCalls

NextScope == c' = 1 /\ IF p < 3 THEN p' = p + 1 /\ t' = t ELSE p' = 1 /\ t' = t + 1
NextColumn == IF c < Len(Tables[t]) THEN c' = c + 1 /\ UNCHANGED <<t, p>> ELSE NextScope

ValuesAreWanted == ~Has("values")
DistributionIsWanted == ~Has("dist") /\ ~Has("values") /\ Column.numeric

_call(what) ==
  /\ filled' \in {filled, filled \cup {<<t, c, what>>}}
  /\ calls' = IF provider THEN calls + 1 ELSE calls
  /\ NextColumn
  /\ UNCHANGED <<scope, provider, described>>

Asking(what) == Running /\ Scopes[p] = what /\ what \in scope

FillValues == Asking("column_values") /\ Realistic /\ ~Spent /\ ValuesAreWanted /\ _call("values")

FillDistribution ==
  Asking("column_distributions") /\ provider /\ Realistic /\ ~Spent /\ DistributionIsWanted /\ _call("dist")

FillDescription ==
  /\ Asking("table_descriptions") /\ provider /\ ~Spent /\ t \notin Described
  /\ described' \in {described, described \cup {t}}
  /\ calls' = calls + 1
  /\ NextScope
  /\ UNCHANGED <<scope, provider, filled>>

\* A column there is nothing to ask about.
SkipColumn ==
  /\ Running /\ Scopes[p] \in scope /\ p < 3 /\ (provider \/ p = 1)
  /\ \/ ~Realistic
     \/ ~Spent /\ p = 1 /\ ~ValuesAreWanted
     \/ ~Spent /\ p = 2 /\ ~DistributionIsWanted
  /\ NextColumn
  /\ UNCHANGED <<scope, provider, calls, filled, described>>

\* A scope that is not asked for, or whose calls are spent.
SkipScope ==
  /\ Running
  /\ \/ Scopes[p] \notin scope \/ (~provider /\ p > 1)
     \/ p < 3 /\ Realistic /\ Spent
     \/ p = 3 /\ t \in Described
  /\ NextScope
  /\ UNCHANGED <<scope, provider, calls, filled, described>>

\* Spent calls end the whole of it at a description.
Stop ==
  /\ Asking("table_descriptions") /\ t \notin Described /\ Spent
  /\ t' = Len(Tables) + 1
  /\ UNCHANGED <<scope, provider, p, c, calls, filled, described>>

\* Without a provider, only sample values can be filled.
Init ==
  /\ provider \in BOOLEAN
  /\ scope \in SUBSET {Scopes[i] : i \in 1..3}
  /\ t = IF scope = {} \/ (~provider /\ "column_values" \notin scope) THEN Len(Tables) + 1 ELSE 1
  /\ p = 1 /\ c = 1 /\ calls = 0 /\ filled = {} /\ described = {}

Next == FillValues \/ FillDistribution \/ FillDescription \/ SkipColumn \/ SkipScope \/ Stop

Spec == Init /\ [][Next]_vars

-----------------------------------------------------------------------------
(* Nothing is filled where the author gave something, or where nothing is  *)
(* drawn from it; a column does not get a distribution beside values,      *)
(* which would make the values unused; and the calls, whoever fails, are   *)
(* no more than the limit.                                                 *)
FillKeepsWhatIsGiven ==
  /\ calls <= MaxCalls /\ described \cap Described = {}
  /\ \A f \in filled : LET column == Tables[f[1]][f[2]] IN
       /\ f[1] \notin Derived /\ column.realistic
       /\ IF f[3] = "values" THEN ~column.values
          ELSE /\ column.numeric /\ ~column.dist /\ ~column.values /\ provider
               /\ <<f[1], f[2], "values">> \notin filled
=============================================================================
