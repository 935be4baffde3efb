------------------------------ MODULE Sessions ------------------------------
(***************************************************************************)
(* The sessions of one account: access tokens (JWTs, valid until they      *)
(* expire unless their jti is in revoked_tokens) and refresh tokens (rows  *)
(* of refresh_tokens, each replaced by the next when it is used).          *)
(*                                                                         *)
(* Every transaction on the SQLite file is one step; what a handler does   *)
(* between two of them interleaves with the other requests.                *)
(***************************************************************************)
EXTENDS Naturals, Sequences

CONSTANTS
  Threads,     \* request threads
  AccessTTL, RefreshTTL,
  MaxTime,     \* bound: the clock, in units of the TTLs
  MaxAccess,   \* bound: access tokens
  MaxRefresh   \* bound: refresh tokens

TTLAssumption == AccessTTL \in Nat \ {0} /\ RefreshTTL \in Nat \ {0}

VARIABLES
  now,
  access,   \* the access tokens issued: when each expires
  revoked,  \* revoked_tokens: the jtis of access tokens, their numbers
  refresh,  \* refresh_tokens: exp, next (replaced_by) and revoked (revoked_at) of each
  account,  \* the user is in users.json
  req,      \* of a thread: where its request is, the token it came with, and the
            \* refresh token it has issued
  parent,   \* history: the token each refresh token was issued for, 0 for a sign-in
  contested,          \* history: tokens two rotations had verified at once
  ended, replayed,    \* history: access tokens logged out; refresh tokens whose
                      \* replay was found
  escaped             \* history: refresh tokens that a rotation issued for one that
                      \* was revoked after it had verified it, and their successors

vars == <<now, access, revoked, refresh, account, req, parent, contested, ended, replayed, escaped>>
tables  == <<now, access, revoked, refresh, account>>
history == <<parent, contested, ended, replayed, escaped>>

NoRequest == [at |-> "idle", tok |-> 0, fresh |-> 0]

Issued == DOMAIN refresh

Init ==
  /\ now = 0 /\ account = TRUE
  /\ access = <<>> /\ refresh = <<>> /\ revoked = {}
  /\ req = [t \in Threads |-> NoRequest]
  /\ parent = <<>> /\ contested = {} /\ ended = {} /\ replayed = {} /\ escaped = {}

TypeOK ==
  /\ now \in 0..MaxTime /\ account \in BOOLEAN
  /\ revoked \subseteq DOMAIN access /\ ended \subseteq DOMAIN access
  /\ \A j \in Issued : refresh[j].next \in 0..Len(refresh)
  /\ DOMAIN parent = Issued /\ contested \cup replayed \cup escaped \subseteq Issued
  /\ req \in [Threads -> [at : {"idle", "stepup", "revoke", "prune", "chain", "issue", "replace", "branch"},
                           tok : 0..Len(access) \cup 0..Len(refresh), fresh : 0..Len(refresh)]]

-----------------------------------------------------------------------------
(* Tokens.                                                                 *)

\* A JWT is good in the second of its exp, too.
Unexpired(exp) == now <= exp

\* get_current_user
Accepted(a) == Unexpired(access[a]) /\ a \notin revoked /\ account

NewAccess == Append(access, now + AccessTTL)
NewRefresh == Append(refresh, [exp |-> now + RefreshTTL, next |-> 0, revoked |-> FALSE])

\* prune_revoked_tokens
Prune == {a \in revoked : ~(access[a] < now)}

\* Mutant: what the token has replaced, without what has replaced it.
Neighbours_Older(S) == S \cup {k \in Issued : refresh[k].next \in S}

\* revoke_refresh_branch: what replaced_by connects with a token, either way.
Neighbours(S) ==
  {k \in Issued : k \in S \/ \E j \in S : refresh[j].next = k \/ refresh[k].next = j}
Branch(j) ==
  LET reach[n \in Nat] == IF n = 0 THEN {j} ELSE Neighbours(reach[n - 1]) IN reach[Len(refresh)]

RevokeAll(S) ==
  [j \in Issued |-> IF j \in S THEN [refresh[j] EXCEPT !.revoked = TRUE] ELSE refresh[j]]

at(t)    == req[t].at
tok(t)   == req[t].tok
fresh(t) == req[t].fresh

GoTo(t, to) == req' = [req EXCEPT ![t].at = to]
Return(t)   == req' = [req EXCEPT ![t] = NoRequest]

-----------------------------------------------------------------------------
Tick ==
  /\ now < MaxTime /\ now' = now + 1
  /\ UNCHANGED <<access, revoked, refresh, account, req, history>>

\* delete_user, by an administrator
DeleteAccount ==
  /\ account /\ account' = FALSE
  /\ UNCHANGED <<now, access, revoked, refresh, req, history>>

\* login, or mfa_challenge when the account has a second factor
SignIn ==
  /\ account /\ Len(access) < MaxAccess /\ Len(refresh) < MaxRefresh
  /\ access' = NewAccess /\ refresh' = NewRefresh
  /\ parent' = Append(parent, 0)
  /\ UNCHANGED <<now, revoked, account, req, contested, ended, replayed, escaped>>

\* A request whose token get_current_user accepts.
Authenticated(t, to) ==
  /\ at(t) = "idle"
  /\ \E a \in DOMAIN access :
       Accepted(a) /\ req' = [req EXCEPT ![t] = [NoRequest EXCEPT !.at = to, !.tok = a]]
  /\ UNCHANGED <<tables, history>>

BeginStepUp(t) == Authenticated(t, "stepup")
BeginLogout(t) == Authenticated(t, "revoke")

\* verify_password_api: a token of the same account, issued now
StepUp(t) ==
  /\ at(t) = "stepup" /\ Return(t) /\ Len(access) < MaxAccess
  /\ access' = NewAccess
  /\ UNCHANGED <<now, revoked, refresh, account, history>>

WrongPassword(t) == at(t) = "stepup" /\ Return(t) /\ UNCHANGED <<tables, history>>

-----------------------------------------------------------------------------
(* logout: the token, what has expired of the table, then the refresh      *)
(* tokens of the account.                                                  *)

\* A token that has expired meanwhile is not entered, and nothing is pruned.
RevokeActive(t) ==
  LET good == Unexpired(access[tok(t)]) IN
  /\ at(t) = "revoke" /\ GoTo(t, IF good THEN "prune" ELSE "chain")
  /\ revoked' = IF good THEN revoked \cup {tok(t)} ELSE revoked
  /\ UNCHANGED <<now, access, refresh, account, history>>

PruneRevoked(t) ==
  /\ at(t) = "prune" /\ GoTo(t, "chain")
  /\ revoked' = Prune
  /\ UNCHANGED <<now, access, refresh, account, history>>

RevokeChain(t) ==
  /\ at(t) = "chain" /\ Return(t)
  /\ refresh' = RevokeAll(Issued)
  /\ ended' = ended \cup {tok(t)}
  /\ UNCHANGED <<now, access, revoked, account, parent, contested, replayed, escaped>>

-----------------------------------------------------------------------------
(* rotate_refresh_token                                                    *)

Rotating(t, j) == at(t) \in {"issue", "replace"} /\ tok(t) = j

\* A client has a token once the rotation that issued it has answered.
Answered(j) == \A u \in Threads : at(u) = "replace" => fresh(u) # j

\* verify_refresh_token finds a token that is neither revoked nor replaced.
Verify(t) ==
  \E j \in Issued :
    /\ Unexpired(refresh[j].exp) /\ ~refresh[j].revoked /\ refresh[j].next = 0
    /\ at(t) = "idle" /\ Answered(j)
    /\ req' = [req EXCEPT ![t] = [NoRequest EXCEPT !.at = "issue", !.tok = j]]
    /\ contested' = contested \cup {k \in {j} : \E u \in Threads : Rotating(u, k)}
    /\ UNCHANGED <<tables, parent, ended, replayed, escaped>>

\* It finds one that was replaced: somebody else has used it.
FindReplay(t) ==
  \E j \in Issued :
    /\ Unexpired(refresh[j].exp) /\ ~refresh[j].revoked /\ refresh[j].next # 0
    /\ at(t) = "idle"
    /\ req' = [req EXCEPT ![t] = [NoRequest EXCEPT !.at = "branch", !.tok = j]]
    /\ UNCHANGED <<tables, history>>

\* What a rotation has issued for a token of the branch, and not yet linked to
\* it, is not reached.
Unlinked(B) == {fresh(u) : u \in {v \in Threads : at(v) = "replace" /\ tok(v) \in B}}

RevokeBranch(t) ==
  LET B == Branch(tok(t)) IN
  /\ at(t) = "branch" /\ Return(t)
  /\ refresh' = RevokeAll(B)
  /\ replayed' = replayed \cup {tok(t)}
  /\ escaped' = (escaped \ B) \cup Unlinked(B)
  /\ UNCHANGED <<now, access, revoked, account, parent, contested, ended>>

\* issue_refresh_token does not look again at the token that was verified.
Issue(t) ==
  /\ at(t) = "issue" /\ Len(refresh) < MaxRefresh
  /\ refresh' = NewRefresh
  /\ parent' = Append(parent, tok(t))
  /\ req' = [req EXCEPT ![t].at = "replace", ![t].fresh = Len(refresh')]
  /\ escaped' = IF refresh[tok(t)].revoked \/ tok(t) \in escaped
                THEN escaped \cup {Len(refresh')} ELSE escaped
  /\ UNCHANGED <<now, access, revoked, account, contested, ended, replayed>>

\* The old token points to the new one; the account gets an access token with
\* it, unless it was deleted.
Replace(t) ==
  /\ at(t) = "replace" /\ Return(t) /\ (account => Len(access) < MaxAccess)
  /\ refresh' = [refresh EXCEPT ![tok(t)].next = fresh(t)]
  /\ access' = IF account THEN NewAccess ELSE access
  /\ UNCHANGED <<now, revoked, account, history>>

-----------------------------------------------------------------------------
Next ==
  \/ Tick \/ DeleteAccount \/ SignIn
  \/ \E t \in Threads :
       \/ BeginStepUp(t) \/ StepUp(t) \/ WrongPassword(t)
       \/ BeginLogout(t) \/ RevokeActive(t) \/ PruneRevoked(t) \/ RevokeChain(t)
       \/ Verify(t) \/ FindReplay(t) \/ RevokeBranch(t) \/ Issue(t) \/ Replace(t)

Spec == Init /\ [][Next]_vars

-----------------------------------------------------------------------------
(* Properties.                                                             *)

\* A token whose logout returned is never accepted again: not when a later
\* logout prunes the table, and not when it expired while the logout ran.
LoggedOutStaysOut == \A a \in ended : ~Accepted(a)

Root(j) == LET root[k \in 0..Len(parent)] == IF k = 0 \/ parent[k] = 0 THEN k ELSE root[parent[k]]
           IN root[j]
Family(j) == {k \in Issued : Root(k) = Root(j)}

\* Once the replay of a refresh token was found, each token of its sign-in is
\* revoked, with two exceptions.  A rotation that had verified a token when that
\* was revoked issues one that nothing revokes: it and its successors escape.
\* Of two overlapping rotations of one token, replaced_by keeps the second only,
\* and nothing is said of a sign-in where that happened.
ReplayEndsTheFamily ==
  \A j \in replayed : Family(j) \cap contested = {} =>
    \A k \in Family(j) : refresh[k].revoked \/ k \in escaped

\* What refresh.py:7-9 says, and the code does not do: a token that is used again
\* after its rotation has its chain revoked.
ReplayRevokesTheChain ==
  \A j \in replayed : \A k \in Family(j) : refresh[k].revoked
=============================================================================
