---------------------------- MODULE SecondFactor ----------------------------
(***************************************************************************)
(* The second factor of one account: a TOTP secret, whether it is asked    *)
(* for, and the recovery codes that stand in for it once each.  A handler  *)
(* decides on what it loads first and writes its fields afterwards.        *)
(*                                                                         *)
(* Every handler but the challenge asks for a recent sign-in, which any    *)
(* request of the account may have; the code sent is that of the secret    *)
(* the handler has loaded, or it is not.  Of a secret, the codes of one    *)
(* time step are modelled, while they are valid.                           *)
(***************************************************************************)
EXTENDS Naturals

CONSTANTS
  Threads,
  Codes,       \* the codes that are printed together
  MaxSecrets,  \* bound: enrolments, and printings of codes
  MaxUses      \* bound: sessions that one recovery code opens

SecretsAssumption == MaxSecrets \in Nat

VARIABLES
  user,      \* the fields of users.json: secret (0: none), enabled, codes
  req,       \* thread to its handler and the code it was sent
  issued,    \* [secrets, sheets]: how many there were; sheets number the codes
  used,      \* history: how often each recovery code was accepted
  over,      \* history: the secrets and the sheets that were replaced or given up
  late,      \* history: the secrets a code of which was accepted after that
  overlapped \* history: two handlers ran at once

vars == <<user, req, issued, used, over, late, overlapped>>

NoUser    == [secret |-> 0, enabled |-> FALSE, codes |-> {}]
NoRequest == [op |-> "none", code |-> <<0, "none">>, first |-> FALSE, read |-> NoUser]
Sheet(n)  == {<<n, c>> : c \in Codes}
Sheets    == 1..MaxSecrets
AllCodes  == UNION {Sheet(n) : n \in Sheets}
TimeCode(n) == <<n, "time">>

Init ==
  /\ user = NoUser
  /\ req = [t \in Threads |-> NoRequest]
  /\ issued = [secrets |-> 0, sheets |-> 0]
  /\ used = [c \in AllCodes |-> 0]
  /\ over = [secrets |-> {}, sheets |-> {}] /\ late = {} /\ overlapped = FALSE

-----------------------------------------------------------------------------
Begin(t, r) ==
  /\ req[t] = NoRequest
  /\ req' = [req EXCEPT ![t] = r]
  /\ overlapped' = (overlapped \/ \E u \in Threads : req[u] # NoRequest)
  /\ UNCHANGED <<user, issued, used, over, late>>

\* The checks of the handlers, which answer 400, 401 or 409 otherwise.
Enroll(t)     == ~user.enabled /\ Begin(t, [NoRequest EXCEPT !.op = "enroll"])
Verify(t)     == user.secret # 0 /\ Begin(t, [NoRequest EXCEPT !.op = "verify", !.first = ~user.enabled])
Regenerate(t) == user.enabled /\ user.secret # 0 /\ Begin(t, [NoRequest EXCEPT !.op = "regenerate"])
Disable(t)    == user.enabled /\ user.secret # 0 /\ Begin(t, [NoRequest EXCEPT !.op = "disable"])

\* mfa_challenge, with a recovery code or with one of an authenticator.
Challenge(t) ==
  \/ \E c \in AllCodes : user.enabled /\ Begin(t, [NoRequest EXCEPT !.op = "recover", !.code = c])
  \/ \E n \in 1..issued.secrets :
       user.enabled /\ Begin(t, [NoRequest EXCEPT !.op = "time", !.code = TimeCode(n), !.read = user])

-----------------------------------------------------------------------------
Finish(t, op) == req[t].op = op /\ req' = [req EXCEPT ![t] = NoRequest]

EnrollWrites(t) ==
  /\ Finish(t, "enroll") /\ issued.secrets < MaxSecrets
  /\ issued' = [issued EXCEPT !.secrets = @ + 1]
  /\ user' = [user EXCEPT !.secret = issued.secrets + 1, !.enabled = FALSE]
  /\ over' = [over EXCEPT !.secrets = 1..issued.secrets]
  /\ UNCHANGED <<used, late, overlapped>>

PrintCodes(t) ==
  /\ issued.sheets < MaxSecrets
  /\ issued' = [issued EXCEPT !.sheets = @ + 1]
  /\ over' = [over EXCEPT !.sheets = 1..issued.sheets]

\* The first verification turns the factor on and prints codes; a later one
\* leaves them.
VerifyWrites(t) ==
  /\ Finish(t, "verify")
  /\ \/ /\ req[t].first /\ PrintCodes(t)
        /\ user' = [user EXCEPT !.enabled = TRUE, !.codes = Sheet(issued.sheets + 1)]
     \/ /\ ~req[t].first /\ user' = [user EXCEPT !.enabled = TRUE]
        /\ UNCHANGED <<issued, over>>
  /\ UNCHANGED <<used, late, overlapped>>

RegenerateWrites(t) ==
  /\ Finish(t, "regenerate") /\ PrintCodes(t)
  /\ user' = [user EXCEPT !.codes = Sheet(issued.sheets + 1)]
  /\ UNCHANGED <<used, late, overlapped>>

DisableWrites(t) ==
  /\ Finish(t, "disable")
  /\ user' = NoUser
  /\ over' = [secrets |-> 1..issued.secrets, sheets |-> 1..issued.sheets]
  /\ UNCHANGED <<issued, used, late, overlapped>>

\* verify_and_consume_recovery_code takes the first code that matches.
Spent(c) == {c}

\* It compares hashes, which takes its time, between reading the file and
\* writing it back.
Match(t) ==
  /\ req[t].op = "recover"
  /\ req' = [req EXCEPT ![t] = IF req[t].code \in user.codes
                               THEN [@ EXCEPT !.op = "consume", !.read = user] ELSE NoRequest]
  /\ UNCHANGED <<user, issued, used, over, late, overlapped>>

Consume(t) ==
  LET c == req[t].code IN
  /\ Finish(t, "consume") /\ used[c] < MaxUses
  /\ user' = [req[t].read EXCEPT !.codes = @ \ Spent(c)]
  /\ used' = [used EXCEPT ![c] = @ + 1]
  /\ UNCHANGED <<issued, over, late, overlapped>>

\* verify_totp compares the code with those of the secret that was loaded.  It
\* keeps no record of the time step: a code opens a session each time it is sent.
OpenByTime(t) ==
  LET n == req[t].code[1] IN
  /\ Finish(t, "time") /\ req[t].read.secret = n
  /\ late' = late \cup (over.secrets \cap {n})
  /\ UNCHANGED <<user, issued, used, over, overlapped>>

RefuseByTime(t) ==
  /\ Finish(t, "time") /\ req[t].read.secret # req[t].code[1]
  /\ UNCHANGED <<user, issued, used, over, late, overlapped>>

Next == \E t \in Threads :
  \/ Enroll(t) \/ Verify(t) \/ Regenerate(t) \/ Disable(t) \/ Challenge(t)
  \/ EnrollWrites(t) \/ VerifyWrites(t) \/ RegenerateWrites(t) \/ DisableWrites(t)
  \/ Match(t) \/ Consume(t) \/ OpenByTime(t) \/ RefuseByTime(t)

Spec == Init /\ [][Next]_vars

-----------------------------------------------------------------------------
\* As long as no two handlers overlapped: the factor that is asked for can be
\* given, a recovery code is accepted once, the recovery codes that count are
\* those printed last, and no code of a secret that was replaced or given up
\* opens a session, whatever was enrolled, given up and enrolled again meanwhile.
SecondFactorHolds ==
  ~overlapped =>
    /\ user.enabled => user.secret # 0
    /\ \A c \in AllCodes : used[c] <= 1
    /\ \A n \in over.sheets : Sheet(n) \cap user.codes = {}
    /\ late = {}
=============================================================================
