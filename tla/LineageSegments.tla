--------------------------- MODULE LineageSegments ---------------------------
(***************************************************************************)
(* How the lineage analysis takes the statements out of stored procedures  *)
(* without parsing PL/SQL: it pairs BEGIN with END, cuts the body at the   *)
(* semicolons outside nested blocks, strips a cursor FOR head, starts each *)
(* piece at its first DML word, and hands the tables of the cursor down to *)
(* the statements of the loop.                                             *)
(*                                                                         *)
(* A script is a sequence of words.  Strings and comments are left out.  A *)
(* legal script is written construct by construct, which tells what each   *)
(* statement belongs to.                                                   *)
(***************************************************************************)
EXTENDS Naturals, Sequences, FiniteSets, SequencesExt, FiniteSetsExt

CONSTANTS
  Dml,        \* statements, each one word
  Queries,    \* the queries of cursors, each one word
  Cursors,    \* names of cursors
  From,       \* cursor or query to its tables
  Forms,      \* what the script is: subset of {"procedure", "package", "anonymous"}
  MaxWords    \* bound: words of a body

VARIABLES
  form, declared,  \* the kind of script; the cursors its declarations define
  body,            \* the words written so far
  open,            \* the constructs still open, outermost first
  written          \* the statements written: [at, tables of the loop, clear]

vars == <<form, declared, body, open, written>>

-----------------------------------------------------------------------------
(* Blocks.                                                                 *)

Punctuation == {";", "(", ")", "+"}
ControlEnds == {"if", "loop", "case"}

\* Is the END before position p that of a block?  END; and END name; are.
IsBlockEnd(s, p) ==
  \/ p > Len(s)
  \/ s[p] = ";"
  \/ s[p] \notin Punctuation \cup ControlEnds /\ p < Len(s) /\ s[p + 1] = ";"

EndsBlock(s, i) == s[i] = "end" /\ IsBlockEnd(s, i + 1)

Least(S, otherwise) == IF S = {} THEN otherwise ELSE Min(S)
Count(s, a, b, P(_)) == Cardinality({i \in a..b : P(i)})

\* The END of the block whose body begins at position a.
FindBlockEnd(s, a) ==
  Least({i \in a..Len(s) :
           /\ EndsBlock(s, i)
           /\ 1 + Count(s, a, i, LAMBDA k : s[k] = "begin") = Count(s, a, i, LAMBDA k : EndsBlock(s, k))},
        Len(s) + 1)

-----------------------------------------------------------------------------
(* Cursor loops.                                                           *)

\* Where the LOOP of the cursor head at position i is; 0 when it is no head.
HeadLoop(s, i) ==
  LET j == IF i + 4 <= Len(s) /\ s[i + 1] = "(" THEN i + 4
           ELSE IF i + 2 <= Len(s) /\ s[i + 1] \in Cursors THEN i + 2 ELSE 0
  IN IF j > 0 /\ s[j] = "loop" THEN j ELSE 0

Opens(s, k)  == s[k] = "loop" /\ s[k - 1] # "end"
Closes(s, k) == s[k] = "loop" /\ s[k - 1] = "end"

LoopEnd(s, j) ==
  Least({k \in (j + 1)..Len(s) :
           Closes(s, k) /\ 1 + Count(s, j + 1, k, LAMBDA n : Opens(s, n)) = Count(s, j + 1, k, LAMBDA n : Closes(s, n))},
        Len(s))

TablesOf(word, decls) == IF word \in Queries \/ word \in decls THEN From[word] ELSE {}

LoopScopes(s, decls) ==
  {[from |-> i, to |-> LoopEnd(s, HeadLoop(s, i)),
    tables |-> TablesOf(IF s[i + 1] = "(" THEN s[i + 2] ELSE s[i + 1], decls)] :
     i \in {k \in 1..Len(s) : s[k] = "for" /\ HeadLoop(s, k) > 0}}

\* Mutant: only the outermost loop's cursor is handed down.
Inherited_Outermost(s, at, decls) ==
  LET around == {c \in LoopScopes(s, decls) : c.from <= at /\ at < c.to /\ c.tables # {}}
  IN IF around = {} THEN {} ELSE (CHOOSE c \in around : \A d \in around : c.from <= d.from).tables

\* The loop found last among those around the statement is the innermost.
Inherited(s, at, decls) ==
  LET around == {c \in LoopScopes(s, decls) : c.from <= at /\ at < c.to /\ c.tables # {}}
  IN IF around = {} THEN {} ELSE (CHOOSE c \in around : \A d \in around : c.from >= d.from).tables

-----------------------------------------------------------------------------
(* The pieces of a body.                                                   *)

Depth(s) ==
  LET d[i \in 0..Len(s)] ==
        IF i = 0 THEN 0
        ELSE IF s[i] = "begin" THEN d[i - 1] + 1
        ELSE IF EndsBlock(s, i) /\ d[i - 1] > 0 THEN d[i - 1] - 1 ELSE d[i - 1]
  IN d

\* The intervals between the semicolons outside nested blocks.
RawPieces(s) ==
  LET cuts == {i \in 1..Len(s) : s[i] = ";" /\ Depth(s)[i] = 0}
  IN {p \in {<<1 + Max({0} \cup {c \in cuts : c < b}), b - 1>> : b \in cuts \cup {Len(s) + 1}} : p[1] <= p[2]}

\* A piece that begins with a cursor head loses it; its query gives the tables.
StripHead(s, p) ==
  LET loops == {i \in p[1]..p[2] : s[i] = "loop"}
      l == Min(loops)
  IN IF s[p[1]] = "for" /\ loops # {}
     THEN [from |-> l + 1, tables |-> UNION {From[s[i]] : i \in {k \in p[1]..l : s[k] \in Queries}}]
     ELSE [from |-> p[1], tables |-> {}]

FirstDml(s, a, b) == Least({i \in a..b : s[i] \in Dml \cup Queries}, 0)

BodySegments(s, decls) ==
  {[at |-> FirstDml(s, StripHead(s, p).from, p[2]), to |-> p[2],
    tables |-> LET own == StripHead(s, p).tables
               IN IF own # {} THEN own ELSE Inherited(s, FirstDml(s, StripHead(s, p).from, p[2]), decls)] :
     p \in {q \in RawPieces(s) : FirstDml(s, StripHead(s, q).from, q[2]) > 0}}

-----------------------------------------------------------------------------
(* The procedures of a script.                                             *)

Headers == {"procedure", "package"}

NextWord(s, a, words) == Least({i \in a..Len(s) : s[i] \in words}, Len(s) + 1)
DeclaredIn(s, a, b) == {s[i + 1] : i \in {k \in a..(b - 1) : s[k] = "cursor"}}

\* Bodies are [name, from, to, decls].  The name is the position of the header.
Block(s, h, b, decls) == [name |-> h, from |-> b + 1, to |-> FindBlockEnd(s, b + 1) - 1, decls |-> decls]

\* A procedure, and the procedures nested in a package body, one after the other.
ProcedureBodies(s) ==
  LET Begin(h) == NextWord(s, h, {"begin"})
      OfPackage(h) == IF \E i \in 1..h : s[i] = "package" THEN DeclaredIn(s, 1, NextWord(s, 1, {"procedure"})) ELSE {}
  IN {Block(s, h, Begin(h), DeclaredIn(s, h, Begin(h)) \cup OfPackage(h)) : h \in {k \in 1..Len(s) : s[k] = "procedure"}}

\* Every BEGIN in front of the first header starts an anonymous block.
AnonymousBodies(s) ==
  {Block(s, 0, b, DeclaredIn(s, 1, b)) :
     b \in {i \in 1..(NextWord(s, 1, Headers) - 1) : s[i] = "begin"}}

Segments(s) ==
  UNION {{[name |-> b.name, at |-> b.from - 1 + g.at, to |-> b.from - 1 + g.to, tables |-> g.tables] :
            g \in BodySegments(SubSeq(s, b.from, b.to), b.decls)} :
           b \in ProcedureBodies(s) \cup AnonymousBodies(s)}

-----------------------------------------------------------------------------
(* The writer.                                                             *)

Declarations == FlattenSeq([i \in 1..Cardinality(declared) |-> <<"cursor", SetToSeq(declared)[i]>>])
Before ==
  CASE form = "procedure" -> <<"procedure">> \o Declarations \o <<"begin">>
    [] form = "package"   -> <<"package">> \o Declarations \o <<"procedure", "begin">>
    [] form = "anonymous" -> Declarations \o <<"begin">>
\* A second procedure follows, whose only statement is the word "last".
After == <<"end", ";">> \o (IF form = "anonymous" THEN <<>> ELSE <<"procedure", "begin", "last", ";", "end", ";">>)
Script == Before \o body \o After

Loops(c) == SelectSeq(c, LAMBDA o : o.tables # {})
InBlock == \E i \in DOMAIN open : open[i].kind = "block"

\* What is written since the last semicolon; a cursor query may stand there
\* only as the head of the piece, with no other head after it.
Piece == LET cut == Max({0} \cup {i \in DOMAIN body : body[i] = ";"}) IN SubSeq(body, cut + 1, Len(body))
ClearPiece ==
  LET heads == {i \in DOMAIN Piece : Piece[i] = "for"}
      queries == {i \in DOMAIN Piece : Piece[i] \in Queries}
  IN queries = {} \/ heads = {1}

CloseWords(o) ==
  CASE o.kind = "block" -> <<"end", ";">>
    [] o.kind = "if"    -> <<"end", "if", ";">>
    [] o.kind = "loop"  -> <<"end", "loop", ";">>

\* There is room for the words and for closing what is open after them.
Write(words, after) ==
  /\ Len(body \o words) + 3 * Len(after) <= MaxWords
  /\ body' = body \o words

Init ==
  /\ form \in Forms /\ declared \in SUBSET Cursors
  /\ body = <<>> /\ open = <<>> /\ written = {}

Statement ==
  /\ \E d \in Dml \ {"last"} :
       /\ \A i \in DOMAIN body : body[i] # d
       /\ Write(<<d, ";">>, open)
  /\ written' = written \cup
       {[at |-> Len(body) + 1, clear |-> ClearPiece /\ ~InBlock,
         tables |-> IF Loops(open) = <<>> THEN {} ELSE Last(Loops(open)).tables]}
  /\ UNCHANGED <<form, declared, open>>

Open(kind, words, tables) ==
  /\ open' = Append(open, [kind |-> kind, tables |-> tables])
  /\ Write(words, open')
  /\ UNCHANGED <<form, declared, written>>

OpenBlock == Open("block", <<"begin">>, {})
OpenIf == Open("if", <<"if", "then">>, {})
OpenLoop == Open("loop", <<"loop">>, {})
OpenQueryLoop == \E q \in Queries : Open("loop", <<"for", "(", q, ")", "loop">>, From[q])
OpenCursorLoop == \E c \in Cursors : Open("loop", <<"for", c, "loop">>, TablesOf(c, declared))

\* An assignment whose CASE expression is a term: the CASE ends in END +.
CaseTerm == Write(<<"name", "case", "end", "+", ";">>, open) /\ UNCHANGED <<form, declared, open, written>>

Close ==
  /\ open # <<>>
  /\ body[Len(body)] = ";"
  /\ body' = body \o CloseWords(Last(open))
  /\ open' = Front(open)
  /\ UNCHANGED <<form, declared, written>>

Next == Statement \/ OpenBlock \/ OpenIf \/ OpenLoop \/ OpenQueryLoop \/ OpenCursorLoop \/ CaseTerm \/ Close

Spec == Init /\ [][Next]_vars

-----------------------------------------------------------------------------
(* Every statement outside nested blocks whose piece has no cursor query   *)
(* but at its head is the start of exactly one piece of its own procedure, *)
(* with the tables of the innermost cursor loop around it; and the second  *)
(* procedure keeps its statement.                                          *)
StatementsKeepTheirLoop ==
  open = <<>> =>
    /\ \A w \in written : w.clear =>
         LET at == Len(Before) + w.at
             found == {g \in Segments(Script) : g.at = at}
         IN Cardinality(found) = 1 /\ \A g \in found : g.tables = w.tables /\ (form # "anonymous" => g.name < at)
    /\ form # "anonymous" =>
         \E g \in Segments(Script) : Script[g.at] = "last" /\ Script[g.name + 2] = "last"

(* Stated by the comments of the code, not by what it does: no piece       *)
(* starts at the query of a cursor, which is no statement.                 *)
CursorQueryIsNoStatement ==
  open = <<>> => \A g \in Segments(Script) : Script[g.at] \notin Queries
=============================================================================
