--------------------------- MODULE EcmaStatements ---------------------------
(***************************************************************************)
(* The statements of ECMA-262 (third edition, chapter 12), which every     *)
(* execute() of src/kjs/nodes.cpp names in its heading comment.  Exec is   *)
(* the specification's text as a function: it runs a statement against a   *)
(* history of evaluated expressions, and says which completion the         *)
(* statement ends with and how many evaluations it used up.                *)
(*                                                                         *)
(* A statement is a record whose field k is its kind.  An expression is a  *)
(* name; its evaluation yields true, false or an exception.  The clause of *)
(* a switch yields true when it equals the value switched on; the left     *)
(* side of a for-in yields true for each name assigned to it and false     *)
(* when there is no name left.  A history is a sequence of [e, o] records. *)
(*                                                                         *)
(* Two completions are not of the language: the history is used up before  *)
(* the statement ends ("unfinished"), or its next evaluation is not the    *)
(* one the language asks for ("refuted").                                  *)
(***************************************************************************)
EXTENDS Naturals, Sequences

\* The expression or statement that the syntax leaves out.
NoExpr == "none"
NoStmt == [k |-> "none"]

End(type, to, val, n) == [type |-> type, to |-> to, val |-> val, n |-> n]
Normal(n) == End("normal", "", "", n)

\* The value of e is the next one of the history.
Evaluate(e, hist, n) ==
    IF e = NoExpr THEN End("normal", "", "true", n)
    ELSE IF n = Len(hist) THEN End("unfinished", "", "", n)
    ELSE IF hist[n + 1].e # e THEN End("refuted", "", "", n)
    ELSE IF hist[n + 1].o = "throw" THEN End("throw", "", e, n + 1)
    ELSE End("normal", "", hist[n + 1].o, n + 1)

\* "If Result(i) is an abrupt completion, return Result(i)."
Then(r, Next(_)) == IF r.type = "normal" THEN Next(r) ELSE r

\* What an iteration statement with the label set ls does after its body.
AfterBody(r, ls, Again(_)) ==
    CASE r.type = "normal"                     -> Again(r.n)
      [] r.type = "continue" /\ r.to \in ls    -> Again(r.n)
      [] r.type = "break" /\ r.to \in ls       -> Normal(r.n)
      [] OTHER                                 -> r

\* A break that names the statement ends it.
BreakTo(ls, r) == IF r.type = "break" /\ r.to \in ls THEN Normal(r.n) ELSE r

RECURSIVE Exec(_, _, _, _), ExecList(_, _, _, _), WhileFrom(_, _, _, _),
          DoFrom(_, _, _, _), ForFrom(_, _, _, _), ForInFrom(_, _, _, _),
          Select(_, _, _, _), ExecClauses(_, _, _, _)

\* 12.1: the statements of src, from the i-th on.
ExecList(src, i, hist, n) ==
    IF i > Len(src) THEN Normal(n)
    ELSE Then(Exec(src[i], {}, hist, n),
              LAMBDA r : ExecList(src, i + 1, hist, r.n))

\* 12.6.1 to 12.6.4, the loops; ls holds "" and the labels of the statement.
DoFrom(s, ls, hist, n) ==
    AfterBody(Exec(s.body, {}, hist, n), ls,
              LAMBDA m : Then(Evaluate(s.e, hist, m),
                              LAMBDA r : IF r.val = "true" THEN DoFrom(s, ls, hist, r.n)
                                         ELSE Normal(r.n)))

WhileFrom(s, ls, hist, n) ==
    Then(Evaluate(s.e, hist, n),
         LAMBDA r : IF r.val = "false" THEN Normal(r.n)
                    ELSE AfterBody(Exec(s.body, {}, hist, r.n), ls,
                                   LAMBDA m : WhileFrom(s, ls, hist, m)))

ForFrom(s, ls, hist, n) ==
    Then(Evaluate(s.e2, hist, n),
         LAMBDA r : IF r.val = "false" THEN Normal(r.n)
                    ELSE AfterBody(Exec(s.body, {}, hist, r.n), ls,
                                   LAMBDA m : Then(Evaluate(s.e3, hist, m),
                                                   LAMBDA q : ForFrom(s, ls, hist, q.n))))

ForInFrom(s, ls, hist, n) ==
    Then(Evaluate(s.lhs, hist, n),
         LAMBDA r : IF r.val = "false" THEN Normal(r.n)
                    ELSE AfterBody(Exec(s.body, {}, hist, r.n), ls,
                                   LAMBDA m : ForInFrom(s, ls, hist, m)))

\* 12.11: the statements of the clauses, from the i-th on.
ExecClauses(clauses, i, hist, n) ==
    IF i > Len(clauses) THEN Normal(n)
    ELSE Then(Exec(clauses[i].body, {}, hist, n),
              LAMBDA r : ExecClauses(clauses, i + 1, hist, r.n))

\* The clause that is selected: its expressions are evaluated in the order
\* of the source, the default clause left out, until one is equal.  The i-th
\* of them is the first to try; the value found is "none" or its position.
Select(clauses, i, hist, n) ==
    IF i > Len(clauses) THEN [r |-> Normal(n), at |-> 0]
    ELSE LET r == Evaluate(clauses[i].e, hist, n) IN
         IF r.type # "normal" \/ r.val = "true" THEN [r |-> r, at |-> i]
         ELSE Select(clauses, i + 1, hist, r.n)

\* From the selected clause on, all statements run in the order of the
\* source, those of the default clause in their place; without a selected
\* clause, from the default clause on.
ExecSwitch(s, hist, n) ==
    LET found   == Select(s.a \o s.b, 1, hist, n)
        default == [e |-> NoExpr, body |-> s.d]
        all     == s.a \o <<default>> \o s.b
        first   == IF found.at = 0 THEN Len(s.a) + 1
                   ELSE IF found.at <= Len(s.a) THEN found.at ELSE found.at + 1
    IN  Then(found.r, LAMBDA r : ExecClauses(all, first, hist, r.n))

\* A function call (13.2.1): only an exception leaves the function.
Called(r) == IF r.type \in {"throw", "unfinished", "refuted"} THEN r ELSE Normal(r.n)

Exec(s, labels, hist, n) ==
    LET ls == labels \cup {""} IN
    CASE s.k \in {"empty", "none"} -> Normal(n)
      [] s.k = "expr"     -> Then(Evaluate(s.e, hist, n), LAMBDA r : Normal(r.n))
      [] s.k = "call"     -> Called(Exec(s.body, {}, hist, n))
      [] s.k = "block"    -> ExecList(s.src, 1, hist, n)
      [] s.k = "if"       -> Then(Evaluate(s.e, hist, n),
                                  LAMBDA r : Exec(IF r.val = "true" THEN s.yes ELSE s.no,
                                                  {}, hist, r.n))
      [] s.k = "do"       -> DoFrom(s, ls, hist, n)
      [] s.k = "while"    -> WhileFrom(s, ls, hist, n)
      [] s.k = "for"      -> Then(Evaluate(s.e1, hist, n),
                                  LAMBDA r : ForFrom(s, ls, hist, r.n))
      [] s.k = "forin"    -> Then(Evaluate(s.e, hist, n),
                                  LAMBDA r : ForInFrom(s, ls, hist, r.n))
      [] s.k = "continue" -> End("continue", s.to, "", n)
      [] s.k = "break"    -> End("break", s.to, "", n)
      [] s.k = "return"   -> Then(Evaluate(s.e, hist, n),
                                  LAMBDA r : End("return", "", s.e, r.n))
      [] s.k = "with"     -> Then(Evaluate(s.e, hist, n),
                                  LAMBDA r : Exec(s.body, {}, hist, r.n))
      [] s.k = "switch"   -> Then(Evaluate(s.e, hist, n),
                                  LAMBDA r : BreakTo(ls, ExecSwitch(s, hist, r.n)))
      [] s.k = "label"    -> BreakTo({s.name}, Exec(s.body, labels \cup {s.name}, hist, n))
      [] s.k = "throw"    -> Then(Evaluate(s.e, hist, n),
                                  LAMBDA r : End("throw", "", s.e, r.n))
      [] s.k = "try"      ->
            LET b == Exec(s.body, {}, hist, n)
                c == IF b.type = "throw" /\ s.catch # NoStmt
                     THEN Exec(s.catch, {}, hist, b.n) ELSE b
                f == Exec(s.fin, {}, hist, c.n)
            IN  IF c.type \in {"unfinished", "refuted"} THEN c
                ELSE IF f.type # "normal" THEN f
                ELSE [c EXCEPT !.n = f.n]

\* The completion of a program, as the language has it.
Run(program, hist) == Exec(program, {}, hist, 0)
=============================================================================
