---------------------------- MODULE MCStatements ----------------------------
(* Small programs: each kind of statement with each kind of jump out of it. *)
EXTENDS Statements

Empty == [k |-> "empty", ls |-> {}]
Expr(e) == [k |-> "expr", ls |-> {}, e |-> e]
Block(src) == [k |-> "block", ls |-> {}, src |-> src]
If(e, s) == [k |-> "if", ls |-> {}, e |-> e, yes |-> s, no |-> NoStmt]
IfElse(e, s, t) == [k |-> "if", ls |-> {}, e |-> e, yes |-> s, no |-> t]
Do(s, e) == [k |-> "do", ls |-> {}, e |-> e, body |-> s]
While(e, s) == [k |-> "while", ls |-> {}, e |-> e, body |-> s]
For(e1, e2, e3, s) == [k |-> "for", ls |-> {}, e1 |-> e1, e2 |-> e2, e3 |-> e3, body |-> s]
ForIn(lhs, e, s) == [k |-> "forin", ls |-> {}, lhs |-> lhs, e |-> e, body |-> s]
Continue(l) == [k |-> "continue", ls |-> {}, to |-> l]
Break(l) == [k |-> "break", ls |-> {}, to |-> l]
ReturnOf(e) == [k |-> "return", ls |-> {}, e |-> e]
With(e, s) == [k |-> "with", ls |-> {}, e |-> e, body |-> s]
Switch(e, a, d, b) == [k |-> "switch", ls |-> {}, e |-> e, a |-> a, d |-> d, b |-> b]
Case(e, s) == [e |-> e, body |-> Block(s)]
Throw(e) == [k |-> "throw", ls |-> {}, e |-> e]
Try(s, c, f) == [k |-> "try", ls |-> {}, body |-> s, catch |-> c, fin |-> f]
CallOf(s) == [k |-> "call", ls |-> {}, body |-> s]

\* Each loop with the body s.
Loops(s) == {Do(s, "d"), While("w", s), For("i", "j", "k", s), For(NoExpr, NoExpr, NoExpr, s),
             ForIn("x", "o", s)}

Jumps == {Break(""), Continue(""), Break("L"), Continue("L"), Throw("t")}

\* A jump from the inner of two loops, the outer one with a label.
Nested == {Block(<<Labelled("L", outer), Expr("z")>>) :
             outer \in UNION {Loops(Block(<<inner, Expr("b")>>)) :
               inner \in UNION {{While("v", If("c", j)), ForIn("y", "p", Block(<<j>>))} : j \in Jumps}}}

\* Jumps out of a block, a catch block and a finally block, in a loop.
Guarded == {Block(<<Labelled("L", While("w", Try(Block(<<If("c", j)>>), c, f)))>>) :
              j \in Jumps,
              c \in {NoStmt, Block(<<Expr("h")>>), Block(<<Throw("u")>>)},
              f \in {Block(<<Expr("f")>>), Block(<<If("f", Break("L"))>>)}}

\* Functions left by a return or an exception, from within scopes and loops.
Functions == {Block(<<CallOf(Block(<<s>>)), Expr("z")>>) :
                s \in Loops(With("s", Block(<<If("c", ReturnOf("r"))>>)))
                      \cup {Try(ReturnOf("r"), NoStmt, If("f", ReturnOf("g"))),
                            Try(CallOf(Block(<<Throw("t")>>)), Block(<<ReturnOf(NoExpr)>>), NoStmt),
                            IfElse("c", Empty, Throw("t"))}}

\* Switches, in a loop; the default clause comes last, or no clause in
\* front of it runs to its end.
Switches == {Block(<<Labelled("L", While("w", s)), Expr("z")>>) :
               s \in {Switch("n", <<Case("1", <<Expr("p")>>), Case("2", <<j>>)>>, Block(<<Expr("q")>>), <<>>) :
                         j \in Jumps}
                     \cup {Switch("n", <<Case("1", <<j>>)>>, Block(<<Expr("q")>>),
                                  <<Case("2", <<Expr("p")>>), Case("3", <<>>)>>) : j \in Jumps}
                     \cup {Switch("n", <<Case("1", <<Expr("p")>>)>>, NoStmt, <<>>)}}

\* A labelled block, left from inside; scopes left by jumps; a switch in a
\* switch.
Others == {Block(<<Labelled("L", Block(<<While("w", With("s", j)), Expr("b")>>)), Expr("z")>>) :
             j \in {Break("L"), Break(""), Try(Throw("t"), Break("L"), Expr("f"))}}
          \cup {Block(<<While("w", Switch("n", <<Case("1", <<Switch("m", <<Case("2", <<j>>)>>, NoStmt, <<>>)>>),
                                                 Case("3", <<j>>)>>, Expr("q"), <<>>))>>) :
                  j \in {Break(""), Continue("")}}

\* A loop that only an interruption ends, inside of each statement that an
\* interruption passes; what follows it must not run, nor its outer loop go on.
Endlessly == While("v", Empty)
Passing == {Try(Endlessly, NoStmt, NoStmt), Try(Endlessly, Expr("h"), Empty),
            Try(Throw("t"), Endlessly, Block(<<Empty>>)),
            Try(Empty, NoStmt, Endlessly),
            With("s", Endlessly), ForIn("x", "o", Endlessly), Do(Endlessly, "d"),
            For("i", "j", "k", With("s", Endlessly)),
            Switch("n", <<Case("1", <<Endlessly>>)>>, Block(<<Endlessly>>), <<>>),
            Labelled("M", With("s", Try(Block(<<Endlessly, Expr("b")>>), Expr("h"), NoStmt)))}
Interruptions == {Block(<<While("w", s), Expr("z")>>) : s \in Passing}

\* Interruptions that are swallowed, once and again and again: by a call, by a
\* jump and by an exception out of a finally block.
Swallowing == {CallOf(Block(<<Endlessly>>)), Try(Endlessly, NoStmt, Continue("")),
               Try(Try(Endlessly, NoStmt, Throw("t")), Empty, NoStmt)}
Swallowed == {Block(<<s, Expr("z")>>) : s \in {CallOf(Block(<<Endlessly>>)),
                                               Try(Endlessly, NoStmt, Expr("f"))}}
             \cup {Block(<<While("w", s), Expr("z")>>) : s \in Swallowing}

MCPrograms == Nested \cup Guarded \cup Functions \cup Switches \cup Others
              \cup Interruptions \cup Swallowed

\* A clause in front of the default clause that runs to its end.
FallsThrough == {Block(<<Switch("n", <<Case("1", <<Expr("p")>>)>>, Block(<<Expr("q")>>),
                                <<Case("2", <<Expr("r")>>)>>)>>)}
\* A statement with two labels.
TwoLabels == {Block(<<Labelled("L", Labelled("M", While("w", Continue("L")))), Expr("z")>>)}
\* Looking for the names of an expression that throws.
NoNames == {Block(<<Try(Block(<<Empty, ForIn("x", "o", Empty)>>), Block(<<Expr("h")>>), NoStmt), Expr("z")>>)}
\* The programs with which the interpreter leaves the language definition.
CornerPrograms == FallsThrough \cup TwoLabels \cup NoNames
=============================================================================
