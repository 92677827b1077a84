----------------------------- MODULE Statements -----------------------------
(***************************************************************************)
(* The statement half of the interpreter: the execute() methods of         *)
(* src/kjs/nodes.cpp, which walk the syntax tree by recursion, the         *)
(* Completion that each of them returns, the Context that keeps the depth  *)
(* of loops, switches, labels and scopes, the pending exception of         *)
(* ExecState, calls of functions, and the check that interrupts a script   *)
(* that runs too long.                                                     *)
(*                                                                         *)
(* A frame of "stack" is an execute() that is under way: its statement s,  *)
(* the place pc it goes on from, a counter i and a completion c it keeps.  *)
(* "ret" is the completion that the callee has just returned.              *)
(*                                                                         *)
(* Expressions are abstract.  Each evaluation has one of the Outcomes:     *)
(* true, false, "throw" (an exception is pending and its value is          *)
(* returned) or "quiet" (an exception is pending and undefined is          *)
(* returned, what KJS_CHECKEXCEPTIONVALUE does).  The name of the          *)
(* expression stands for the value of the exception.  Evaluations are      *)
(* kept in "hist", which is compared with the language definition.         *)
(*                                                                         *)
(* Left out: the values of normal completions, the debugger's break        *)
(* points, and exhaustion of memory (Collector::isOutOfMemory).            *)
(***************************************************************************)
EXTENDS Naturals, Sequences, SequencesExt, FiniteSets

CONSTANTS Programs,        \* the syntax trees to run
          Outcomes,        \* what an evaluation may come to
          MaxEvents,       \* bound: evaluations in a history
          MaxNames,        \* bound: properties that a for-in enumerates
          TimeCheckCount,  \* checks between two looks at the clock
          CounterRange     \* the number of values of m_timeoutCheckCount

ASSUME OutcomesAssumption == Outcomes \subseteq {"true", "false", "throw", "quiet"}
ASSUME TimerAssumption == TimeCheckCount \in 1 .. CounterRange - 1

VARIABLES program, stack, ret, ctx, hist, checker, lenient, ticks, late

timer == <<ticks, late>>
vars == <<program, stack, ret, ctx, hist, checker, lenient, ticks, late>>

Ecma == INSTANCE EcmaStatements
NoExpr == Ecma!NoExpr
NoStmt == Ecma!NoStmt

-----------------------------------------------------------------------------
\* Completions, contexts and frames.

None == "none"
Completion(type, to, val) == [type |-> type, to |-> to, val |-> val]
Nothing == Completion("none", "", "")
NormalCompletion == Completion("normal", "", "")
Thrown(v) == Completion("throw", "", v)

Context(code, exc) ==
    [code |-> code, iter |-> 0, switch |-> 0, labels |-> <<>>, scope |-> 0, exc |-> exc]

Frame(s) == [s |-> s, pc |-> "start", i |-> 0, c |-> Nothing]

Top == Last(stack)
Cur == Last(ctx)
At(k, pc) == stack # <<>> /\ Top.s.k = k /\ Top.pc = pc

SetContext(r) == ctx' = Append(Front(ctx), r)

\* The frame calls execute() of a child, goes on itself, or returns; r is
\* the context after it.
Call(f, child, r) ==
    /\ stack' = Front(stack) \o <<f, Frame(child)>>
    /\ ret' = Nothing
    /\ SetContext(r)
GoOn(f, r) ==
    /\ stack' = Append(Front(stack), f)
    /\ ret' = Nothing
    /\ SetContext(r)
Return(c, r) ==
    /\ stack' = Front(stack)
    /\ ret' = c
    /\ SetContext(r)

\* KJS_CHECKEXCEPTION with the exception exc.
ReturnThrow(exc, r) == Return(Thrown(exc), [r EXCEPT !.exc = None])

\* The evaluation of e is seen by the world.
Observe(e, o) ==
    IF checker \/ e = NoExpr THEN UNCHANGED hist
    ELSE /\ Len(hist) < MaxEvents
         /\ hist' = Append(hist, [e |-> e, o |-> IF o = "quiet" THEN "throw" ELSE o])

OutcomesOf(e) == IF e = NoExpr THEN {"true"} ELSE Outcomes

\* The exception that is pending after an evaluation of e with outcome o.
Pending(e, o) == IF o \in {"throw", "quiet"} THEN e ELSE Cur.exc

\* v = e->evaluate(exec); KJS_CHECKEXCEPTION; Use.
Evaluate(e, Use(_)) ==
    \E o \in OutcomesOf(e) :
        /\ Observe(e, o)
        /\ IF Pending(e, o) # None /\ e # NoExpr THEN ReturnThrow(Pending(e, o), Cur)
           ELSE Use(o)

PushIteration == [Cur EXCEPT !.iter = @ + 1]
PopIteration == [Cur EXCEPT !.iter = @ - 1]
PushScope == [Cur EXCEPT !.scope = @ + 1]
PopScope == [Cur EXCEPT !.scope = @ - 1]

\* LabelStack::contains: the empty label is in every stack.
InLabels(labels, id) == id = "" \/ id \in labels

\* The parser's LabelNode: the label is pushed to the statement it is put on,
\* and to that one alone.
Labelled(name, s) ==
    [k |-> "label", ls |-> {}, name |-> name, body |-> [s EXCEPT !.ls = @ \cup {name}]]

-----------------------------------------------------------------------------
\* Interpreter::handleTimeout asks shouldInterruptScript, which is true unless a
\* subclass, here a lenient one, answers otherwise.
Interrupts == {TRUE, ~lenient}

\* Interpreter::checkTimeout answers stop.  The clock is looked at each time the counter,
\* which nobody initializes, comes to TimeCheckCount; "late" says that more
\* than m_timeoutTime has passed since the start time.  A subclass may cancel
\* the script when it is not late (shouldStopExecution).  The start time is set
\* anew even if the script goes on.
CheckTimeout(stop) ==
    LET n == (ticks + 1) % CounterRange
    IN  \/ /\ ~checker /\ ~stop
           /\ UNCHANGED timer
        \/ /\ checker /\ n # TimeCheckCount /\ ~stop
           /\ ticks' = n /\ UNCHANGED late
        \/ /\ checker /\ n = TimeCheckCount
           /\ \E cancel \in BOOLEAN, interrupt \in Interrupts :
                  stop = ((late \/ cancel) /\ interrupt)
           /\ ticks' = 0 /\ late' = FALSE

Interrupted == Completion("interrupted", "", "")

-----------------------------------------------------------------------------
\* Statements without a body.

EmptyStatementNode ==
    /\ At("empty", "start")
    /\ Return(NormalCompletion, Cur)
    /\ UNCHANGED <<hist, timer>>

ExprStatementNode ==
    /\ At("expr", "start")
    /\ Evaluate(Top.s.e, LAMBDA o : Return(NormalCompletion, Cur))
    /\ UNCHANGED timer

SyntaxErrorThrown == Thrown("SyntaxError")

ContinueNode ==
    /\ At("continue", "start")
    /\ LET to == Top.s.to
           ok == IF to = "" THEN Cur.iter > 0 ELSE InLabels(ToSet(Cur.labels), to)
       IN  Return(IF ok THEN Completion("continue", to, "") ELSE SyntaxErrorThrown, Cur)
    /\ UNCHANGED <<hist, timer>>

BreakNode ==
    /\ At("break", "start")
    /\ LET to == Top.s.to
           ok == IF to = "" THEN Cur.iter > 0 \/ Cur.switch > 0
                 ELSE InLabels(ToSet(Cur.labels), to)
       IN  Return(IF ok THEN Completion("break", to, "") ELSE SyntaxErrorThrown, Cur)
    /\ UNCHANGED <<hist, timer>>

ReturnNode ==
    /\ At("return", "start")
    /\ IF Cur.code # "function"
       THEN Return(SyntaxErrorThrown, Cur) /\ UNCHANGED hist
       ELSE Evaluate(Top.s.e, LAMBDA o : Return(Completion("return", "", Top.s.e), Cur))
    /\ UNCHANGED timer

ThrowNode ==
    /\ At("throw", "start")
    /\ Evaluate(Top.s.e, LAMBDA o : Return(Thrown(Top.s.e), Cur))
    /\ UNCHANGED timer

-----------------------------------------------------------------------------
\* Statements with a body that runs once.

\* BlockNode and SourceElementsNode.  The exception is looked for before and
\* after the first statement only.
BlockNode ==
    /\ LET src == Top.s.src
           n   == Top.i
       IN  \/ /\ At("block", "start")
              /\ IF src = <<>> THEN Return(NormalCompletion, Cur)
                 ELSE IF Cur.exc # None THEN ReturnThrow(Cur.exc, Cur)
                 ELSE Call([Top EXCEPT !.pc = "body", !.i = 1], src[1], Cur)
           \/ /\ At("block", "body")
              /\ IF n = 1 /\ Cur.exc # None THEN ReturnThrow(Cur.exc, Cur)
                 ELSE IF ret.type # "normal" \/ n = Len(src) THEN Return(ret, Cur)
                 ELSE Call([Top EXCEPT !.i = n + 1], src[n + 1], Cur)
    /\ UNCHANGED <<hist, timer>>

IfNode ==
    \/ /\ At("if", "start")
       /\ Evaluate(Top.s.e,
                   LAMBDA o : LET next == IF o = "true" THEN Top.s.yes ELSE Top.s.no IN
                              IF next = NoStmt THEN Return(NormalCompletion, Cur)
                              ELSE Call([Top EXCEPT !.pc = "body"], next, Cur))
       /\ UNCHANGED timer
    \/ /\ At("if", "body")
       /\ Return(ret, Cur)
       /\ UNCHANGED <<hist, timer>>

\* (Mutant: the scope stays when the statement ends in a jump.)
WithNodeLeavesScope ==
    \/ /\ At("with", "start")
       /\ Evaluate(Top.s.e,
                   LAMBDA o : Call([Top EXCEPT !.pc = "body"], Top.s.body, PushScope))
       /\ UNCHANGED timer
    \/ /\ At("with", "body")
       /\ Return(ret, IF ret.type = "normal" THEN PopScope ELSE Cur)
       /\ UNCHANGED <<hist, timer>>

WithNode ==
    \/ /\ At("with", "start")
       /\ Evaluate(Top.s.e,
                   LAMBDA o : Call([Top EXCEPT !.pc = "body"], Top.s.body, PushScope))
       /\ UNCHANGED timer
    \/ /\ At("with", "body")
       /\ Return(ret, PopScope)
       /\ UNCHANGED <<hist, timer>>

LabelNode ==
    /\ \/ /\ At("label", "start")
          /\ IF InLabels(ToSet(Cur.labels), Top.s.name)
             THEN Return(SyntaxErrorThrown, Cur)
             ELSE Call([Top EXCEPT !.pc = "body"], Top.s.body,
                       [Cur EXCEPT !.labels = Append(@, Top.s.name)])
       \/ /\ At("label", "body")
          /\ Return(IF ret.type = "break" /\ ret.to = Top.s.name
                    THEN NormalCompletion ELSE ret,
                    [Cur EXCEPT !.labels = Front(@)])
    /\ UNCHANGED <<hist, timer>>

\* The finally block runs whatever c is, and replaces it unless it ends
\* normally.
Finally(c, r) ==
    IF Top.s.fin = NoStmt THEN Return(c, r)
    ELSE Call([Top EXCEPT !.pc = "finally", !.c = c], Top.s.fin, r)

TryNode ==
    /\ \/ /\ At("try", "start")
          /\ Call([Top EXCEPT !.pc = "body"], Top.s.body, Cur)
       \/ /\ At("try", "body")
          /\ IF Top.s.catch # NoStmt /\ ret.type = "throw"
             THEN Call([Top EXCEPT !.pc = "catch"], Top.s.catch, PushScope)
             ELSE Finally(ret, Cur)
       \/ /\ At("try", "catch")
          /\ Finally(ret, PopScope)
       \/ /\ At("try", "finally")
          /\ Return(IF ret.type # "normal" THEN ret ELSE Top.c, Cur)
    /\ UNCHANGED <<hist, timer>>

-----------------------------------------------------------------------------
\* Loops.

\* (Mutant: a jump without a label and one with another label are the same.)
ToAnyLoop(type) == ret.type = type

ToThisLoop(type) == ret.type = type /\ InLabels(Top.s.ls, ret.to)

\* What a loop does with the completion of its body: Again is the next
\* round.
LoopCompletion(Again, r) ==
    IF ToThisLoop("continue") THEN Again
    ELSE IF ToThisLoop("break") THEN Return(NormalCompletion, r)
    ELSE IF ret.type # "normal" THEN Return(ret, r)
    ELSE Again

\* (Mutant: the loop is not entered in the context.)
RunBodyUncounted == Call([Top EXCEPT !.pc = "body"], Top.s.body, Cur)

RunBody == Call([Top EXCEPT !.pc = "body"], Top.s.body, PushIteration)

\* The exception is looked for at the head of each round, the clock is
\* looked at before the completion of the body.
DoWhileNode ==
    \/ /\ At("do", "start")
       /\ IF Cur.exc # None THEN ReturnThrow(Cur.exc, Cur) ELSE RunBody
       /\ UNCHANGED <<hist, timer>>
    \/ /\ At("do", "body")
       /\ \E stop \in BOOLEAN :
              /\ CheckTimeout(stop)
              /\ IF stop THEN Return(Interrupted, PopIteration)
                 ELSE LoopCompletion(GoOn([Top EXCEPT !.pc = "test"], PopIteration), PopIteration)
       /\ UNCHANGED hist
    \/ /\ At("do", "test")
       /\ Evaluate(Top.s.e,
                   LAMBDA o : IF o = "true" THEN GoOn([Top EXCEPT !.pc = "start"], Cur)
                              ELSE Return(NormalCompletion, Cur))
       /\ UNCHANGED timer

\* (Mutant: a continue goes to the next round past the clock.)
WhileNodeContinuesUnchecked ==
    \/ /\ At("while", "start")
       /\ Evaluate(Top.s.e, LAMBDA o : IF o = "true" THEN RunBody
                                       ELSE Return(NormalCompletion, Cur))
       /\ UNCHANGED timer
    \/ /\ At("while", "body")
       /\ IF ToThisLoop("continue")
          THEN GoOn([Top EXCEPT !.pc = "start"], PopIteration) /\ UNCHANGED timer
          ELSE \E stop \in BOOLEAN :
                 /\ CheckTimeout(stop)
                 /\ IF stop THEN Return(Interrupted, PopIteration)
                    ELSE LoopCompletion(GoOn([Top EXCEPT !.pc = "start"], PopIteration), PopIteration)
       /\ UNCHANGED hist

WhileNode ==
    \/ /\ At("while", "start")
       /\ Evaluate(Top.s.e, LAMBDA o : IF o = "true" THEN RunBody
                                       ELSE Return(NormalCompletion, Cur))
       /\ UNCHANGED timer
    \/ /\ At("while", "body")
       /\ \E stop \in BOOLEAN :
              /\ CheckTimeout(stop)
              /\ IF stop THEN Return(Interrupted, PopIteration)
                 ELSE LoopCompletion(GoOn([Top EXCEPT !.pc = "start"], PopIteration), PopIteration)
       /\ UNCHANGED hist

\* The completion comes first here, and the clock only if there is another
\* round.
ForNode ==
    \/ /\ At("for", "start")
       /\ Evaluate(Top.s.e1, LAMBDA o : GoOn([Top EXCEPT !.pc = "test"], Cur))
       /\ UNCHANGED timer
    \/ /\ At("for", "test")
       /\ Evaluate(Top.s.e2, LAMBDA o : IF o = "false" THEN Return(NormalCompletion, Cur)
                                        ELSE IF Cur.exc # None THEN ReturnThrow(Cur.exc, Cur)
                                        ELSE RunBody)
       /\ UNCHANGED timer
    \/ /\ At("for", "body")
       /\ \/ /\ ret.type = "normal" \/ ToThisLoop("continue")
             /\ \E stop \in BOOLEAN :
                    /\ CheckTimeout(stop)
                    /\ IF stop THEN Return(Interrupted, PopIteration)
                       ELSE GoOn([Top EXCEPT !.pc = "step"], PopIteration)
          \/ /\ ret.type # "normal" /\ ~ToThisLoop("continue")
             /\ Return(IF ToThisLoop("break") THEN NormalCompletion ELSE ret, PopIteration)
             /\ UNCHANGED timer
       /\ UNCHANGED hist
    \/ /\ At("for", "step")
       /\ Evaluate(Top.s.e3, LAMBDA o : GoOn([Top EXCEPT !.pc = "test"], Cur))
       /\ UNCHANGED timer

\* The list of names is made once.  An expression that throws and yields
\* undefined is taken for a value that has no names, before the exception is
\* looked for.
ForInNode ==
    \/ /\ At("forin", "start")
       /\ \E o \in Outcomes :
            /\ Observe(Top.s.e, o)
            /\ IF o = "quiet" THEN Return(NormalCompletion, [Cur EXCEPT !.exc = Top.s.e])
               ELSE IF Pending(Top.s.e, o) # None THEN ReturnThrow(Pending(Top.s.e, o), Cur)
               ELSE GoOn([Top EXCEPT !.pc = "next"], Cur)
       /\ UNCHANGED timer
    \/ /\ At("forin", "next")
       /\ Evaluate(Top.s.lhs,
                   LAMBDA o : IF o = "false" THEN Return(NormalCompletion, Cur)
                              ELSE /\ Top.i < MaxNames
                                   /\ Call([Top EXCEPT !.pc = "body", !.i = @ + 1],
                                           Top.s.body, PushIteration))
       /\ UNCHANGED timer
    \/ /\ At("forin", "body")
       /\ IF ToThisLoop("break") /\ Cur.exc # None THEN ReturnThrow(Cur.exc, PopIteration)
          ELSE LoopCompletion(GoOn([Top EXCEPT !.pc = "next"], PopIteration), PopIteration)
       /\ UNCHANGED <<hist, timer>>

-----------------------------------------------------------------------------
\* SwitchNode and CaseBlockNode.  A clause that has been found runs with the
\* rest of its list; the list after the default clause is searched for
\* another match when the first list has been run to its end, too.

Leave(c, r) ==
    Return(IF c.type = "break" /\ InLabels(Top.s.ls, c.to) THEN NormalCompletion ELSE c,
           [r EXCEPT !.switch = @ - 1])
LeaveThrowing(exc) == Leave(Thrown(exc), [Cur EXCEPT !.exc = None])
LeaveAtEnd ==
    IF Cur.exc # None THEN LeaveThrowing(Cur.exc) ELSE Leave(NormalCompletion, Cur)

\* Run the i-th clause of a list.
RunClause(clauses, i, pc) == Call([Top EXCEPT !.pc = pc, !.i = i], clauses[i].body, Cur)

\* Try the i-th clause of a list, the first that has not been tried.
TryClause(clauses, i, pc) ==
    \E o \in Outcomes :
        /\ Observe(clauses[i].e, o)
        /\ IF Pending(clauses[i].e, o) # None THEN LeaveThrowing(Pending(clauses[i].e, o))
           ELSE IF o = "true" THEN RunClause(clauses, i, pc)
           ELSE GoOn([Top EXCEPT !.i = i], Cur)

SwitchNode ==
    \/ /\ At("switch", "start")
       /\ Evaluate(Top.s.e, LAMBDA o : GoOn([Top EXCEPT !.pc = "findA"],
                                            [Cur EXCEPT !.switch = @ + 1]))
       /\ UNCHANGED timer
    \/ /\ At("switch", "findA")
       /\ IF Top.i < Len(Top.s.a) THEN TryClause(Top.s.a, Top.i + 1, "runA")
          ELSE GoOn([Top EXCEPT !.pc = "findB", !.i = 0], Cur) /\ UNCHANGED hist
       /\ UNCHANGED timer
    \/ /\ At("switch", "runA")
       /\ IF ret.type # "normal" THEN Leave(ret, Cur)
          ELSE IF Top.i < Len(Top.s.a) THEN RunClause(Top.s.a, Top.i + 1, "runA")
          ELSE GoOn([Top EXCEPT !.pc = "findB", !.i = 0], Cur)
       /\ UNCHANGED <<hist, timer>>
    \/ /\ At("switch", "findB")
       /\ IF Top.i < Len(Top.s.b) THEN TryClause(Top.s.b, Top.i + 1, "runB")
          ELSE /\ IF Top.s.d = NoStmt THEN LeaveAtEnd
                  ELSE Call([Top EXCEPT !.pc = "runB", !.i = 0], Top.s.d, Cur)
               /\ UNCHANGED hist
       /\ UNCHANGED timer
    \/ /\ At("switch", "runB")
       /\ IF ret.type # "normal" THEN Leave(ret, Cur)
          ELSE IF Top.i < Len(Top.s.b) THEN RunClause(Top.s.b, Top.i + 1, "runB")
          ELSE LeaveAtEnd
       /\ UNCHANGED <<hist, timer>>

-----------------------------------------------------------------------------
\* FunctionImp::callAsFunction, in an expression statement.  Of the ways a
\* body can end, only an exception reaches the caller as what it is.

FunctionCall ==
    /\ \/ /\ At("call", "start")
          /\ stack' = Front(stack) \o <<[Top EXCEPT !.pc = "body"], Frame(Top.s.body)>>
          /\ ret' = Nothing
          /\ ctx' = Append(ctx, Context("function", Cur.exc))
       \/ /\ At("call", "body")
          /\ LET comp   == IF Cur.exc # None THEN Thrown(Cur.exc) ELSE ret
                 caller == ctx[Len(ctx) - 1]
                 exc    == IF comp.type = "throw" THEN comp.val ELSE caller.exc
             IN  /\ stack' = Front(stack)
                 /\ ret' = IF exc # None THEN Thrown(exc) ELSE NormalCompletion
                 /\ ctx' = Append(Front(Front(ctx)), [caller EXCEPT !.exc = None])
    /\ UNCHANGED <<hist, timer>>

-----------------------------------------------------------------------------
\* Interpreter::evaluate of a program that has been parsed, with a timeout
\* check started or not.
Init ==
    /\ program \in Programs
    /\ stack = <<Frame(program)>>
    /\ ret = Nothing
    /\ ctx = <<Context("global", None)>>
    /\ hist = <<>>
    /\ checker \in BOOLEAN
    /\ lenient \in {FALSE, checker}
    /\ ticks \in IF checker THEN 0 .. CounterRange - 1 ELSE {0}
    /\ late = FALSE

Execute ==
    \/ EmptyStatementNode \/ ExprStatementNode \/ ContinueNode \/ BreakNode
    \/ ReturnNode \/ ThrowNode \/ BlockNode \/ IfNode \/ WithNode \/ LabelNode
    \/ TryNode \/ DoWhileNode \/ WhileNode \/ ForNode \/ ForInNode \/ SwitchNode
    \/ FunctionCall

Step == Execute /\ UNCHANGED <<program, checker, lenient>>

\* m_timeoutTime passes.
ClockPasses ==
    /\ checker /\ stack # <<>> /\ ~late
    /\ late' = TRUE
    /\ UNCHANGED <<program, stack, ret, ctx, hist, checker, lenient, ticks>>

Next == Step \/ ClockPasses

\* The thread that runs the script is not stopped, and time goes on.
Fairness == WF_vars(Step) /\ WF_vars(ClockPasses)

Spec == Init /\ [][Next]_vars /\ Fairness

-----------------------------------------------------------------------------
Kinds == {"empty", "expr", "call", "block", "if", "do", "while", "for", "forin", "continue",
          "break", "return", "with", "switch", "label", "throw", "try"}
CompletionTypes == {"none", "normal", "break", "continue", "return", "throw", "interrupted"}

TypeOK ==
    /\ program \in Programs
    /\ \A n \in DOMAIN stack : stack[n].s.k \in Kinds /\ stack[n].i \in Nat
    /\ ret.type \in CompletionTypes
    /\ ctx # <<>>
    /\ \A n \in DOMAIN ctx : ctx[n].iter \in Nat /\ ctx[n].switch \in Nat /\ ctx[n].scope \in Nat
    /\ Len(hist) <= MaxEvents
    /\ checker \in BOOLEAN
    /\ lenient => checker
    /\ ticks \in 0 .. CounterRange - 1
    /\ late \in BOOLEAN

\* The frames of the n-th context: those under way in the n-th function.
Calls == {n \in DOMAIN stack : stack[n].s.k = "call" /\ stack[n].pc = "body"}
FramesOf(n) ==
    {m \in DOMAIN stack : m \notin Calls /\ Cardinality({c \in Calls : c < m}) = n - 1}

\* Each Context counts the loops, switches, labels and scopes of its function
\* that are open, and no others: whichever way the statements in them ended,
\* by a jump, an exception, an interruption or the end of a function.  When
\* the program has ended, all are closed.
ContextExact ==
    /\ Len(ctx) = Cardinality(Calls) + 1
    /\ \A n \in DOMAIN ctx :
         LET In(kinds, pcs) == {m \in FramesOf(n) : stack[m].s.k \in kinds /\ stack[m].pc \in pcs}
         IN  /\ ctx[n].iter = Cardinality(In({"do", "while", "for", "forin"}, {"body"}))
             /\ ctx[n].switch = Cardinality(In({"switch"}, {"findA", "runA", "findB", "runB"}))
             /\ ctx[n].scope = Cardinality(In({"with"}, {"body"}) \cup In({"try"}, {"catch"}))
             /\ ToSet(ctx[n].labels) = {stack[m].s.name : m \in In({"label"}, {"body"})}
             /\ Len(ctx[n].labels) = Cardinality(In({"label"}, {"body"}))

\* The interpreter evaluates the expressions that ECMA-262 says are evaluated,
\* in the order it says, and ends with the completion it says: in every
\* prefix of a run, whatever the expressions yield or throw.
MeetsEcma ==
    ~checker =>
        LET r == Ecma!Run(program, hist) IN
        /\ r.type # "refuted"
        /\ r.n = Len(hist)
        /\ stack = <<>> => /\ ret.type = r.type
                           /\ ret.to = r.to
                           /\ r.type \in {"throw", "return"} => ret.val = r.val

\* The statements that s is made of, those in the functions it calls included.
Parts(s) ==
    {p \in CASE s.k = "block"  -> ToSet(s.src)
             [] s.k = "if"     -> {s.yes, s.no}
             [] s.k = "try"    -> {s.body, s.catch, s.fin}
             [] s.k = "switch" -> {s.d} \cup {clause.body : clause \in ToSet(s.a \o s.b)}
             [] s.k \in {"do", "while", "for", "forin", "with", "label", "call"} -> {s.body}
             [] OTHER -> {} : p # NoStmt}
RECURSIVE Within(_)
Within(s) == {s} \cup UNION {Within(p) : p \in Parts(s)}

\* Statements that may go on for ever.
Endless(s) == s.k \in {"do", "while", "for"}
MayLast(s) == \E p \in Within(s) : Endless(p)

\* An interruption inside of s may come out of it as something else: a call ends
\* normally, and the finally block of a try statement replaces the completion
\* when it ends in a jump or throws.
Swallows(s) ==
    \/ s.k = "call" /\ MayLast(s)
    \/ /\ s.k = "try" /\ s.fin # NoStmt
       /\ \E p \in {s.body, s.catch} \ {NoStmt} : MayLast(p)
       /\ \E p \in Within(s.fin) : p.k \notin {"empty", "block"}

\* No loop goes round again after what has swallowed an interruption.
Interruptible ==
    {p \in Programs :
        \A loop \in Within(p) : Endless(loop) => \A s \in Within(loop.body) : ~Swallows(s)}

\* An interruptible script that runs under a timeout check comes to its end even
\* if the conditions of its loops are true for ever, unless the embedder lets it
\* go on.
ScriptEnds == (checker /\ ~lenient /\ program \in Interruptible) ~> (stack = <<>>)
=============================================================================
