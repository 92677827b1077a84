------------------------------ MODULE SyntaxTree ------------------------------
(***************************************************************************)
(* Who owns the nodes of syntax trees: Node::ref, deref and clearNewNodes  *)
(* of src/kjs/nodes.cpp, the constructors of src/kjs/nodes.h, and          *)
(* Parser::parse of src/kjs/Parser.cpp.                                    *)
(*                                                                         *)
(* A node is born in the set newNodes with no reference.  The first        *)
(* reference takes it out of the set, those that follow are counted in     *)
(* nodeExtraRefCounts, the last one to go deletes the node.  The parser    *)
(* keeps plain pointers on its stack; what is left in newNodes at the end  *)
(* of a parse is deleted.  A list is built as a ring, the pointer on the   *)
(* stack being its last node.  A ring keeps itself alive, so its first     *)
(* node is noted in nodeCycles until the list is closed.                   *)
(*                                                                         *)
(* The grammar is abstract: any reduction may follow any other, and the    *)
(* kinds of nodes are three: those with pointers to children, nodes of     *)
(* lists, and those made in the place of another (makeAssignNode).  "next" *)
(* is the link of a list, also counted.                                    *)
(***************************************************************************)
EXTENDS Integers, SequencesExt

CONSTANTS Nodes,     \* addresses of nodes
          MaxStack,  \* bound: values on the stack of the parser
          MaxHeld    \* bound: references from outside to one node

ASSUME SyntaxTreeAssumption == Nodes \subseteq Nat \ {0}

VARIABLES node,       \* the memory: nodes and the sets newNodes, nodeExtraRefCounts
          cycles,     \* nodeCycles
          stack,      \* what kjsyyparse has on its stack
          prog,       \* progNode
          phase,      \* "idle", "parsing" or "aborted"
          held,       \* RefPtrs of functions and programs to each node
          freedTwice  \* a node was released that is not referenced

vars == <<node, cycles, stack, prog, phase, held, freedTwice>>

Null == 0
NoNode == [alive |-> FALSE, fresh |-> FALSE, extra |-> 0, kids |-> <<>>, next |-> Null]

Alive == {n \in Nodes : node[n].alive}

Init ==
    /\ node = [n \in Nodes |-> NoNode]
    /\ cycles = {}
    /\ stack = <<>>
    /\ prog = Null
    /\ phase = "idle"
    /\ held = [n \in Nodes |-> 0]
    /\ freedTwice = FALSE

-----------------------------------------------------------------------------
\* The memory is passed through the functions as a record.

Memory == [node |-> node, freedTwice |-> freedTwice]
SetMemory(M) == node' = M.node /\ freedTwice' = M.freedTwice

\* (Mutant: the first reference is counted, and the node stays a new one.)
RefLeavingNew(M, n) == IF n = Null THEN M ELSE [M EXCEPT !.node[n].extra = @ + 1]

\* Node::ref.
Ref(M, n) ==
    IF n = Null THEN M
    ELSE IF M.node[n].fresh THEN [M EXCEPT !.node[n].fresh = FALSE]
    ELSE [M EXCEPT !.node[n].extra = @ + 1]

RefAll(M, s) == FoldLeft(Ref, M, s)

\* Node::deref, and the destructor, which releases the children and the link.
RECURSIVE Deref(_, _)
Delete(M, n) ==
    FoldLeft(Deref, [M EXCEPT !.node[n] = NoNode], Append(M.node[n].kids, M.node[n].next))
Deref(M, n) ==
    IF n = Null THEN M
    ELSE IF M.node[n].fresh \/ ~M.node[n].alive THEN [M EXCEPT !.freedTwice = TRUE]
    ELSE IF M.node[n].extra > 0 THEN [M EXCEPT !.node[n].extra = @ - 1]
    ELSE Delete(M, n)

\* The constructor of a node with the given children and link, whose RefPtrs
\* take a reference each.
New(M, n, kids, next) ==
    RefAll([M EXCEPT !.node[n] =
                [alive |-> TRUE, fresh |-> TRUE, extra |-> 0, kids |-> kids, next |-> next]],
           Append(kids, next))

\* l->next = m.
SetNext(M, l, m) ==
    LET old == M.node[l].next
    IN  Deref([Ref(M, m) EXCEPT !.node[l].next = m], old)

-----------------------------------------------------------------------------
\* The parser.

Fresh == CHOOSE n \in Nodes \ Alive : TRUE
Parsing == phase = "parsing"
CanMake == Parsing /\ prog = Null /\ Alive # Nodes

Top == Last(stack)
IsNode(x) == x.kind = "node"
IsList(x) == x.kind = "list"
Push(rest, kind, n) == stack' = Append(rest, [kind |-> kind, node |-> n])
Popped(k) == SubSeq(stack, 1, Len(stack) - k)

StartParse ==
    /\ phase = "idle"
    /\ phase' = "parsing"
    /\ UNCHANGED <<node, cycles, stack, prog, held, freedTwice>>

\* A node whose children are the k values on the top of the stack.
MakeNode(k) ==
    /\ CanMake /\ Len(stack) >= k /\ Len(stack) - k < MaxStack
    /\ \A i \in 1 .. k : IsNode(stack[Len(stack) - k + i])
    /\ SetMemory(New(Memory, Fresh, [i \in 1 .. k |-> stack[Len(stack) - k + i].node], Null))
    /\ Push(Popped(k), "node", Fresh)
    /\ UNCHANGED <<cycles, prog, phase, held>>

\* makeAssignNode, makePrefixNode, makeFunctionCallNode ...: the new node takes
\* the children of the one it replaces, which may be in parentheses, and those of
\* k further values.  The old one stays in newNodes, or in the parentheses.
ReplaceNode(k) ==
    /\ CanMake /\ Len(stack) > k
    /\ \A i \in Len(stack) - k .. Len(stack) : IsNode(stack[i])
    /\ LET loc == stack[Len(stack) - k].node
           more == [i \in 1 .. k |-> stack[Len(stack) - k + i].node]
       IN  \E n \in {loc} \cup (IF Len(node[loc].kids) = 1 THEN ToSet(node[loc].kids) ELSE {}) :
              SetMemory(New(Memory, Fresh, node[n].kids \o more, Null))
    /\ Push(Popped(k + 1), "node", Fresh)
    /\ UNCHANGED <<cycles, prog, phase, held>>

\* The node of the element on the top of the stack, if there is one.
Elements == {<<>>} \cup (IF stack # <<>> /\ IsNode(Top) THEN {<<Top.node>>} ELSE {})

\* (Mutant: the cycle is not noted.)
StartListUnnoted ==
    \E kids \in Elements :
        /\ CanMake /\ Len(stack) - Len(kids) < MaxStack
        /\ SetMemory(New(Memory, Fresh, kids, Fresh))
        /\ Push(Popped(Len(kids)), "list", Fresh)
        /\ UNCHANGED <<cycles, prog, phase, held>>

\* ElementNode(e, n), ArgumentListNode(e), SourceElementsNode(s) ...
StartList ==
    \E kids \in Elements :
        /\ CanMake /\ Len(stack) - Len(kids) < MaxStack
        /\ SetMemory(New(Memory, Fresh, kids, Fresh))
        /\ Push(Popped(Len(kids)), "list", Fresh)
        /\ cycles' = cycles \cup {Fresh}
        /\ UNCHANGED <<prog, phase, held>>

\* ElementNode(l, e, n), ArgumentListNode(l, e) ...
AppendToList ==
    \E kids \in Elements :
        /\ CanMake /\ Len(stack) > Len(kids)
        /\ LET l == stack[Len(stack) - Len(kids)]
               M == New(Memory, Fresh, kids, node[l.node].next)
           IN  /\ IsList(l)
               /\ SetMemory(SetNext(M, l.node, Fresh))
        /\ Push(Popped(Len(kids) + 1), "list", Fresh)
        /\ UNCHANGED <<cycles, prog, phase, held>>

\* A list is known by its last node, the next of which is the first.
First(list) == node[list.node].next

\* A new node n takes the values of the parser as its children.  The last node of
\* each list releases the first to it.
Closed(n, values) ==
    LET ends == {x.node : x \in {y \in ToSet(values) : IsList(y)}}
        kids == [i \in DOMAIN values |->
                    IF IsList(values[i]) THEN First(values[i]) ELSE values[i].node]
        made == [NoNode EXCEPT !.alive = TRUE, !.fresh = TRUE, !.kids = kids]
        opened == [m \in Nodes |-> IF m = n THEN made
                                   ELSE IF m \in ends THEN [node[m] EXCEPT !.next = Null]
                                   ELSE node[m]]
        nodes == SelectSeq(values, IsNode)
    IN  RefAll([Memory EXCEPT !.node = opened], [i \in DOMAIN nodes |-> nodes[i].node])

\* (Mutant: the second list is still taken for a ring.)
CloseListsButOne(k) ==
    LET values == SubSeq(stack, Len(stack) - k + 1, Len(stack))
        lists == SelectSeq(values, IsList)
    IN  /\ CanMake /\ Len(stack) >= k /\ lists # <<>>
        /\ SetMemory(Closed(Fresh, values))
        /\ cycles' = cycles \ {First(lists[1])}
        /\ Push(Popped(k), "node", Fresh)
        /\ UNCHANGED <<prog, phase, held>>

\* CaseBlockNode, with up to two lists; ArrayNode, ArgumentsNode, BlockNode; and
\* with further children CaseClauseNode, FuncDeclNode ...
CloseLists(k) ==
    LET values == SubSeq(stack, Len(stack) - k + 1, Len(stack))
        lists == SelectSeq(values, IsList)
    IN  /\ CanMake /\ Len(stack) >= k /\ lists # <<>>
        /\ SetMemory(Closed(Fresh, values))
        /\ cycles' = cycles \ {First(l) : l \in ToSet(lists)}
        /\ Push(Popped(k), "node", Fresh)
        /\ UNCHANGED <<prog, phase, held>>

\* Parser::accept.
Accept ==
    /\ Parsing /\ Len(stack) = 1 /\ IsNode(Top) /\ prog = Null
    /\ SetMemory(Ref(Memory, Top.node))
    /\ prog' = Top.node
    /\ stack' = <<>>
    /\ UNCHANGED <<cycles, phase, held>>

\* The recovery from an error drops the value on the top of the stack and goes
\* on with the "error" token (automatic semicolons); or the parse is aborted.
Recover ==
    /\ Parsing /\ prog = Null /\ stack # <<>>
    /\ stack' = Popped(1)
    /\ UNCHANGED <<node, cycles, prog, phase, held, freedTwice>>
Abort ==
    /\ Parsing
    /\ stack' = <<>>
    /\ phase' = "aborted"
    /\ UNCHANGED <<node, cycles, prog, held, freedTwice>>

\* clearNewNodes of the parser and of Node.
BreakCycle(n, M) ==
    Deref([M EXCEPT !.node[n].next = Null], M.node[n].next)
Cleared(M) ==
    LET B == FoldSet(BreakCycle, M, cycles)
        New1 == {n \in Nodes : B.node[n].fresh}
    IN  FoldSet(LAMBDA n, D : Delete(D, n), B, New1)

\* The end of Parser::parse.  A parse that was accepted fails if the lexer has
\* seen an error; then the program is dropped.
EndParse ==
    /\ phase = "aborted" \/ (Parsing /\ prog # Null)
    /\ \E fails \in {phase = "aborted", TRUE} :
         IF fails THEN SetMemory(Deref(Cleared(Memory), prog)) /\ UNCHANGED held
         ELSE SetMemory(Cleared(Memory)) /\ held' = [held EXCEPT ![prog] = @ + 1]
    /\ cycles' = {}
    /\ prog' = Null
    /\ stack' = <<>>
    /\ phase' = "idle"

-----------------------------------------------------------------------------
\* Between parses, programs run: functions take references to the bodies in
\* the trees, and references are dropped.

\* The nodes that can be reached from r.
Children(n) == (ToSet(node[n].kids) \cup {node[n].next}) \ {Null}
Below(roots) ==
    LET from[k \in 0 .. Cardinality(Nodes)] ==
            IF k = 0 THEN roots
            ELSE LET s == from[k - 1] IN s \cup UNION {Children(n) : n \in s}
    IN  from[Cardinality(Nodes)]

Holders == {n \in Nodes : held[n] > 0}

Hold(n) ==
    /\ phase = "idle" /\ n \in Below(Holders) /\ held[n] < MaxHeld
    /\ SetMemory(Ref(Memory, n))
    /\ held' = [held EXCEPT ![n] = @ + 1]
    /\ UNCHANGED <<cycles, stack, prog, phase>>

Drop(n) ==
    /\ phase = "idle" /\ held[n] > 0
    /\ SetMemory(Deref(Memory, n))
    /\ held' = [held EXCEPT ![n] = @ - 1]
    /\ UNCHANGED <<cycles, stack, prog, phase>>

Next ==
    \/ StartParse
    \/ \E k \in 0 .. 2 : MakeNode(k)
    \/ \E k \in 0 .. 1 : ReplaceNode(k)
    \/ \E k \in 1 .. 3 : CloseLists(k)
    \/ StartList \/ AppendToList
    \/ Accept \/ Recover \/ Abort \/ EndParse
    \/ \E n \in Nodes : Hold(n) \/ Drop(n)

Spec == Init /\ [][Next]_vars

-----------------------------------------------------------------------------
\* A node is new or counted, not both; a node that does not exist is neither.
TypeOK ==
    /\ \A n \in Nodes :
         /\ node[n].extra \in Nat
         /\ node[n].fresh => node[n].alive /\ node[n].extra = 0
         /\ ~node[n].alive => node[n] = NoNode
    /\ phase \in {"idle", "parsing", "aborted"}
    /\ cycles \subseteq Nodes
    /\ prog \in Nodes \cup {Null}
    /\ held \in [Nodes -> Nat]

\* The references to a node: children and links of other nodes (twice if twice
\* a child), the program, functions.
References(n) ==
    LET Refs(m) == Append(node[m].kids, node[m].next)
        Uses == UNION {{<<m, i>> : i \in {j \in DOMAIN Refs(m) : Refs(m)[j] = n}} : m \in Alive}
    IN  Cardinality(Uses) + held[n] + IF prog = n THEN 1 ELSE 0

\* The count of a node is that of the references to it, nothing is released
\* twice, and between parses nothing lives but what programs and functions
\* hold: no tree, whole or half built, is lost, however a parse ends.
NodesCounted ==
    /\ ~freedTwice
    /\ \A n \in Nodes : References(n) = IF node[n].alive /\ ~node[n].fresh THEN node[n].extra + 1 ELSE 0
    /\ phase = "idle" => Alive = Below(Holders) /\ cycles = {}

\* Clearing what a parse has left over, and dropping other references, changes
\* nothing in a tree that is held, before and after the step.
TreesKept ==
    [][\A n \in Below(Holders \cup ({prog} \ {Null})) :
          n \in Below(Holders)' => node'[n].kids = node[n].kids /\ node'[n].next = node[n].next]_vars
=============================================================================
