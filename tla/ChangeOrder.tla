---------------------------- MODULE ChangeOrder ----------------------------
(***************************************************************************)
(* cc-deps order: look for circles among the changes by a depth-first      *)
(* search, and if there is none put them in an order that their            *)
(* depends_on allows.                                                      *)
(*                                                                         *)
(* Python's sets and the queue that is filled from them have some order;   *)
(* here the next element is any.                                           *)
(***************************************************************************)
EXTENDS Integers, Sequences, FiniteSets

CONSTANTS
  Change,  \* the changes discovered
  Ghost    \* ids that depends_on may name and no change has

OrderAssumption == IsFiniteSet(Change) /\ IsFiniteSet(Ghost) /\ Change \cap Ghost = {}
ASSUME OrderParameters == OrderAssumption

VARIABLES
  dependsOn,  \* of each change
  mode,       \* searching, sorting, ended
  visited, stack, untried,  \* detect_cycles: stack of nodes, and what each has still to try
  cycles,     \* those found, as sequences
  inDegree, queue, order    \* topological_sort

orderVars == <<dependsOn, mode, visited, stack, untried, cycles, inDegree, queue, order>>

Node == Change \cup UNION {dependsOn[c] : c \in Change}

\* build_dependency_graph: from each dependency to its dependents
Dependents(n) == {c \in Change : n \in dependsOn[c]}

Elements(s) == {s[i] : i \in DOMAIN s}

OrderInit ==
  /\ dependsOn \in [Change -> SUBSET (Change \cup Ghost)]
  /\ mode = "searching"
  /\ visited = {} /\ stack = <<>> /\ untried = <<>> /\ cycles = {}
  /\ inDegree = [c \in Change |-> 0] /\ queue = {} /\ order = <<>>

sortVars == <<inDegree, queue, order>>

-----------------------------------------------------------------------------
\* detect_cycles

Visit(n) ==
  /\ visited' = visited \cup {n}
  /\ stack' = Append(stack, n)
  /\ untried' = Append(untried, Dependents(n))

VisitRoot ==
  /\ mode = "searching" /\ stack = <<>>
  /\ \E n \in Node \ visited : Visit(n)
  /\ UNCHANGED <<dependsOn, mode, cycles, sortVars>>

Top == Len(stack)
LessTried(n) == [untried EXCEPT ![Top] = @ \ {n}]
Position(n) == CHOOSE i \in DOMAIN stack : stack[i] = n

OnStackSlip(n) == n \in visited
OnStack(n) == n \in Elements(stack)

\* A neighbour on the stack closes a circle; one visited before is passed over.
CloseCycle(n) ==
  /\ OnStack(n)
  /\ cycles' = cycles \cup
       (IF n \in Elements(stack) THEN {Append(SubSeq(stack, Position(n), Top), n)} ELSE {<<n>>})
  /\ untried' = LessTried(n)
  /\ UNCHANGED <<visited, stack>>

Skip(n) ==
  /\ ~OnStack(n) /\ n \in visited
  /\ untried' = LessTried(n)
  /\ UNCHANGED <<visited, stack, cycles>>

Descend(n) ==
  /\ ~OnStack(n) /\ n \notin visited
  /\ visited' = visited \cup {n}
  /\ stack' = Append(stack, n)
  /\ untried' = Append(LessTried(n), Dependents(n))
  /\ UNCHANGED cycles

Try ==
  /\ mode = "searching" /\ stack # <<>>
  /\ \E n \in untried[Top] : CloseCycle(n) \/ Skip(n) \/ Descend(n)
  /\ UNCHANGED <<dependsOn, mode, sortVars>>

Return ==
  /\ mode = "searching" /\ stack # <<>> /\ untried[Top] = {}
  /\ stack' = SubSeq(stack, 1, Top - 1)
  /\ untried' = SubSeq(untried, 1, Top - 1)
  /\ UNCHANGED <<dependsOn, mode, visited, cycles, sortVars>>

-----------------------------------------------------------------------------
\* cc-deps order refuses where a circle was found; otherwise topological_sort.

Searched == mode = "searching" /\ stack = <<>> /\ Node \subseteq visited

searchVars == <<dependsOn, visited, stack, untried, cycles>>

Refuse ==
  /\ Searched /\ cycles # {}
  /\ mode' = "ended"
  /\ UNCHANGED <<searchVars, sortVars>>

BeginSort ==
  /\ Searched /\ cycles = {}
  /\ mode' = "sorting"
  /\ inDegree' = [c \in Change |-> Cardinality(dependsOn[c])]
  /\ queue' = {c \in Change : dependsOn[c] = {}}
  /\ UNCHANGED <<searchVars, order>>

Lowered(n) == [c \in Change |-> IF c \in Dependents(n) THEN inDegree[c] - 1 ELSE inDegree[c]]

\* A node of the queue comes next, and its dependents lose one dependency.
Pop(n) ==
  /\ mode = "sorting"
  /\ order' = Append(order, n)
  /\ inDegree' = Lowered(n)
  /\ queue' = (queue \ {n}) \cup {c \in Dependents(n) : inDegree'[c] = 0}
  /\ UNCHANGED <<searchVars, mode>>

EndSort ==
  /\ mode = "sorting" /\ queue = {}
  /\ mode' = "ended"
  /\ UNCHANGED <<searchVars, sortVars>>

OrderNext ==
  \/ VisitRoot \/ Try \/ Return \/ Refuse \/ BeginSort \/ EndSort
  \/ \E n \in queue : Pop(n)

OrderSpec == OrderInit /\ [][OrderNext]_orderVars

-----------------------------------------------------------------------------
\* Properties

\* The order is safe to follow: every change comes once, after all that it
\* depends on.
OrderIsSafe ==
  \A i \in DOMAIN order :
    /\ \A k \in DOMAIN order : order[k] = order[i] => k = i
    /\ \A d \in dependsOn[order[i]] : \E k \in 1..(i-1) : order[k] = d

\* The changes of S wait for one another, or for one that is not there.
WaitsFor(S, there) == S # {} /\ \A c \in S : dependsOn[c] \cap (S \cup there) # {}
Circle == \E S \in SUBSET Change : WaitsFor(S, {})
Stuck == UNION {S \in SUBSET Change : WaitsFor(S, Ghost)}

RealCycle(s) ==
  /\ Len(s) >= 2 /\ s[1] = s[Len(s)]
  /\ \A i \in 1..(Len(s)-1) : s[i+1] \in Dependents(s[i])

\* Whatever the order of the sets: cc-deps order refuses exactly if changes
\* wait for one another in a circle, and shows real circles only; otherwise it
\* lists, safely, all changes but those that wait for one that is not there.
OrderTellsAll ==
  /\ \A s \in cycles : RealCycle(s)
  /\ OrderIsSafe
  /\ mode = "ended" =>
       /\ cycles # {} <=> Circle
       /\ cycles = {} => Elements(order) = Change \ Stuck

-----------------------------------------------------------------------------
\* The inductive invariant of the proof

OrderTypeOK ==
  /\ mode \in {"searching", "sorting", "ended"}
  /\ dependsOn \in [Change -> SUBSET (Change \cup Ghost)]
  /\ visited \subseteq Node
  /\ stack \in Seq(Node) /\ untried \in Seq(SUBSET Change) /\ Len(untried) = Len(stack)
  /\ cycles \subseteq Seq(Node)
  /\ order \in Seq(Change)
  /\ queue \subseteq Change
  /\ inDegree \in [Change -> Int]

\* The stack is a path of the graph without repetition.
StackIsPath ==
  /\ \A i \in 1..Top : stack[i] \in visited /\ untried[i] \subseteq Dependents(stack[i])
  /\ \A i \in 1..(Top-1) : stack[i+1] \in Dependents(stack[i])
  /\ \A i \in 1..Top, k \in 1..Top : stack[i] = stack[k] => i = k

\* As long as no circle is found: of a node on the stack every dependent that
\* was tried is finished or next on the stack, of a finished node every
\* dependent is finished, and no circle lies among the finished ones.
Finished == visited \ Elements(stack)
NothingMissed ==
  cycles = {} =>
    /\ \A i \in 1..Top : \A n \in Dependents(stack[i]) \ untried[i] :
         n \in Finished \/ (i < Top /\ n = stack[i+1])
    /\ \A d \in Finished : Dependents(d) \subseteq Finished
    /\ \A S \in SUBSET Change : WaitsFor(S, {}) => ~(S \subseteq Finished)

SearchInv == StackIsPath /\ NothingMissed /\ \A s \in cycles : RealCycle(s)

\* inDegree counts the dependencies that are not yet in the order; the queue
\* holds what has none left and is not in the order itself.
DegreesCount ==
  mode = "sorting" =>
    /\ \A c \in Change : inDegree[c] = Cardinality(dependsOn[c] \ Elements(order))
    /\ \A c \in queue : dependsOn[c] \subseteq Elements(order) /\ c \notin Elements(order)
    /\ \A c \in Change : dependsOn[c] \subseteq Elements(order) => c \in queue \cup Elements(order)

SortInv ==
  /\ DegreesCount /\ OrderIsSafe
  /\ Elements(order) \cap Stuck = {}
  /\ mode = "searching" => order = <<>>
  /\ mode = "sorting" => cycles = {}
  /\ mode # "searching" /\ cycles = {} => ~Circle
  /\ mode = "ended" /\ cycles = {} => Elements(order) = Change \ Stuck

OrderInv == OrderTypeOK /\ SearchInv /\ SortInv
=============================================================================
