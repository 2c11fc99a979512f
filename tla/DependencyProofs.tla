-------------------------- MODULE DependencyProofs ---------------------------
(***************************************************************************)
(* The changes of a project and what they depend on, for every finite set of *)
(* them.  cc-deps order, whatever order Python's sets have, refuses exactly *)
(* where changes wait for one another in a circle, and otherwise lists all *)
(* that can be ordered.  No work that a change declares is reported as an  *)
(* orphan, and every route that cc-start gives is one that may be taken.   *)
(***************************************************************************)
EXTENDS ChangeOrder, ChangeBoard, FiniteSetTheorems, SequenceTheorems, TLAPS

-----------------------------------------------------------------------------
\* Sequences

LEMMA ElementsAppend ==
  ASSUME NEW T, NEW s \in Seq(T), NEW e \in T
  PROVE  /\ Append(s, e) \in Seq(T)
         /\ Len(Append(s, e)) = Len(s) + 1
         /\ \A i \in 1..Len(s) : Append(s, e)[i] = s[i]
         /\ Append(s, e)[Len(s) + 1] = e
         /\ Elements(Append(s, e)) = Elements(s) \cup {e}
<1>1. /\ Append(s, e) \in Seq(T)
      /\ Len(Append(s, e)) = Len(s) + 1
      /\ \A i \in 1..Len(s) : Append(s, e)[i] = s[i]
      /\ Append(s, e)[Len(s) + 1] = e
  OBVIOUS
<1>2. DOMAIN s = 1..Len(s) /\ DOMAIN Append(s, e) = 1..(Len(s) + 1) /\ Len(s) \in Nat
  OBVIOUS
<1>3. Elements(Append(s, e)) \subseteq Elements(s) \cup {e}
  BY <1>1, <1>2 DEF Elements
<1>4. Elements(s) \cup {e} \subseteq Elements(Append(s, e))
  <2>1. ASSUME NEW i \in 1..Len(s) PROVE s[i] \in Elements(Append(s, e))
    <3>1. i \in DOMAIN Append(s, e) /\ Append(s, e)[i] = s[i]
      BY <1>1, <1>2
    <3>. QED
      BY <3>1 DEF Elements
  <2>2. e \in Elements(Append(s, e))
    <3>1. Len(s) + 1 \in DOMAIN Append(s, e) /\ Append(s, e)[Len(s) + 1] = e
      BY <1>1, <1>2
    <3>. QED
      BY <3>1 DEF Elements
  <2>. QED
    BY <1>2, <2>1, <2>2 DEF Elements
<1>. QED
  BY <1>1, <1>3, <1>4

LEMMA ElementsFront ==
  ASSUME NEW T, NEW s \in Seq(T), s # <<>>,
         \A i \in 1..Len(s), k \in 1..Len(s) : s[i] = s[k] => i = k
  PROVE  /\ SubSeq(s, 1, Len(s) - 1) \in Seq(T)
         /\ Len(SubSeq(s, 1, Len(s) - 1)) = Len(s) - 1
         /\ \A i \in 1..(Len(s) - 1) : SubSeq(s, 1, Len(s) - 1)[i] = s[i]
         /\ Elements(SubSeq(s, 1, Len(s) - 1)) = Elements(s) \ {s[Len(s)]}
<1>1. Len(s) \in Nat /\ Len(s) >= 1 /\ DOMAIN s = 1..Len(s)
  OBVIOUS
<1> DEFINE f == SubSeq(s, 1, Len(s) - 1)
<1>2. /\ f \in Seq(T) /\ Len(f) = Len(s) - 1
      /\ \A i \in 1..(Len(s) - 1) : f[i] = s[i]
      /\ DOMAIN f = 1..(Len(s) - 1)
  BY <1>1
<1> HIDE DEF f
<1>3. ASSUME NEW x \in Elements(f) PROVE x \in Elements(s) \ {s[Len(s)]}
  <2>1. PICK i \in 1..(Len(s) - 1) : x = f[i]
    BY <1>2 DEF Elements
  <2>2. x = s[i]
    BY <1>2, <2>1
  <2>3. \A m \in Nat : m >= 1 => \A k \in 1..(m - 1) : k \in 1..m /\ m \in 1..m /\ k # m
    OBVIOUS
  <2>4. i \in 1..Len(s) /\ Len(s) \in 1..Len(s) /\ i # Len(s) /\ x = s[i]
    BY <1>1, <2>2, <2>3
  <2>5. x \in Elements(s)
    BY <1>1, <2>4 DEF Elements
  <2>6. x # s[Len(s)]
    BY <2>4
  <2>. QED
    BY <2>5, <2>6
<1>4. ASSUME NEW x \in Elements(s), x # s[Len(s)] PROVE x \in Elements(f)
  <2>1. PICK i \in 1..Len(s) : x = s[i]
    BY <1>1 DEF Elements
  <2>2. i # Len(s)
    BY <1>4, <2>1
  <2>3. \A m \in Nat : m >= 1 => \A k \in 1..m : k # m => k \in 1..(m - 1)
    OBVIOUS
  <2>4. i \in 1..(Len(s) - 1)
    BY <1>1, <2>2, <2>3
  <2>5. i \in DOMAIN f /\ x = f[i]
    BY <1>2, <2>1, <2>4
  <2>. QED
    BY <2>5 DEF Elements
<1>5. Elements(f) = Elements(s) \ {s[Len(s)]}
  BY <1>3, <1>4
<1>. QED
  BY <1>2, <1>5 DEF f

LEMMA DependentsAreNodes ==
  /\ \A n : Dependents(n) \subseteq Change
  /\ Change \subseteq Node
BY DEF Dependents, Node

-----------------------------------------------------------------------------
\* detect_cycles

LEMMA SearchInitInv == OrderInit => OrderInv
<1> SUFFICES ASSUME OrderInit PROVE OrderInv
  OBVIOUS
<1>1. Elements(<<>>) = {}
  BY DEF Elements
<1>2. OrderTypeOK
  BY DEF OrderInit, OrderTypeOK, Node
<1>3. SearchInv
  BY <1>1 DEF OrderInit, SearchInv, StackIsPath, NothingMissed, Finished, WaitsFor, Top
<1>4. SortInv
  BY <1>1 DEF OrderInit, SortInv, DegreesCount, OrderIsSafe
<1>. QED
  BY <1>2, <1>3, <1>4 DEF OrderInv

\* The sort is not concerned by a step of the search.
LEMMA SearchLeavesSort ==
  ASSUME OrderInv, mode = "searching",
         UNCHANGED <<dependsOn, mode, sortVars>>
  PROVE  SortInv'
BY DEF OrderInv, SortInv, DegreesCount, OrderIsSafe, sortVars, Stuck, WaitsFor, Circle, Elements

LEMMA VisitRootKeepsInv ==
  ASSUME OrderInv, VisitRoot
  PROVE  OrderInv'
<1>1. PICK n \in Node \ visited : Visit(n)
  BY DEF VisitRoot
<1>2. SortInv'
  BY SearchLeavesSort DEF VisitRoot
<1>3. stack = <<>> /\ untried = <<>> /\ Len(stack) = 0
  BY DEF VisitRoot, OrderInv, OrderTypeOK
<1>4. stack' = <<n>> /\ untried' = <<Dependents(n)>> /\ visited' = visited \cup {n}
  BY <1>1, <1>3 DEF Visit
<1>5. /\ Elements(stack) = {} /\ Elements(stack') = {n}
      /\ Len(stack') = 1 /\ stack'[1] = n /\ untried'[1] = Dependents(n)
  BY <1>3, <1>4 DEF Elements
<1>6. /\ Node' = Node /\ \A d : Dependents(d)' = Dependents(d)
      /\ cycles' = cycles /\ \A S : WaitsFor(S, {})' = WaitsFor(S, {})
  BY DEF VisitRoot, Node, Dependents, WaitsFor
<1>7. Finished' = Finished
  BY <1>4, <1>5 DEF Finished
<1>8. OrderTypeOK'
  BY <1>1, <1>4, <1>6, DependentsAreNodes DEF OrderInv, OrderTypeOK, VisitRoot, sortVars
<1>9. StackIsPath'
  BY <1>4, <1>5, <1>6 DEF StackIsPath, Top
<1>10. NothingMissed'
  BY <1>5, <1>6, <1>7 DEF NothingMissed, OrderInv, SearchInv, Top
<1>11. (\A s \in cycles : RealCycle(s))'
  BY <1>6 DEF OrderInv, SearchInv, RealCycle
<1>. QED
  BY <1>2, <1>8, <1>9, <1>10, <1>11 DEF OrderInv, SearchInv

\* A step of the search that tries one dependent of the node on top
LEMMA TriedDependent ==
  ASSUME OrderInv, mode = "searching", stack # <<>>, NEW n \in untried[Top],
         dependsOn' = dependsOn
  PROVE  /\ Top \in Nat \ {0}
         /\ n \in Dependents(stack[Top]) /\ n \in Change /\ n \in Node
         /\ LessTried(n) \in Seq(SUBSET Change) /\ Len(LessTried(n)) = Top
         /\ LessTried(n)[Top] = untried[Top] \ {n}
         /\ \A i \in 1..(Top - 1) : LessTried(n)[i] = untried[i]
         /\ \A i \in 1..Top : LessTried(n)[i] \subseteq untried[i]
         /\ Node' = Node /\ \A d : Dependents(d)' = Dependents(d)
         /\ \A S : WaitsFor(S, {})' = WaitsFor(S, {})
<1>1. stack \in Seq(Node) /\ untried \in Seq(SUBSET Change) /\ Len(untried) = Top
  BY DEF OrderInv, OrderTypeOK, Top
<1>2. Top \in Nat \ {0}
  BY <1>1 DEF Top
<1>3. n \in Dependents(stack[Top])
  BY <1>2 DEF OrderInv, SearchInv, StackIsPath
<1>4. /\ LessTried(n) \in Seq(SUBSET Change) /\ Len(LessTried(n)) = Top
      /\ LessTried(n)[Top] = untried[Top] \ {n}
      /\ \A i \in 1..(Top - 1) : LessTried(n)[i] = untried[i]
  BY <1>1, <1>2 DEF LessTried
<1>5. \A i \in 1..Top : LessTried(n)[i] \subseteq untried[i]
  BY <1>1, <1>2 DEF LessTried
<1>. QED
  BY <1>2, <1>3, <1>4, <1>5, DependentsAreNodes DEF Node, Dependents, WaitsFor

\* A circle that is shown is one.
LEMMA CloseCycleKeepsInv ==
  ASSUME OrderInv, mode = "searching", stack # <<>>, NEW n \in untried[Top], CloseCycle(n),
         UNCHANGED <<dependsOn, mode, sortVars>>
  PROVE  OrderInv'
<1>1. SortInv'
  BY SearchLeavesSort
<1>2. /\ stack' = stack /\ visited' = visited /\ untried' = LessTried(n)
      /\ cycles' = cycles \cup {Append(SubSeq(stack, Position(n), Top), n)}
      /\ n \in Elements(stack)
  BY DEF CloseCycle, OnStack
<1>3. stack \in Seq(Node) /\ Len(stack) = Top /\ DOMAIN stack = 1..Top
  BY DEF OrderInv, OrderTypeOK, Top
<1>4. Position(n) \in 1..Top /\ stack[Position(n)] = n
  <2>1. \E i \in DOMAIN stack : stack[i] = n
    BY <1>2 DEF Elements
  <2>. QED
    BY <1>3, <2>1 DEF Position
<1> DEFINE p == Position(n)
           path == SubSeq(stack, p, Top)
           circle == Append(path, n)
<1> HIDE DEF p
<1>5. /\ Top \in Nat \ {0} /\ n \in Dependents(stack[Top]) /\ n \in Node
      /\ p \in 1..Top /\ stack[p] = n
  BY <1>4, TriedDependent DEF p
<1>6. /\ path \in Seq(Node) /\ Len(path) = Top - p + 1
      /\ \A i \in 1..(Top - p + 1) : path[i] = stack[p + i - 1]
  BY <1>3, <1>5
<1> HIDE DEF path
<1>7. /\ circle \in Seq(Node) /\ Len(circle) = Top - p + 2
      /\ \A i \in 1..(Top - p + 1) : circle[i] = stack[p + i - 1]
      /\ circle[Top - p + 2] = n
  BY <1>5, <1>6, ElementsAppend
<1> HIDE DEF circle
<1>8. RealCycle(circle)
  <2>1. Len(circle) >= 2 /\ circle[1] = circle[Len(circle)]
    BY <1>5, <1>7
  <2>2. ASSUME NEW i \in 1..(Len(circle) - 1)
        PROVE  circle[i + 1] \in Dependents(circle[i])
    <3>1. CASE i = Top - p + 1
      BY <1>5, <1>7, <3>1
    <3>2. CASE i # Top - p + 1
      <4>1. /\ i \in 1..(Top - p + 1) /\ i + 1 \in 1..(Top - p + 1)
            /\ p + i - 1 \in 1..(Top - 1) /\ (p + i - 1) + 1 = p + (i + 1) - 1
        BY <1>5, <1>7, <3>2
      <4>2. stack[(p + i - 1) + 1] \in Dependents(stack[p + i - 1])
        BY <4>1 DEF OrderInv, SearchInv, StackIsPath
      <4>. QED
        BY <1>7, <4>1, <4>2
    <3>. QED
      BY <3>1, <3>2
  <2>. QED
    BY <2>1, <2>2 DEF RealCycle
<1>9. cycles' = cycles \cup {circle} /\ \A s : RealCycle(s)' = RealCycle(s)
  BY <1>2 DEF p, path, circle, RealCycle, Dependents
<1>10. OrderTypeOK'
  BY <1>2, <1>7, <1>9, TriedDependent DEF OrderInv, OrderTypeOK, sortVars, Top
<1>11. StackIsPath'
  BY <1>2, TriedDependent DEF OrderInv, SearchInv, StackIsPath, Top
<1>12. NothingMissed'
  BY <1>9 DEF NothingMissed
<1>13. (\A s \in cycles : RealCycle(s))'
  BY <1>8, <1>9 DEF OrderInv, SearchInv
<1>. QED
  BY <1>1, <1>10, <1>11, <1>12, <1>13 DEF OrderInv, SearchInv

LEMMA SkipKeepsInv ==
  ASSUME OrderInv, mode = "searching", stack # <<>>, NEW n \in untried[Top], Skip(n),
         UNCHANGED <<dependsOn, mode, sortVars>>
  PROVE  OrderInv'
<1>1. SortInv'
  BY SearchLeavesSort
<1>2. /\ stack' = stack /\ visited' = visited /\ untried' = LessTried(n) /\ cycles' = cycles
      /\ n \in Finished
  BY DEF Skip, OnStack, Finished
<1>3. OrderTypeOK'
  BY <1>2, TriedDependent DEF OrderInv, OrderTypeOK, sortVars, Top
<1>4. StackIsPath'
  BY <1>2, TriedDependent DEF OrderInv, SearchInv, StackIsPath, Top
<1>5. Finished' = Finished /\ Top' = Top
  BY <1>2 DEF Finished, Elements, Top
<1>6. NothingMissed'
  <2> SUFFICES ASSUME cycles = {} PROVE NothingMissed'
    BY <1>2 DEF NothingMissed
  <2>1. ASSUME NEW i \in 1..Top, NEW k \in Dependents(stack[i]) \ LessTried(n)[i]
        PROVE  k \in Finished \/ (i < Top /\ k = stack[i+1])
    <3>1. CASE i = Top /\ k = n
      BY <1>2, <3>1
    <3>2. CASE ~(i = Top /\ k = n)
      <4>1. k \notin untried[i]
        BY <2>1, <3>2, TriedDependent
      <4>. QED
        BY <2>1, <4>1 DEF OrderInv, SearchInv, NothingMissed
    <3>. QED
      BY <3>1, <3>2
  <2>. QED
    BY <1>2, <1>5, <2>1, TriedDependent DEF OrderInv, SearchInv, NothingMissed
<1>7. (\A s \in cycles : RealCycle(s))'
  BY <1>2 DEF OrderInv, SearchInv, RealCycle, Dependents
<1>. QED
  BY <1>1, <1>3, <1>4, <1>6, <1>7 DEF OrderInv, SearchInv

LEMMA DescendKeepsInv ==
  ASSUME OrderInv, mode = "searching", stack # <<>>, NEW n \in untried[Top], Descend(n),
         UNCHANGED <<dependsOn, mode, sortVars>>
  PROVE  OrderInv'
<1>1. SortInv'
  BY SearchLeavesSort
<1>2. /\ n \notin Elements(stack) /\ n \notin visited
      /\ visited' = visited \cup {n} /\ cycles' = cycles
      /\ stack' = Append(stack, n) /\ untried' = Append(LessTried(n), Dependents(n))
  BY DEF Descend, OnStack
<1>3. /\ stack \in Seq(Node) /\ Len(stack) = Top /\ cycles \subseteq Seq(Node)
      /\ visited \subseteq Node
  BY DEF OrderInv, OrderTypeOK, Top
<1>4. /\ stack' \in Seq(Node) /\ Top' = Top + 1 /\ Len(stack') = Top + 1
      /\ \A i \in 1..Top : stack'[i] = stack[i]
      /\ stack'[Top + 1] = n
      /\ Elements(stack') = Elements(stack) \cup {n}
  BY <1>2, <1>3, TriedDependent, ElementsAppend DEF Top
<1>5. /\ untried' \in Seq(SUBSET Change) /\ Len(untried') = Top + 1
      /\ \A i \in 1..Top : untried'[i] = LessTried(n)[i]
      /\ untried'[Top + 1] = Dependents(n)
  BY <1>2, TriedDependent, DependentsAreNodes, ElementsAppend
<1>6. \A i \in 1..(Top + 1) : i \in 1..Top \/ i = Top + 1
  BY TriedDependent
<1>7. OrderTypeOK'
  BY <1>2, <1>3, <1>4, <1>5, TriedDependent DEF OrderInv, OrderTypeOK, sortVars
<1>8. StackIsPath'
  <2>1. ASSUME NEW i \in 1..(Top + 1)
        PROVE  stack'[i] \in visited' /\ untried'[i] \subseteq Dependents(stack'[i])
    <3>1. CASE i \in 1..Top
      BY <1>2, <1>4, <1>5, <3>1, TriedDependent DEF OrderInv, SearchInv, StackIsPath
    <3>2. CASE i = Top + 1
      BY <1>2, <1>4, <1>5, <3>2
    <3>. QED
      BY <1>6, <3>1, <3>2
  <2>2. ASSUME NEW i \in 1..Top PROVE stack'[i+1] \in Dependents(stack'[i])
    <3>1. CASE i = Top
      BY <1>4, <3>1, TriedDependent
    <3>2. CASE i # Top
      <4>1. i \in 1..(Top - 1) /\ i + 1 \in 1..Top
        BY <3>2, TriedDependent
      <4>2. stack[i+1] \in Dependents(stack[i])
        BY <4>1 DEF OrderInv, SearchInv, StackIsPath
      <4>. QED
        BY <1>4, <4>1, <4>2
    <3>. QED
      BY <3>1, <3>2
  <2>3. ASSUME NEW i \in 1..(Top + 1), NEW k \in 1..(Top + 1), stack'[i] = stack'[k]
        PROVE  i = k
    <3>1. \A j \in 1..Top : stack[j] # n
      BY <1>2, <1>3 DEF Elements
    <3>2. \A j \in 1..Top, m \in 1..Top : stack[j] = stack[m] => j = m
      BY DEF OrderInv, SearchInv, StackIsPath
    <3>. QED
      BY <1>4, <1>6, <2>3, <3>1, <3>2
  <2>4. (Top + 1) - 1 = Top
    BY TriedDependent
  <2>. QED
    BY <1>4, <2>1, <2>2, <2>3, <2>4, TriedDependent DEF StackIsPath
<1>9. Finished' = Finished
  BY <1>2, <1>4 DEF Finished
<1>10. NothingMissed'
  <2> SUFFICES ASSUME cycles = {} PROVE NothingMissed'
    BY <1>2 DEF NothingMissed
  <2>1. ASSUME NEW i \in 1..(Top + 1), NEW k \in Dependents(stack'[i]) \ untried'[i]
        PROVE  k \in Finished \/ (i < Top + 1 /\ k = stack'[i+1])
    <3>1. CASE i = Top + 1
      BY <1>4, <1>5, <2>1, <3>1
    <3>2. CASE i = Top /\ k = n
      BY <1>4, <3>2, TriedDependent
    <3>3. CASE i \in 1..Top /\ ~(i = Top /\ k = n)
      <4>1. k \in Dependents(stack[i]) \ untried[i]
        BY <1>4, <1>5, <2>1, <3>3, TriedDependent
      <4>2. k \in Finished \/ (i < Top /\ k = stack[i+1])
        BY <3>3, <4>1 DEF OrderInv, SearchInv, NothingMissed
      <4>3. i < Top => i + 1 \in 1..Top /\ i < Top + 1
        BY <3>3, TriedDependent
      <4>. QED
        BY <1>4, <4>2, <4>3
    <3>. QED
      BY <1>6, <3>1, <3>2, <3>3
  <2>. QED
    BY <1>4, <1>9, <2>1, TriedDependent DEF OrderInv, SearchInv, NothingMissed
<1>11. (\A s \in cycles : RealCycle(s))'
  BY <1>2 DEF OrderInv, SearchInv, RealCycle, Dependents
<1>. QED
  BY <1>1, <1>7, <1>8, <1>10, <1>11 DEF OrderInv, SearchInv

\* A node is left when all its dependents are finished; no circle is closed by
\* it among the finished ones, because the one that it waits for would have
\* been finished before it, and it with that.
LEMMA ReturnKeepsInv ==
  ASSUME OrderInv, Return
  PROVE  OrderInv'
<1>1. SortInv'
  BY SearchLeavesSort DEF Return
<1>2. /\ stack' = SubSeq(stack, 1, Top - 1) /\ untried' = SubSeq(untried, 1, Top - 1)
      /\ visited' = visited /\ cycles' = cycles /\ untried[Top] = {} /\ stack # <<>>
      /\ dependsOn' = dependsOn
  BY DEF Return
<1>3. /\ stack \in Seq(Node) /\ Len(stack) = Top /\ Top \in Nat \ {0}
      /\ untried \in Seq(SUBSET Change) /\ Len(untried) = Top
  BY <1>2 DEF OrderInv, OrderTypeOK, Top
<1>4. \A i \in 1..Top, k \in 1..Top : stack[i] = stack[k] => i = k
  BY DEF OrderInv, SearchInv, StackIsPath
<1>5. /\ stack' \in Seq(Node) /\ Top' = Top - 1 /\ Len(stack') = Top - 1
      /\ \A i \in 1..(Top - 1) : stack'[i] = stack[i]
      /\ Elements(stack') = Elements(stack) \ {stack[Top]}
  BY <1>2, <1>3, <1>4, ElementsFront DEF Top
<1>6. /\ untried' \in Seq(SUBSET Change) /\ Len(untried') = Top - 1
      /\ \A i \in 1..(Top - 1) : untried'[i] = untried[i]
  BY <1>2, <1>3
<1>7. /\ Node' = Node /\ \A d : Dependents(d)' = Dependents(d)
      /\ \A S : WaitsFor(S, {})' = WaitsFor(S, {})
  BY <1>2 DEF Node, Dependents, WaitsFor
<1>8. OrderTypeOK'
  BY <1>2, <1>5, <1>6, <1>7 DEF OrderInv, OrderTypeOK, Return, sortVars
<1>9. \A i \in 1..(Top - 1) : i \in 1..Top
  BY <1>3
<1>10. StackIsPath'
  <2>1. \A i \in 1..((Top - 1) - 1) : i \in 1..(Top - 1) /\ i + 1 \in 1..(Top - 1)
    BY <1>3
  <2>. QED
    BY <1>2, <1>5, <1>6, <1>7, <1>9, <2>1 DEF OrderInv, SearchInv, StackIsPath
<1>11. stack[Top] \in visited /\ stack[Top] \in Elements(stack)
  <2>1. Top \in 1..Top /\ DOMAIN stack = 1..Top
    BY <1>3
  <2>. QED
    BY <2>1 DEF OrderInv, SearchInv, StackIsPath, Elements
<1>12. Finished' = Finished \cup {stack[Top]} /\ stack[Top] \notin Finished
  BY <1>2, <1>5, <1>11 DEF Finished
<1>13. NothingMissed'
  <2> SUFFICES ASSUME cycles = {} PROVE NothingMissed'
    BY <1>2 DEF NothingMissed
  <2>1. ASSUME NEW i \in 1..(Top - 1), NEW k \in Dependents(stack[i]) \ untried[i]
        PROVE  k \in Finished' \/ (i < Top - 1 /\ k = stack[i+1])
    <3>1. k \in Finished \/ (i < Top /\ k = stack[i+1])
      BY <1>9, <2>1 DEF OrderInv, SearchInv, NothingMissed
    <3>2. CASE k \in Finished
      BY <1>12, <3>2
    <3>3. CASE k = stack[i+1]
      <4>1. i + 1 = Top \/ i < Top - 1
        BY <1>3
      <4>. QED
        BY <1>12, <3>3, <4>1
    <3>. QED
      BY <3>1, <3>2, <3>3
  <2>2. Dependents(stack[Top]) \subseteq Finished
    <3>1. Top \in 1..Top /\ ~(Top < Top)
      BY <1>3
    <3>. QED
      BY <1>2, <3>1 DEF OrderInv, SearchInv, NothingMissed
  <2>3. \A d \in Finished : Dependents(d) \subseteq Finished
    BY DEF OrderInv, SearchInv, NothingMissed
  <2>4. ASSUME NEW S \in SUBSET Change, WaitsFor(S, {}), S \subseteq Finished'
        PROVE  FALSE
    <3>1. stack[Top] \in S
      BY <1>12, <2>4 DEF OrderInv, SearchInv, NothingMissed
    <3>2. PICK d \in S : d \in dependsOn[stack[Top]]
      BY <2>4, <3>1 DEF WaitsFor
    <3>3. stack[Top] \in Dependents(d)
      BY <3>1, <3>2 DEF Dependents
    <3>. QED
      BY <1>12, <2>2, <2>3, <2>4, <3>2, <3>3
  <2>5. \A i \in 1..(Top - 1) : i < Top - 1 => i + 1 \in 1..(Top - 1)
    BY <1>3
  <2>6. \A i \in 1..(Top - 1) : \A k \in Dependents(stack'[i]) \ untried'[i] :
          k \in Finished' \/ (i < Top - 1 /\ k = stack'[i+1])
    BY <1>5, <1>6, <2>1, <2>5
  <2>. QED
    BY <1>5, <1>7, <1>12, <2>2, <2>3, <2>4, <2>6 DEF NothingMissed
<1>14. (\A s \in cycles : RealCycle(s))'
  BY <1>2, <1>7 DEF OrderInv, SearchInv, RealCycle
<1>. QED
  BY <1>1, <1>8, <1>10, <1>13, <1>14 DEF OrderInv, SearchInv

\* Every circle that is shown proves that changes wait in a circle, ...
LEMMA ShownCircleIsOne ==
  ASSUME OrderInv, cycles # {}
  PROVE  Circle
<1>1. PICK s \in cycles : RealCycle(s) /\ s \in Seq(Node)
  BY DEF OrderInv, OrderTypeOK, SearchInv
<1>2. Len(s) \in Nat /\ Len(s) >= 2 /\ s[1] = s[Len(s)]
  BY <1>1 DEF RealCycle
<1> DEFINE S == {c \in Change : \E i \in 1..(Len(s) - 1) : c = s[i+1]}
<1>3. \A i \in 1..(Len(s) - 1) : s[i+1] \in Change /\ s[i] \in dependsOn[s[i+1]]
  BY <1>1 DEF RealCycle, Dependents
<1>4. ASSUME NEW c \in S PROVE dependsOn[c] \cap S # {}
  <2>1. PICK i \in 1..(Len(s) - 1) : c = s[i+1]
    OBVIOUS
  <2>2. CASE i = 1
    <3>1. \A m \in Nat : m >= 2 => m - 1 \in 1..(m - 1) /\ (m - 1) + 1 = m
      OBVIOUS
    <3>2. Len(s) - 1 \in 1..(Len(s) - 1) /\ (Len(s) - 1) + 1 = Len(s)
      BY <1>2, <3>1
    <3>3. s[Len(s)] \in S
      BY <1>3, <3>2
    <3>4. s[1] \in dependsOn[c]
      BY <1>3, <2>1, <2>2
    <3>. QED
      BY <1>2, <3>3, <3>4
  <2>3. CASE i # 1
    <3>1. i - 1 \in 1..(Len(s) - 1) /\ (i - 1) + 1 = i
      BY <1>2, <2>3
    <3>2. s[i] \in S
      BY <1>3, <3>1
    <3>3. s[i] \in dependsOn[c]
      BY <1>3, <2>1
    <3>. QED
      BY <3>2, <3>3
  <2>. QED
    BY <2>2, <2>3
<1>5. S # {}
  <2>1. 1 \in 1..(Len(s) - 1)
    BY <1>2
  <2>. QED
    BY <1>3, <2>1
<1>6. S \in SUBSET Change /\ WaitsFor(S, {})
  BY <1>4, <1>5 DEF WaitsFor
<1>. QED
  BY <1>6 DEF Circle

\* ... and when all nodes were visited and none is shown, there is none.
LEMMA NoCircleMissed ==
  ASSUME OrderInv, Searched, cycles = {}
  PROVE  ~Circle
<1>1. Elements(stack) = {}
  BY DEF Searched, Elements
<1>2. Change \subseteq Finished
  BY <1>1, DependentsAreNodes DEF Searched, Finished
<1>. QED
  BY <1>2 DEF Circle, OrderInv, SearchInv, NothingMissed

\* The sort leaves what the search has found.
LEMMA SortLeavesSearch ==
  ASSUME OrderInv, UNCHANGED searchVars
  PROVE  /\ SearchInv'
         /\ Circle' = Circle /\ Stuck' = Stuck /\ Node' = Node
BY DEF OrderInv, SearchInv, searchVars, StackIsPath, NothingMissed, Finished, RealCycle,
       WaitsFor, Circle, Stuck, Dependents, Node, Top, Elements

LEMMA RefuseKeepsInv ==
  ASSUME OrderInv, Refuse
  PROVE  OrderInv'
<1>1. OrderTypeOK'
  BY SortLeavesSearch DEF OrderInv, OrderTypeOK, Refuse, searchVars, sortVars
<1>2. SortInv'
  BY SortLeavesSearch
  DEF OrderInv, SortInv, Refuse, Searched, searchVars, sortVars, DegreesCount, OrderIsSafe,
      Elements
<1>. QED
  BY <1>1, <1>2, SortLeavesSearch DEF OrderInv, Refuse

-----------------------------------------------------------------------------
\* topological_sort

LEMMA DependenciesFinite ==
  ASSUME OrderInv, NEW c \in Change, NEW E
  PROVE  /\ IsFiniteSet(dependsOn[c] \ E)
         /\ Cardinality(dependsOn[c] \ E) \in Nat
         /\ Cardinality(dependsOn[c] \ E) = 0 <=> dependsOn[c] \subseteq E
<1>1. IsFiniteSet(Change \cup Ghost)
  BY OrderParameters, FS_Union DEF OrderAssumption
<1>2. IsFiniteSet(dependsOn[c] \ E)
  <2>1. dependsOn[c] \ E \subseteq Change \cup Ghost
    BY DEF OrderInv, OrderTypeOK
  <2>. QED
    BY <1>1, <2>1, FS_Subset
<1>3. Cardinality(dependsOn[c] \ E) \in Nat
      /\ (Cardinality(dependsOn[c] \ E) = 0 <=> dependsOn[c] \ E = {})
  BY <1>2, FS_EmptySet, FS_CardinalityType
<1>. QED
  BY <1>2, <1>3

LEMMA BeginSortKeepsInv ==
  ASSUME OrderInv, BeginSort
  PROVE  OrderInv'
<1>1. /\ order = <<>> /\ order' = <<>> /\ mode' = "sorting" /\ cycles' = {}
      /\ dependsOn' = dependsOn
      /\ inDegree' = [c \in Change |-> Cardinality(dependsOn[c])]
      /\ queue' = {c \in Change : dependsOn[c] = {}}
  BY DEF BeginSort, OrderInv, SortInv, Searched, searchVars
<1>2. Elements(order') = {}
  BY <1>1 DEF Elements
<1>3. ASSUME NEW c \in Change
      PROVE  Cardinality(dependsOn[c]) \in Int /\ dependsOn[c] \ {} = dependsOn[c]
  <2>1. dependsOn[c] \ {} = dependsOn[c]
    OBVIOUS
  <2>2. Cardinality(dependsOn[c] \ {}) \in Nat
    BY DependenciesFinite
  <2>. QED
    BY <2>1, <2>2
<1>4. inDegree' \in [Change -> Int]
  BY <1>1, <1>3
<1>5. OrderTypeOK'
  BY <1>1, <1>4, SortLeavesSearch DEF OrderInv, OrderTypeOK, BeginSort, searchVars
<1>6. DegreesCount'
  BY <1>1, <1>2, <1>3 DEF DegreesCount
<1>7. OrderIsSafe'
  BY <1>1 DEF OrderIsSafe
<1>8. ~Circle'
  BY NoCircleMissed, SortLeavesSearch DEF BeginSort
<1>. QED
  BY <1>1, <1>2, <1>5, <1>6, <1>7, <1>8, SortLeavesSearch DEF OrderInv, SortInv, BeginSort

\* What Pop does to the degrees and to the queue
LEMMA PopKeepsDegrees ==
  ASSUME OrderInv, NEW n \in queue, Pop(n), Elements(order') = Elements(order) \cup {n}
  PROVE  DegreesCount' /\ inDegree' \in [Change -> Int] /\ queue' \subseteq Change
<1> DEFINE E == Elements(order)
<1>1. /\ n \in Change /\ n \notin E /\ dependsOn[n] \subseteq E
      /\ mode = "sorting" /\ mode' = "sorting" /\ dependsOn' = dependsOn
      /\ inDegree' = Lowered(n)
      /\ queue' = (queue \ {n}) \cup {c \in Dependents(n) : inDegree'[c] = 0}
  BY DEF Pop, searchVars, OrderInv, OrderTypeOK, SortInv, DegreesCount
<1>2. ASSUME NEW c \in Change
      PROVE  inDegree'[c] = Cardinality(dependsOn[c] \ (E \cup {n}))
  <2>1. inDegree[c] = Cardinality(dependsOn[c] \ E)
    BY <1>1 DEF OrderInv, SortInv, DegreesCount
  <2>2. CASE n \in dependsOn[c]
    <3>1. /\ n \in dependsOn[c] \ E
          /\ dependsOn[c] \ (E \cup {n}) = (dependsOn[c] \ E) \ {n}
      BY <1>1, <2>2
    <3>2. Cardinality((dependsOn[c] \ E) \ {n}) = Cardinality(dependsOn[c] \ E) - 1
      BY <3>1, DependenciesFinite, FS_RemoveElement
    <3>3. inDegree'[c] = inDegree[c] - 1
      BY <1>1, <2>2 DEF Lowered, Dependents
    <3>. QED
      BY <2>1, <3>1, <3>2, <3>3
  <2>3. CASE n \notin dependsOn[c]
    <3>1. dependsOn[c] \ (E \cup {n}) = dependsOn[c] \ E
      BY <2>3
    <3>2. inDegree'[c] = inDegree[c]
      BY <1>1, <2>3 DEF Lowered, Dependents
    <3>. QED
      BY <2>1, <3>1, <3>2
  <2>. QED
    BY <2>2, <2>3
<1>3. ASSUME NEW c \in Change
      PROVE  inDegree'[c] = 0 <=> dependsOn[c] \subseteq E \cup {n}
  BY <1>2, DependenciesFinite
<1>4. inDegree' \in [Change -> Int] /\ queue' \subseteq Change
  <2>1. ASSUME NEW c \in Change PROVE inDegree'[c] \in Int
    <3>1. Cardinality(dependsOn[c] \ (E \cup {n})) \in Nat
      BY DependenciesFinite
    <3>. QED
      BY <1>2, <3>1
  <2>2. inDegree' = [c \in Change |-> inDegree'[c]]
    BY <1>1 DEF Lowered
  <2>. QED
    BY <1>1, <2>1, <2>2 DEF Dependents, OrderInv, OrderTypeOK
<1>5. ASSUME NEW c \in queue'
      PROVE  dependsOn[c] \subseteq E \cup {n} /\ c \notin E \cup {n}
  <2>1. CASE c \in queue \ {n}
    BY <1>1, <2>1 DEF OrderInv, SortInv, DegreesCount
  <2>2. CASE c \in Dependents(n) /\ inDegree'[c] = 0
    <3>1. n \in dependsOn[c] /\ dependsOn[c] \subseteq E \cup {n}
      BY <1>3, <2>2 DEF Dependents
    <3>2. c # n
      BY <1>1, <3>1
    <3>3. c \notin E
      <4>1. \A k \in DOMAIN order : dependsOn[order[k]] \subseteq E
        <5>1. order \in Seq(Change) /\ DOMAIN order = 1..Len(order) /\ Len(order) \in Nat
          BY DEF OrderInv, OrderTypeOK
        <5>2. \A k \in DOMAIN order : 1..(k-1) \subseteq DOMAIN order
          BY <5>1
        <5>. QED
          BY <5>2 DEF OrderInv, SortInv, OrderIsSafe, Elements
      <4>. QED
        BY <1>1, <3>1, <4>1 DEF Elements
    <3>. QED
      BY <3>1, <3>2, <3>3
  <2>. QED
    BY <1>1, <2>1, <2>2
<1>6. ASSUME NEW c \in Change, dependsOn[c] \subseteq E \cup {n}
      PROVE  c \in queue' \cup (E \cup {n})
  <2>1. CASE n \in dependsOn[c]
    BY <1>1, <1>3, <1>6, <2>1 DEF Dependents
  <2>2. CASE n \notin dependsOn[c]
    <3>1. c \in queue \cup E
      BY <1>1, <1>6, <2>2 DEF OrderInv, SortInv, DegreesCount
    <3>. QED
      BY <1>1, <3>1
  <2>. QED
    BY <2>1, <2>2
<1>. QED
  BY <1>1, <1>2, <1>4, <1>5, <1>6 DEF DegreesCount

LEMMA PopKeepsInv ==
  ASSUME OrderInv, NEW n \in queue, Pop(n)
  PROVE  OrderInv'
<1> DEFINE E == Elements(order)
<1>1. /\ n \in Change /\ n \notin E /\ dependsOn[n] \subseteq E
      /\ mode = "sorting" /\ mode' = "sorting" /\ dependsOn' = dependsOn
      /\ order' = Append(order, n) /\ order \in Seq(Change) /\ UNCHANGED searchVars
  BY DEF Pop, searchVars, OrderInv, OrderTypeOK, SortInv, DegreesCount
<1>2. /\ order' \in Seq(Change) /\ Len(order') = Len(order) + 1 /\ Len(order) \in Nat
      /\ DOMAIN order = 1..Len(order) /\ DOMAIN order' = 1..(Len(order) + 1)
      /\ \A i \in 1..Len(order) : order'[i] = order[i]
      /\ order'[Len(order) + 1] = n
      /\ Elements(order') = E \cup {n}
  BY <1>1, ElementsAppend
<1>3. OrderTypeOK'
  BY <1>1, <1>2, PopKeepsDegrees, SortLeavesSearch DEF OrderInv, OrderTypeOK, searchVars
<1>4. OrderIsSafe'
  <2>1. \A m \in Nat : \A i \in 1..(m + 1) : i \in 1..m \/ i = m + 1
    OBVIOUS
  <2>2. \A k \in 1..Len(order) : order[k] # n
    BY <1>1, <1>2 DEF Elements
  <2>3. ASSUME NEW i \in 1..(Len(order) + 1), NEW k \in 1..(Len(order) + 1),
               order'[k] = order'[i]
        PROVE  k = i
    <3>1. \A j \in 1..Len(order), m \in 1..Len(order) : order[j] = order[m] => j = m
      BY <1>2 DEF OrderInv, SortInv, OrderIsSafe
    <3>. QED
      BY <1>2, <2>1, <2>2, <2>3, <3>1
  <2>4. ASSUME NEW i \in 1..(Len(order) + 1), NEW d \in dependsOn[order'[i]]
        PROVE  \E k \in 1..(i-1) : order'[k] = d
    <3>1. CASE i = Len(order) + 1
      <4>1. d \in E /\ i - 1 = Len(order)
        BY <1>1, <1>2, <2>4, <3>1
      <4>2. PICK k \in 1..Len(order) : order[k] = d
        BY <1>2, <4>1 DEF Elements
      <4>. QED
        BY <1>2, <4>1, <4>2
    <3>2. CASE i \in 1..Len(order)
      <4>1. PICK k \in 1..(i-1) : order[k] = d
        BY <1>2, <2>4, <3>2 DEF OrderInv, SortInv, OrderIsSafe
      <4>2. k \in 1..Len(order)
        BY <1>2, <3>2
      <4>. QED
        BY <1>2, <4>1, <4>2
    <3>. QED
      BY <1>2, <2>1, <3>1, <3>2
  <2>. QED
    BY <1>1, <1>2, <2>3, <2>4 DEF OrderIsSafe
<1>5. n \notin Stuck
  <2> SUFFICES ASSUME NEW S \in SUBSET Change, WaitsFor(S, Ghost), n \in S PROVE FALSE
    BY DEF Stuck
  <2>1. PICK d \in dependsOn[n] : d \in S \cup Ghost
    BY DEF WaitsFor
  <2>2. E \subseteq Change
    BY <1>1 DEF Elements
  <2>3. S \subseteq Stuck
    BY DEF Stuck
  <2>. QED
    BY <1>1, <2>1, <2>2, <2>3, OrderParameters DEF OrderAssumption, OrderInv, SortInv
<1>6. SortInv'
  <2>1. cycles = {} /\ cycles' = cycles /\ ~Circle /\ E \cap Stuck = {}
    BY <1>1 DEF OrderInv, SortInv, searchVars
  <2>. QED
    BY <1>1, <1>2, <1>4, <1>5, <2>1, PopKeepsDegrees, SortLeavesSearch DEF SortInv
<1>. QED
  BY <1>1, <1>3, <1>6, SortLeavesSearch DEF OrderInv

\* When the queue is empty, whoever is not in the order waits for another such
\* one or for an id that no change has.
LEMMA EndSortKeepsInv ==
  ASSUME OrderInv, EndSort
  PROVE  OrderInv'
<1>1. /\ mode = "sorting" /\ mode' = "ended" /\ queue = {} /\ cycles = {}
      /\ UNCHANGED <<searchVars, sortVars>>
  BY DEF EndSort, OrderInv, SortInv
<1>2. OrderTypeOK'
  BY <1>1, SortLeavesSearch DEF OrderInv, OrderTypeOK, searchVars, sortVars
<1> DEFINE S == Change \ Elements(order)
<1>3. Elements(order) \subseteq Change
  BY DEF OrderInv, OrderTypeOK, Elements
<1>4. S \subseteq Stuck
  <2>1. \A c \in S : dependsOn[c] \cap (S \cup Ghost) # {}
    BY <1>1 DEF OrderInv, SortInv, OrderTypeOK, DegreesCount
  <2>2. S = {} \/ WaitsFor(S, Ghost)
    BY <2>1 DEF WaitsFor
  <2>. QED
    BY <2>2 DEF Stuck
<1>5. Elements(order) = Change \ Stuck
  BY <1>3, <1>4 DEF OrderInv, SortInv
<1>6. Elements(order)' = Elements(order) /\ OrderIsSafe' /\ DegreesCount'
  BY <1>1 DEF Elements, OrderInv, SortInv, OrderIsSafe, DegreesCount, sortVars, searchVars
<1>7. SortInv'
  BY <1>1, <1>5, <1>6, SortLeavesSearch DEF OrderInv, SortInv, searchVars
<1>. QED
  BY <1>1, <1>2, <1>7, SortLeavesSearch DEF OrderInv

-----------------------------------------------------------------------------
\* Theorems

\* The inductive invariant of ChangeOrder.
THEOREM OrderInvHolds == OrderSpec => []OrderInv
<1>1. OrderInit => OrderInv
  BY SearchInitInv
<1>2. OrderInv /\ [OrderNext]_orderVars => OrderInv'
  <2> SUFFICES ASSUME OrderInv, [OrderNext]_orderVars PROVE OrderInv'
    OBVIOUS
  <2>1. CASE VisitRoot
    BY <2>1, VisitRootKeepsInv
  <2>2. CASE Try
    <3>1. PICK n \in untried[Top] : CloseCycle(n) \/ Skip(n) \/ Descend(n)
      BY <2>2 DEF Try
    <3>. QED
      BY <2>2, <3>1, CloseCycleKeepsInv, SkipKeepsInv, DescendKeepsInv DEF Try
  <2>3. CASE Return
    BY <2>3, ReturnKeepsInv
  <2>4. CASE Refuse
    BY <2>4, RefuseKeepsInv
  <2>5. CASE BeginSort
    BY <2>5, BeginSortKeepsInv
  <2>6. CASE EndSort
    BY <2>6, EndSortKeepsInv
  <2>7. ASSUME NEW n \in queue, Pop(n) PROVE OrderInv'
    BY <2>7, PopKeepsInv
  <2>8. CASE UNCHANGED orderVars
    <3>1. UNCHANGED searchVars /\ UNCHANGED sortVars /\ mode' = mode
      BY <2>8 DEF orderVars, searchVars, sortVars
    <3>2. OrderTypeOK'
      BY <3>1, SortLeavesSearch DEF OrderInv, OrderTypeOK, searchVars, sortVars
    <3>3. SortInv'
      BY <3>1, SortLeavesSearch
      DEF OrderInv, SortInv, DegreesCount, OrderIsSafe, Elements, searchVars, sortVars
    <3>. QED
      BY <3>1, <3>2, <3>3, SortLeavesSearch DEF OrderInv
  <2>. QED
    BY <2>1, <2>2, <2>3, <2>4, <2>5, <2>6, <2>7, <2>8 DEF OrderNext
<1>. QED
  BY <1>1, <1>2, PTL DEF OrderSpec

\* For every finite graph and whatever the order of the sets: cc-deps order
\* refuses exactly if changes wait for one another in a circle, shows real
\* circles only, and otherwise lists safely all that can be ordered.
THEOREM OrderIsCorrect == OrderSpec => []OrderTellsAll
<1>1. OrderInv => OrderTellsAll
  <2> SUFFICES ASSUME OrderInv PROVE OrderTellsAll
    OBVIOUS
  <2>1. (\A s \in cycles : RealCycle(s)) /\ OrderIsSafe
    BY DEF OrderInv, SearchInv, SortInv
  <2>2. ASSUME mode = "ended"
        PROVE  (cycles # {} <=> Circle) /\ (cycles = {} => Elements(order) = Change \ Stuck)
    <3>1. CASE cycles = {}
      BY <2>2, <3>1 DEF OrderInv, SortInv
    <3>2. CASE cycles # {}
      BY <3>2, ShownCircleIsOne
    <3>. QED
      BY <3>1, <3>2
  <2>. QED
    BY <2>1, <2>2 DEF OrderTellsAll
<1>. QED
  BY <1>1, OrderInvHolds, PTL

-----------------------------------------------------------------------------
\* The board of all changes

ChangeRecord ==
  [status : BoardStatus, deps : SUBSET BoardChange, files : SUBSET SourceFile,
   findings : BOOLEAN, specCut : BOOLEAN, reviewCut : BOOLEAN]

\* A source file and an event log are never the same path.
LEMMA PathsDiffer ==
  /\ \A f \in SourceFile, c \in BoardChange : Source(f) # EventsOf(c)
  /\ \A f \in SourceFile, g \in SourceFile : Source(f) = Source(g) => f = g
  /\ \A c \in BoardChange, d \in BoardChange : EventsOf(c) = EventsOf(d) => c = d
  /\ \A p \in BoardPath : \/ \E f \in SourceFile : p = Source(f)
                          \/ \E c \in BoardChange : p = EventsOf(c)
  /\ \A f \in SourceFile : Source(f) \in BoardPath
  /\ \A c \in BoardChange : EventsOf(c) \in BoardPath
BY DEF Source, EventsOf, BoardPath

LEMMA BoardInitInv == BoardInit => BoardInv
BY DEF BoardInit, BoardInv, BoardTypeOK, StagedIsAccounted, ClearedStaysClear, NoChange,
       BoardStatus

-----------------------------------------------------------------------------
\* What a step does to one change

\* All but c stay as they are, and c takes a status it may come to; what is
\* declared changes only while a change is proposed.
OneMoves(c) ==
  /\ board' \in [BoardChange -> ChangeRecord]
  /\ \A d \in BoardChange \ {c} : board'[d] = board[d]
  /\ \/ board'[c].status = board[c].status /\ board'[c].files = board[c].files
     \/ board[c].status \in {"absent", "propose"} /\ board'[c].status = "propose"
     \/ /\ board'[c].files = board[c].files
        /\ \/ board[c].status = "propose" /\ board'[c].status = "apply"
           \/ board[c].status = "apply" /\ board'[c].status = "review"
           \/ /\ board[c].status = "review" /\ board'[c].status = "done"
              /\ EventsOf(c) \in staged'

\* What an EXCEPT leaves of a change's record
LEMMA StatusField ==
  ASSUME NEW r \in ChangeRecord, NEW s \in BoardStatus
  PROVE  /\ [r EXCEPT !.status = s] \in ChangeRecord
         /\ [r EXCEPT !.status = s].status = s
         /\ [r EXCEPT !.status = s].files = r.files
BY DEF ChangeRecord

LEMMA FlagFields ==
  ASSUME NEW r \in ChangeRecord, NEW flag \in BOOLEAN
  PROVE  /\ [r EXCEPT !.findings = flag, !.reviewCut = FALSE] \in ChangeRecord
         /\ [r EXCEPT !.findings = flag, !.reviewCut = FALSE].status = r.status
         /\ [r EXCEPT !.findings = flag, !.reviewCut = FALSE].files = r.files
         /\ [r EXCEPT !.specCut = flag] \in ChangeRecord
         /\ [r EXCEPT !.specCut = flag].status = r.status
         /\ [r EXCEPT !.specCut = flag].files = r.files
         /\ [r EXCEPT !.reviewCut = flag] \in ChangeRecord
         /\ [r EXCEPT !.reviewCut = flag].status = r.status
         /\ [r EXCEPT !.reviewCut = flag].files = r.files
BY DEF ChangeRecord

LEMMA UpdateMoves ==
  ASSUME board \in [BoardChange -> ChangeRecord], NEW c \in BoardChange,
         NEW r \in ChangeRecord, Update(c, r)
  PROVE  /\ board' \in [BoardChange -> ChangeRecord]
         /\ \A d \in BoardChange \ {c} : board'[d] = board[d]
         /\ board'[c] = r
BY DEF Update

LEMMA MovesAreOne ==
  ASSUME BoardInv, NEW c \in BoardChange,
         ProposeChange(c) \/ BeginApply(c) \/ Advance(c) \/ CutShort(c) \/ WholeAgain(c)
  PROVE  OneMoves(c)
<1>1. board \in [BoardChange -> ChangeRecord] /\ board[c] \in ChangeRecord
  BY DEF BoardInv, BoardTypeOK, ChangeRecord
<1>0. {"absent", "propose", "apply", "review", "done"} = BoardStatus
  BY DEF BoardStatus
<1>2. CASE ProposeChange(c)
  <2>1. PICK deps \in SUBSET (BoardChange \ {c}), files \in SUBSET SourceFile :
          Update(c, [board[c] EXCEPT !.status = "propose", !.deps = deps, !.files = files])
    BY <1>2 DEF ProposeChange
  <2>2. /\ [board[c] EXCEPT !.status = "propose", !.deps = deps, !.files = files]
              \in ChangeRecord
        /\ [board[c] EXCEPT !.status = "propose", !.deps = deps, !.files = files].status
              = "propose"
    BY <1>1, <1>0 DEF ChangeRecord
  <2>. QED
    BY <1>1, <1>2, <2>1, <2>2, UpdateMoves DEF ProposeChange, OneMoves
<1>3. CASE BeginApply(c)
  <2>1. board[c].status = "propose" /\ Update(c, [board[c] EXCEPT !.status = "apply"])
    BY <1>3 DEF BeginApply, With
  <2>2. /\ [board[c] EXCEPT !.status = "apply"] \in ChangeRecord
        /\ [board[c] EXCEPT !.status = "apply"].status = "apply"
        /\ [board[c] EXCEPT !.status = "apply"].files = board[c].files
    BY <1>1, <1>0, StatusField
  <2>. QED
    BY <1>1, <2>1, <2>2, UpdateMoves DEF OneMoves
<1>4. CASE Advance(c)
  <2>1. CASE /\ board[c].status = "apply"
             /\ Update(c, [board[c] EXCEPT !.status = "review"])
    <3>1. /\ [board[c] EXCEPT !.status = "review"] \in ChangeRecord
          /\ [board[c] EXCEPT !.status = "review"].status = "review"
          /\ [board[c] EXCEPT !.status = "review"].files = board[c].files
      BY <1>1, <1>0, StatusField
    <3>. QED
      BY <1>1, <2>1, <3>1, UpdateMoves DEF OneMoves
  <2>2. CASE \E open \in BOOLEAN :
               Update(c, [board[c] EXCEPT !.findings = open, !.reviewCut = FALSE])
    <3>1. PICK open \in BOOLEAN :
            Update(c, [board[c] EXCEPT !.findings = open, !.reviewCut = FALSE])
      BY <2>2
    <3>2. /\ [board[c] EXCEPT !.findings = open, !.reviewCut = FALSE] \in ChangeRecord
          /\ [board[c] EXCEPT !.findings = open, !.reviewCut = FALSE].status = board[c].status
          /\ [board[c] EXCEPT !.findings = open, !.reviewCut = FALSE].files = board[c].files
      BY <1>1, FlagFields
    <3>. QED
      BY <1>1, <3>1, <3>2, UpdateMoves DEF OneMoves
  <2>3. CASE /\ board[c].status = "review"
             /\ Update(c, [board[c] EXCEPT !.status = "done"])
    <3>1. /\ [board[c] EXCEPT !.status = "done"] \in ChangeRecord
          /\ [board[c] EXCEPT !.status = "done"].status = "done"
          /\ [board[c] EXCEPT !.status = "done"].files = board[c].files
      BY <1>1, <1>0, StatusField
    <3>2. EventsOf(c) \in staged'
      BY <1>4 DEF Advance
    <3>. QED
      BY <1>1, <2>3, <3>1, <3>2, UpdateMoves DEF OneMoves
  <2>. QED
    BY <1>4, <2>1, <2>2, <2>3 DEF Advance
<1>5. CASE CutShort(c) \/ WholeAgain(c)
  <2>1. PICK open \in BOOLEAN :
          \/ Update(c, [board[c] EXCEPT !.specCut = open])
          \/ Update(c, [board[c] EXCEPT !.reviewCut = open])
    BY <1>5 DEF CutShort, WholeAgain
  <2>2. /\ [board[c] EXCEPT !.specCut = open] \in ChangeRecord
        /\ [board[c] EXCEPT !.specCut = open].status = board[c].status
        /\ [board[c] EXCEPT !.specCut = open].files = board[c].files
        /\ [board[c] EXCEPT !.reviewCut = open] \in ChangeRecord
        /\ [board[c] EXCEPT !.reviewCut = open].status = board[c].status
        /\ [board[c] EXCEPT !.reviewCut = open].files = board[c].files
    BY <1>1, FlagFields
  <2>3. CASE Update(c, [board[c] EXCEPT !.specCut = open])
    BY <1>1, <2>2, <2>3, UpdateMoves DEF OneMoves
  <2>4. CASE Update(c, [board[c] EXCEPT !.reviewCut = open])
    BY <1>1, <2>2, <2>4, UpdateMoves DEF OneMoves
  <2>. QED
    BY <2>1, <2>3, <2>4
<1>. QED
  BY <1>2, <1>3, <1>4, <1>5

\* Such a move keeps both invariants: no status is ever taken back.
LEMMA MoveKeepsInv ==
  ASSUME BoardInv, NEW c \in BoardChange, OneMoves(c), cleared' = cleared, stray' = stray,
         staged' = staged \/ (staged' = staged \cup {EventsOf(c)} /\ board'[c].status # "absent")
  PROVE  BoardInv'
<1> USE DEF BoardInv
<1>1. BoardTypeOK'
  BY PathsDiffer DEF BoardTypeOK, OneMoves, ChangeRecord
<1>2. ClearedStaysClear'
  <2>1. \A d \in BoardChange :
          board[d].status \in {"review", "done"} => board'[d].status \in {"review", "done"}
    BY DEF OneMoves
  <2>. QED
    BY <2>1 DEF ClearedStaysClear, BoardTypeOK
<1>3. StagedIsAccounted'
  <2>1. ASSUME NEW d \in BoardChange, EventsOf(d) \in staged'
        PROVE  board'[d].status # "absent"
    BY <2>1, PathsDiffer DEF StagedIsAccounted, OneMoves
  <2>2. ASSUME NEW f \in SourceFile, Source(f) \in staged', Source(f) \notin stray'
        PROVE  \E d \in BoardChange :
                 /\ f \in board'[d].files
                 /\ \/ board'[d].status \in {"apply", "review"}
                    \/ board'[d].status = "done" /\ EventsOf(d) \in staged'
    <3>1. Source(f) \in staged
      BY <2>2, PathsDiffer
    <3>2. PICK d \in BoardChange :
            /\ f \in board[d].files
            /\ \/ board[d].status \in {"apply", "review"}
               \/ board[d].status = "done" /\ EventsOf(d) \in staged
      BY <2>2, <3>1 DEF StagedIsAccounted
    <3>3. /\ f \in board'[d].files
          /\ \/ board'[d].status \in {"apply", "review"}
             \/ board'[d].status = "done" /\ EventsOf(d) \in staged'
      BY <3>2 DEF OneMoves
    <3>. QED
      BY <3>3
  <2>. QED
    BY <2>1, <2>2 DEF StagedIsAccounted
<1>. QED
  BY <1>1, <1>2, <1>3

LEMMA BoardStepKeepsInv ==
  ASSUME BoardInv, [BoardNext]_boardVars
  PROVE  BoardInv'
<1>1. ASSUME NEW c \in BoardChange, ProposeChange(c) PROVE BoardInv'
  <2>1. board'[c].status = "propose"
    BY <1>1 DEF ProposeChange, Update, BoardInv, BoardTypeOK
  <2>. QED
    BY <1>1, <2>1, MovesAreOne, MoveKeepsInv DEF ProposeChange
<1>2. ASSUME NEW c \in BoardChange, BeginApply(c) \/ CutShort(c) \/ WholeAgain(c)
      PROVE  BoardInv'
  BY <1>2, MovesAreOne, MoveKeepsInv DEF BeginApply, CutShort, WholeAgain
<1>3. ASSUME NEW c \in BoardChange, Advance(c) PROVE BoardInv'
  <2>1. board'[c].status # "absent"
    BY <1>3, MovesAreOne DEF Advance, Seen, OneMoves
  <2>. QED
    BY <1>3, <2>1, MovesAreOne, MoveKeepsInv DEF Advance
<1>4. ASSUME NEW c \in BoardChange, ClearDeps(c) PROVE BoardInv'
  <2>1. \A d \in board[c].deps : board[d].status \in {"review", "done"}
    BY <1>4 DEF ClearDeps, DepsReady, With
  <2>2. board[c].deps \in SUBSET BoardChange
    BY DEF BoardInv, BoardTypeOK
  <2>3. BoardTypeOK'
    BY <1>4, <2>2 DEF ClearDeps, BoardInv, BoardTypeOK
  <2>4. ClearedStaysClear'
    BY <1>4, <2>1 DEF ClearDeps, BoardInv, BoardTypeOK, ClearedStaysClear
  <2>5. StagedIsAccounted'
    BY <1>4 DEF ClearDeps, BoardInv, StagedIsAccounted
  <2>. QED
    BY <2>3, <2>4, <2>5 DEF BoardInv
<1>5. ASSUME NEW c \in BoardChange, Implement(c) PROVE BoardInv'
  <2>1. PICK f \in board[c].files : staged' = staged \cup {Source(f)}
    BY <1>5 DEF Implement
  <2>2. f \in SourceFile /\ board[c].status \in {"apply", "review"}
    BY <1>5 DEF Implement, BoardInv, BoardTypeOK
  <2>3. BoardTypeOK'
    BY <1>5, <2>1, <2>2, PathsDiffer DEF Implement, BoardInv, BoardTypeOK
  <2>4. StagedIsAccounted'
    BY <1>5, <2>1, <2>2, PathsDiffer DEF Implement, BoardInv, StagedIsAccounted
  <2>. QED
    BY <1>5, <2>3, <2>4 DEF Implement, BoardInv, ClearedStaysClear
<1>6. CASE EditStray
  <2>1. PICK f \in SourceFile : staged' = staged \cup {Source(f)} /\ stray' = stray \cup {Source(f)}
    BY <1>6 DEF EditStray
  <2>2. BoardTypeOK'
    BY <1>6, <2>1, PathsDiffer DEF EditStray, BoardInv, BoardTypeOK
  <2>3. StagedIsAccounted'
    BY <1>6, <2>1, PathsDiffer DEF EditStray, BoardInv, StagedIsAccounted
  <2>. QED
    BY <1>6, <2>2, <2>3 DEF EditStray, BoardInv, ClearedStaysClear
<1>7. CASE CommitAll
  BY <1>7 DEF CommitAll, BoardInv, BoardTypeOK, StagedIsAccounted, ClearedStaysClear
<1>8. CASE UNCHANGED boardVars
  BY <1>8 DEF boardVars, BoardInv, BoardTypeOK, StagedIsAccounted, ClearedStaysClear
<1>. QED
  BY <1>1, <1>2, <1>3, <1>4, <1>5, <1>6, <1>7, <1>8 DEF BoardNext

\* ClearedStaysClear, the types, and the reason for each staged file hold
\* throughout.
THEOREM BoardInvHolds == BoardSpec => []BoardInv
<1>1. BoardInv /\ [BoardNext]_boardVars => BoardInv'
  BY BoardStepKeepsInv
<1>. QED
  BY <1>1, BoardInitInv, PTL DEF BoardSpec

-----------------------------------------------------------------------------
\* No false orphan

LEMMA InvNoFalseOrphan == BoardInv => NoFalseOrphan
<1> SUFFICES ASSUME BoardInv, \A c \in BoardChange : ~board[c].specCut,
                    NEW p \in Orphans, p \notin stray, p \notin Misprinted
             PROVE  FALSE
  BY DEF NoFalseOrphan
<1>1. /\ p \in staged /\ p \notin GovernanceFiles /\ p \in BoardPath
      /\ \A f \in SourceFile : p = Source(f) => \A c \in Eligible : f \notin board[c].files
  BY DEF Orphans, Declared, BoardInv, BoardTypeOK
<1>2. \A c \in BoardChange : p # EventsOf(c)
  BY <1>1 DEF GovernanceFiles, Seen, BoardInv, StagedIsAccounted
<1>3. PICK f \in SourceFile : p = Source(f)
  BY <1>1, <1>2, PathsDiffer
<1>4. PICK c \in BoardChange :
        /\ f \in board[c].files
        /\ \/ board[c].status \in {"apply", "review"}
           \/ board[c].status = "done" /\ EventsOf(c) \in staged
  BY <1>1, <1>3 DEF BoardInv, StagedIsAccounted
<1>5. c \in Eligible
  <2>1. \/ Misprinted \subseteq {Source(g) : g \in SourceFile}
        \/ Misprinted = BoardPath
    BY BoardParameters DEF BoardAssumption
  <2>2. EventsOf(c) \notin Misprinted
    BY <1>1, <2>1, PathsDiffer
  <2>. QED
    BY <1>4, <2>2 DEF Eligible, Seen
<1>. QED
  BY <1>1, <1>3, <1>4, <1>5

\* NoFalseOrphan: declared work whose name git prints as it is is never reported
\* as an orphan in a commit of all that changed.
THEOREM DeclaredWorkIsNoOrphan == BoardSpec => []NoFalseOrphan
BY BoardInvHolds, InvNoFalseOrphan, PTL

-----------------------------------------------------------------------------
\* Routes

LEMMA SeenIsFinite ==
  \A status \in BoardStatus : IsFiniteSet(With(status)) /\ With(status) \subseteq BoardChange
BY BoardParameters, FS_Subset DEF BoardAssumption, With, Seen

\* A set of one change has no other.
LEMMA OneIsOne ==
  ASSUME NEW S, IsFiniteSet(S), Cardinality(S) = 1
  PROVE  \A c \in S, d \in S : c = d
BY FS_CardinalityType, FS_Singleton

\* Whatever the routing of review, fix and archive recommends, it accepts.
LEMMA ReviewRouteLegal ==
  ASSUME BoardInv, NEW command \in {"cc-review", "cc-fix", "cc-archive"},
         NEW c \in ReviewRoute(command).among
  PROVE  \/ Accepts(ReviewRoute(command).next, c)
         \/ board[c].reviewCut
         \/ ReviewRoute(command).code = "E_START102" /\ board[c].status = "review"
<1>1. CASE With("review") = {}
  BY <1>1 DEF ReviewRoute, Unreviewed, Route, With, Accepts
<1>2. CASE With("review") # {} /\ Cardinality(With("review")) > 1
  BY <1>2 DEF ReviewRoute, OneOf, Route, With
<1>3. CASE With("review") # {} /\ ~(Cardinality(With("review")) > 1)
  <2>1. Cardinality(With("review")) = 1
    BY <1>3, SeenIsFinite, FS_CardinalityType, FS_EmptySet DEF BoardStatus
  <2>2. c \in With("review") /\ board[c].status = "review"
    BY <1>3 DEF ReviewRoute, OneOf, Route, With
  <2>3. (\E d \in With("review") : OpenSeen(d)) <=> OpenSeen(c)
    BY <2>1, <2>2, OneIsOne, SeenIsFinite DEF BoardStatus
  <2>. QED
    BY <1>3, <2>1, <2>2, <2>3 DEF ReviewRoute, OneOf, Route, OpenSeen, Accepts
<1>. QED
  BY <1>1, <1>2, <1>3

LEMMA StatusRouteLegal ==
  ASSUME BoardInv, NEW site \in Site, NEW c \in StatusRoute(site).among
  PROVE  \/ Accepts(StatusRoute(site).next, c)
         \/ board[c].reviewCut
         \/ StatusRoute(site).code = "E_START102" /\ board[c].status = "review"
<1>1. CASE With("apply") # {}
  BY <1>1 DEF StatusRoute, OneOf, Route, With, Accepts
<1>2. CASE With("apply") = {} /\ Cardinality(With("review")) = 1
  <2>1. c \in With("review") /\ board[c].status = "review"
    BY <1>2 DEF StatusRoute, OneOf, Route, With
  <2>2. (\E d \in With("review") : OpenSeen(d)) <=> OpenSeen(c)
    BY <1>2, <2>1, OneIsOne, SeenIsFinite DEF BoardStatus
  <2>. QED
    BY <1>2, <2>1, <2>2 DEF StatusRoute, OneOf, Route, OpenSeen, Accepts
<1>3. CASE With("apply") = {} /\ Cardinality(With("review")) # 1
  BY <1>3 DEF StatusRoute, OneOf, Route, With, Accepts
<1>. QED
  BY <1>1, <1>2, <1>3

LEMMA InvRouteIsLegal == BoardInv => RouteIsLegal
<1> SUFFICES ASSUME BoardInv, NEW intent \in Intent, NEW site \in Site, site.installed,
                    NEW c \in RouteIntent(intent, site).among
             PROVE  \/ Accepts(RouteIntent(intent, site).next, c)
                    \/ board[c].reviewCut
                    \/ /\ RouteIntent(intent, site).code = "E_START102"
                       /\ board[c].status = "review"
  BY DEF RouteIsLegal
<1>1. CASE intent = "change"
  BY <1>1 DEF RouteIntent, ChangeRoute, OneOf, Route, With, Accepts
<1>2. CASE intent \in {"review", "fix", "archive"}
  BY <1>2, ReviewRouteLegal DEF RouteIntent
<1>3. CASE intent = "status"
  BY <1>3, StatusRouteLegal DEF RouteIntent
<1>4. CASE intent = "new-project"
  BY <1>4 DEF RouteIntent, Route
<1>. QED
  BY <1>1, <1>2, <1>3, <1>4 DEF Intent

\* RouteIsLegal: cc-start never recommends, for a change, a command that the
\* change's status or its findings forbid.
THEOREM RoutesAreLegal == BoardSpec => []RouteIsLegal
BY BoardInvHolds, InvRouteIsLegal, PTL
==============================================================================
