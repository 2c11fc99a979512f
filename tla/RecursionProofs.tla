-------------------------- MODULE RecursionProofs ---------------------------
(***************************************************************************)
(* What the tools compute step by step, for inputs of any size: the Waves  *)
(* of a tasks.md are legal and a plan is there whenever one can be, the    *)
(* scopes that are reported to overlap are those that share a file, and an *)
(* edit of the knowledge index loses the entries that it names only.  All  *)
(* rest on recursive functions; what they compute is shown by induction,   *)
(* which takes the form of a least counterexample (AllNaturals,            *)
(* RecursionWorks).                                                        *)
(***************************************************************************)
EXTENDS WavePlan, PathScopes, KnowledgeIndex, FiniteSetTheorems, WellFoundedInduction, TLAPS

-----------------------------------------------------------------------------
\* Induction and recursion over numbers, by a least counterexample.

LEMMA LeastNatural ==
  ASSUME NEW S, S \subseteq Nat, S # {}
  PROVE  \E n \in S : \A m \in S : n <= m
<1>1. IsWellFoundedOn(OpToRel(<, Nat), Nat)
  BY NatLessThanWellFounded
<1> DEFINE R == OpToRel(<, Nat)
<1>2. \A m \in Nat, n \in Nat : m < n => <<m, n>> \in R
  BY DEF OpToRel
<1> HIDE DEF R
<1>3. PICK n \in S : \A m \in S : ~ (<<m, n>> \in R)
  BY <1>1, WFMin DEF R
<1>4. \A m \in S : ~(m < n)
  BY <1>2, <1>3
<1>5. \A m \in S : n <= m
  BY <1>4
<1>. QED
  BY <1>5

\* A set of numbers that holds 0 and the successor of each of its members
LEMMA AllNaturals ==
  ASSUME NEW S, 0 \in S, \A n \in Nat : n \in S => n + 1 \in S
  PROVE  Nat \subseteq S
<1> SUFFICES ASSUME Nat \ S # {}
             PROVE  FALSE
  OBVIOUS
<1>1. PICK n \in Nat \ S : \A m \in Nat \ S : n <= m
  BY LeastNatural
<1>2. n # 0 /\ n - 1 \in Nat
  BY <1>1
<1>3. n - 1 \in S
  BY <1>1, <1>2
<1>. QED
  BY <1>1, <1>2, <1>3

Follows(f, x, F) == f[0] = x /\ \A n \in Nat : f[n + 1] = F[n][f[n]]

LEMMA RecursionWorks ==
  ASSUME NEW X, NEW x \in X, NEW F \in [Nat -> [X -> X]]
  PROVE  \E f \in [Nat -> X] : Follows(f, x, F)
<1> DEFINE Upto(n, g) == /\ g \in [0..n -> X] /\ g[0] = x
                         /\ \A i \in Nat : i < n => g[i + 1] = F[i][g[i]]
           Some == {n \in Nat : \E g : Upto(n, g)}
<1>1. Nat \subseteq Some
  <2>1. 0 \in Some
    <3>1. Upto(0, [i \in 0..0 |-> x])
      OBVIOUS
    <3>. QED
      BY <3>1
  <2>2. ASSUME NEW n \in Nat, n \in Some
        PROVE  n + 1 \in Some
    <3>1. PICK g : Upto(n, g)
      BY <2>2
    <3>2. /\ n + 1 \in Nat /\ g[n] \in X /\ F[n][g[n]] \in X
          /\ \A i \in 0..n : g[i] \in X
      BY <3>1
    <3> DEFINE y == F[n][g[n]]
               h == [i \in 0..(n + 1) |-> IF i = n + 1 THEN y ELSE g[i]]
    <3> HIDE DEF y
    <3>3. h \in [0..(n + 1) -> X]
      BY <3>2 DEF y
    <3>4. \A i \in Nat : i <= n => h[i] = g[i]
      OBVIOUS
    <3>5. h[n + 1] = y
      BY <3>2
    <3> HIDE DEF h
    <3>6. h[0] = x
      BY <3>1, <3>4
    <3>7. ASSUME NEW i \in Nat, i < n + 1
          PROVE  h[i + 1] = F[i][h[i]]
      <4>1. CASE i < n
        BY <3>1, <3>4, <4>1
      <4>2. CASE i = n
        BY <3>4, <3>5, <4>2 DEF y
      <4>. QED
        BY <3>7, <4>1, <4>2
    <3>8. Upto(n + 1, h)
      BY <3>3, <3>6, <3>7
    <3> HIDE DEF Upto
    <3>. QED
      BY <3>2, <3>8
  <2> HIDE DEF Some
  <2>. QED
    BY <2>1, <2>2, AllNaturals
<1>2. ASSUME NEW m \in Nat, NEW n \in Nat, NEW g, NEW h, Upto(m, g), Upto(n, h)
      PROVE  \A i \in Nat : i <= m /\ i <= n => g[i] = h[i]
  <2> DEFINE Same == {i \in Nat : i <= m /\ i <= n => g[i] = h[i]}
  <2>1. 0 \in Same
    BY <1>2
  <2>2. ASSUME NEW i \in Nat, i \in Same
        PROVE  i + 1 \in Same
    <3> SUFFICES ASSUME i + 1 <= m, i + 1 <= n
                 PROVE  g[i + 1] = h[i + 1]
      OBVIOUS
    <3>1. g[i] = h[i]
      BY <2>2
    <3>2. g[i + 1] = F[i][g[i]] /\ h[i + 1] = F[i][h[i]]
      BY <1>2
    <3>. QED
      BY <3>1, <3>2
  <2>3. Nat \subseteq Same
    <3> HIDE DEF Same
    <3>. QED
      BY <2>1, <2>2, AllNaturals
  <2>. QED
    BY <2>3
<1> DEFINE part == [n \in Nat |-> CHOOSE g : Upto(n, g)]
           f == [n \in Nat |-> part[n][n]]
<1>3. \A n \in Nat : Upto(n, part[n])
  BY <1>1
<1> HIDE DEF part
<1>4. f \in [Nat -> X]
  BY <1>3
<1>5. f[0] = x
  BY <1>3
<1>6. ASSUME NEW n \in Nat
      PROVE  f[n + 1] = F[n][f[n]]
  <2>1. Upto(n, part[n]) /\ Upto(n + 1, part[n + 1])
    <3> HIDE DEF Upto
    <3>1. n + 1 \in Nat
      OBVIOUS
    <3>. QED
      BY <1>3, <3>1
  <2>2. part[n + 1][n] = part[n][n]
    <3> HIDE DEF Upto
    <3>1. n + 1 \in Nat /\ n <= n + 1 /\ n <= n
      OBVIOUS
    <3>2. \A i \in Nat : i <= n + 1 /\ i <= n => part[n + 1][i] = part[n][i]
      BY <1>2, <2>1, <3>1
    <3>. QED
      BY <3>1, <3>2
  <2>3. part[n + 1][n + 1] = F[n][part[n + 1][n]]
    BY <2>1
  <2>4. f[n] = part[n][n] /\ f[n + 1] = part[n + 1][n + 1]
    OBVIOUS
  <2> HIDE DEF f, Upto
  <2>5. f[n + 1] = F[n][part[n][n]]
    BY <2>2, <2>3, <2>4
  <2>. QED
    BY <2>4, <2>5
<1>. QED
  BY <1>4, <1>5, <1>6 DEF Follows

\* The same for a function that is only defined up to a number
FollowsUpto(N, f, x, F) == f[0] = x /\ \A n \in 1..N : f[n] = F[n - 1][f[n - 1]]

LEMMA RecursionUpto ==
  ASSUME NEW N \in Nat, NEW X, NEW x \in X, NEW F \in [Nat -> [X -> X]]
  PROVE  \E f \in [0..N -> X] : FollowsUpto(N, f, x, F)
<1>1. PICK g \in [Nat -> X] : Follows(g, x, F)
  BY RecursionWorks
<1> DEFINE f == [n \in 0..N |-> g[n]]
<1>2. f \in [0..N -> X]
  OBVIOUS
<1>3. \A n \in 0..N : f[n] = g[n]
  OBVIOUS
<1> HIDE DEF f
<1>4. f[0] = x
  BY <1>1, <1>3 DEF Follows
<1>5. ASSUME NEW n \in 1..N
      PROVE  f[n] = F[n - 1][f[n - 1]]
  <2>1. n - 1 \in Nat /\ (n - 1) + 1 = n /\ n - 1 \in 0..N /\ n \in 0..N
    OBVIOUS
  <2>2. g[n] = F[n - 1][g[n - 1]]
    BY <1>1, <2>1 DEF Follows
  <2>. QED
    BY <1>3, <2>1, <2>2
<1>. QED
  BY <1>2, <1>4, <1>5 DEF FollowsUpto

\* The layers: Left is what its recursion says.
LEMMA LeftByLayers ==
  ASSUME NEW d
  PROVE  Left(d) = [n \in Nat |-> IF n = 0 THEN {} ELSE Freed(d, Left(d)[n-1])]
<1> DEFINE Is(f) == f = [n \in Nat |-> IF n = 0 THEN {} ELSE Freed(d, f[n-1])]
           F == [n \in Nat |-> [s \in SUBSET Task |-> Freed(d, s)]]
<1>1. \E f : Is(f)
  <2>1. F \in [Nat -> [SUBSET Task -> SUBSET Task]]
    BY DEF Freed
  <2>2. \A n \in Nat, s \in SUBSET Task : F[n][s] = Freed(d, s)
    OBVIOUS
  <2> HIDE DEF F
  <2>3. PICK f \in [Nat -> SUBSET Task] :
          f[0] = {} /\ \A n \in Nat : f[n + 1] = F[n][f[n]]
    <3> DEFINE X == SUBSET Task
               none == {}
    <3>1. none \in X /\ F \in [Nat -> [X -> X]]
      BY <2>1
    <3> HIDE DEF X, none
    <3>2. \E f \in [Nat -> X] : Follows(f, none, F)
      BY <3>1, RecursionWorks
    <3>. QED
      BY <3>2 DEF X, none, Follows
  <2>4. \A n \in Nat : f[n + 1] = Freed(d, f[n])
    BY <2>2, <2>3
  <2>5. \A n \in Nat : n # 0 => f[n] = Freed(d, f[n - 1])
    <3> TAKE n \in Nat
    <3> HAVE n # 0
    <3>1. n - 1 \in Nat /\ (n - 1) + 1 = n
      OBVIOUS
    <3>. QED
      BY <2>4, <3>1
  <2>6. \A n \in Nat : f[n] = IF n = 0 THEN {} ELSE Freed(d, f[n - 1])
    BY <2>3, <2>5
  <2>. QED
    BY <2>6
<1>2. Left(d) = CHOOSE f : Is(f)
  BY DEF Left
<1>3. Is(CHOOSE f : Is(f))
  <2> HIDE DEF Is
  <2>. QED
    BY <1>1
<1>. QED
  BY <1>2, <1>3

LEMMA LeftGrows ==
  ASSUME NEW d
  PROVE  /\ Left(d)[0] = {}
         /\ \A n \in Nat : Left(d)[n + 1] = Freed(d, Left(d)[n])
         /\ \A n \in Nat : Left(d)[n] \subseteq Task
         /\ \A m \in Nat, n \in Nat : m <= n => Left(d)[m] \subseteq Left(d)[n]
<1> DEFINE L == Left(d)
<1>1. L = [n \in Nat |-> IF n = 0 THEN {} ELSE Freed(d, L[n-1])]
  BY LeftByLayers
<1> HIDE DEF L
<1>2. L[0] = {}
  BY <1>1
<1>3. \A n \in Nat : L[n + 1] = Freed(d, L[n])
  <2> TAKE n \in Nat
  <2>1. n + 1 \in Nat /\ n + 1 # 0 /\ (n + 1) - 1 = n
    OBVIOUS
  <2>. QED
    BY <1>1, <2>1
<1>4. \A n \in Nat : L[n] \subseteq Task
  <2> DEFINE S == {n \in Nat : L[n] \subseteq Task}
  <2>1. 0 \in S
    BY <1>2
  <2>2. \A n \in Nat : n \in S => n + 1 \in S
    BY <1>3 DEF Freed
  <2>3. Nat \subseteq S
    <3> HIDE DEF S
    <3>. QED
      BY <2>1, <2>2, AllNaturals
  <2>. QED
    BY <2>3
<1>5. ASSUME NEW m \in Nat
      PROVE  \A n \in Nat : m <= n => L[m] \subseteq L[n]
  <2> DEFINE S == {n \in Nat : m <= n => L[m] \subseteq L[n]}
  <2>1. 0 \in S
    BY <1>2
  <2>2. \A n \in Nat : n \in S => n + 1 \in S
    <3> TAKE n \in Nat
    <3> HAVE n \in S
    <3>1. L[n] \subseteq L[n + 1]
      BY <1>3 DEF Freed
    <3>2. m <= n + 1 => m <= n \/ m = n + 1
      OBVIOUS
    <3>. QED
      BY <3>1, <3>2
  <2>3. Nat \subseteq S
    <3> HIDE DEF S
    <3>. QED
      BY <2>1, <2>2, AllNaturals
  <2>. QED
    BY <2>3
<1>. QED
  BY <1>2, <1>3, <1>4, <1>5 DEF L

\* After as many layers as there are tasks, no further task is freed: until
\* then each layer has one.
LEMMA LayersSuffice ==
  ASSUME NEW d
  PROVE  Freed(d, Scheduled(d)) = Scheduled(d) /\ Scheduled(d) \subseteq Task
<1> DEFINE L == Left(d)
           N == Cardinality(Task)
           S == {n \in Nat : n <= Cardinality(L[n]) \/ Freed(d, L[n]) = L[n]}
<1>1. /\ L[0] = {} /\ \A n \in Nat : L[n + 1] = Freed(d, L[n])
      /\ \A n \in Nat : L[n] \subseteq Task
  BY LeftGrows
<1>2. IsFiniteSet(Task) /\ N \in Nat
  BY PlanParameters, FS_CardinalityType DEF PlanAssumption
<1>3. \A n \in Nat : IsFiniteSet(L[n]) /\ Cardinality(L[n]) \in Nat
  BY <1>1, <1>2, FS_Subset, FS_CardinalityType
<1> HIDE DEF L, N
<1>4. 0 \in S
  BY <1>1, FS_EmptySet
<1>5. ASSUME NEW n \in Nat, n \in S
      PROVE  n + 1 \in S
  <2>1. CASE Freed(d, L[n]) = L[n]
    BY <1>1, <2>1
  <2>2. CASE Freed(d, L[n]) # L[n]
    <3>1. n <= Cardinality(L[n])
      BY <1>5, <2>2
    <3>2. L[n] \subseteq L[n + 1] /\ L[n] # L[n + 1]
      BY <1>1, <2>2 DEF Freed
    <3>3. Cardinality(L[n]) <= Cardinality(L[n + 1]) /\ Cardinality(L[n]) # Cardinality(L[n + 1])
      BY <1>3, <3>2, FS_Subset
    <3>4. n + 1 <= Cardinality(L[n + 1])
      BY <1>3, <3>1, <3>3
    <3>. QED
      BY <3>4
  <2>. QED
    BY <2>1, <2>2
<1>6. N \in S
  <2>1. Nat \subseteq S
    <3> HIDE DEF S
    <3>. QED
      BY <1>4, <1>5, AllNaturals
  <2>. QED
    BY <1>2, <2>1
<1>7. Freed(d, L[N]) = L[N]
  <2>1. CASE N <= Cardinality(L[N])
    <3>1. L[N] \subseteq Task
      BY <1>1, <1>2
    <3>2. Cardinality(L[N]) <= N
      BY <1>2, <3>1, FS_Subset DEF N
    <3>3. Cardinality(L[N]) = N
      BY <1>2, <1>3, <2>1, <3>2
    <3>4. L[N] = Task
      BY <1>2, <3>1, <3>3, FS_Subset DEF N
    <3>. QED
      BY <3>4 DEF Freed
  <2>. QED
    BY <1>6, <2>1
<1>. QED
  BY <1>1, <1>2, <1>7 DEF Scheduled, L, N

LEMMA DeclarationTyped ==
  ASSUME NEW d \in Declarations, NEW t \in Task
  PROVE  d[t].deps \subseteq Task \cup Unknown
BY PlanParameters DEF PlanAssumption

\* What is not scheduled waits for itself or for what is not declared.
LEMMA ScheduledUnlessWaiting ==
  ASSUME NEW d \in Declarations
  PROVE  Scheduled(d) = Task <=> ~Waits(d)
<1> DEFINE L == Left(d)
           N == Cardinality(Task)
<1>1. /\ L[0] = {} /\ \A n \in Nat : L[n + 1] = Freed(d, L[n])
      /\ \A n \in Nat : L[n] \subseteq Task
  BY LeftGrows
<1>2. N \in Nat /\ Scheduled(d) = L[N]
  BY PlanParameters, FS_CardinalityType DEF PlanAssumption, Scheduled
<1> HIDE DEF L, N
<1>3. ASSUME Scheduled(d) # Task
      PROVE  Waits(d)
  <2> DEFINE S == Task \ Scheduled(d)
  <2>1. S \in SUBSET Task /\ S # {}
    BY <1>3, LayersSuffice
  <2>2. ASSUME NEW t \in S
        PROVE  d[t].deps \cap (S \cup Unknown) # {}
    <3>1. ~(d[t].deps \subseteq Scheduled(d))
      BY LayersSuffice DEF Freed
    <3>. QED
      BY <3>1, DeclarationTyped
  <2>. QED
    BY <2>1, <2>2 DEF Waits
<1>4. ASSUME Scheduled(d) = Task, Waits(d)
      PROVE  FALSE
  <2>1. PICK S \in SUBSET Task : S # {} /\ \A t \in S : d[t].deps \cap (S \cup Unknown) # {}
    BY <1>4 DEF Waits
  <2> DEFINE Met == {n \in Nat : L[n] \cap S # {}}
  <2>2. N \in Met
    BY <1>2, <1>4, <2>1
  <2>3. PICK n \in Met : \A m \in Met : n <= m
    BY <2>2, LeastNatural
  <2>4. n # 0 /\ n - 1 \in Nat
    BY <1>1, <2>3
  <2>5. L[n] = Freed(d, L[n - 1]) /\ L[n - 1] \subseteq Task /\ L[n - 1] \cap S = {}
    <3>1. (n - 1) + 1 = n
      OBVIOUS
    <3>2. n - 1 \notin Met
      BY <2>3, <2>4
    <3>. QED
      BY <1>1, <2>4, <3>1, <3>2
  <2>6. PICK t \in S : t \in L[n]
    BY <2>3
  <2>7. d[t].deps \subseteq L[n - 1]
    BY <2>5, <2>6 DEF Freed
  <2>. QED
    BY <2>1, <2>5, <2>7, PlanParameters DEF PlanAssumption
<1>. QED
  BY <1>3, <1>4

\* The layers: each scheduled task is in one, after all it waits for.
LEMMA LayersAreOrdered ==
  ASSUME NEW d \in Declarations, NEW t \in Scheduled(d)
  PROVE  \E n \in 1..Cardinality(Task) :
           /\ t \in Layers(d)[n]
           /\ \A m \in 1..Cardinality(Task) : t \in Layers(d)[m] => m = n
           /\ \A u \in d[t].deps : \E m \in 1..(n - 1) : u \in Layers(d)[m]
<1> DEFINE L == Left(d)
           N == Cardinality(Task)
           Has(u) == {n \in Nat : u \in L[n]}
<1>1. /\ L[0] = {} /\ \A n \in Nat : L[n + 1] = Freed(d, L[n])
      /\ \A m \in Nat, n \in Nat : m <= n => L[m] \subseteq L[n]
  BY LeftGrows
<1>2. N \in Nat /\ Scheduled(d) = L[N]
  BY PlanParameters, FS_CardinalityType DEF PlanAssumption, Scheduled
<1>3. \A n \in 1..N : Layers(d)[n] = L[n] \ L[n - 1]
  BY DEF Layers
<1> HIDE DEF L, N
<1>4. ASSUME NEW u, NEW k \in Nat, u \in L[k]
      PROVE  \E n \in 1..k : u \in L[n] /\ u \notin L[n - 1]
  <2>1. k \in Has(u)
    BY <1>4
  <2>2. PICK n \in Has(u) : \A m \in Has(u) : n <= m
    BY <2>1, LeastNatural
  <2>3. n # 0 /\ n - 1 \in Nat /\ n <= k
    BY <1>1, <2>1, <2>2
  <2>4. n - 1 \notin Has(u)
    BY <2>2, <2>3
  <2>. QED
    BY <2>2, <2>3, <2>4
<1>5. PICK n \in 1..N : t \in L[n] /\ t \notin L[n - 1]
  BY <1>2, <1>4
<1>6. n \in Nat /\ n - 1 \in Nat /\ (n - 1) + 1 = n
  BY <1>2
<1>7. ASSUME NEW m \in 1..N, t \in L[m], t \notin L[m - 1]
      PROVE  m = n
  <2>1. m \in Nat /\ m - 1 \in Nat
    BY <1>2
  <2>2. ~(m <= n - 1) /\ ~(n <= m - 1)
    BY <1>1, <1>5, <1>6, <1>7, <2>1
  <2>. QED
    BY <1>6, <2>1, <2>2
<1>8. d[t].deps \subseteq L[n - 1]
  BY <1>1, <1>5, <1>6 DEF Freed
<1>9. ASSUME NEW u \in d[t].deps
      PROVE  \E m \in 1..(n - 1) : u \in Layers(d)[m]
  <2>1. PICK m \in 1..(n - 1) : u \in L[m] /\ u \notin L[m - 1]
    BY <1>4, <1>6, <1>8
  <2>2. m \in 1..N
    BY <1>2, <1>6
  <2>. QED
    BY <1>3, <2>1, <2>2
<1>10. t \in Layers(d)[n] /\ \A m \in 1..N : t \in Layers(d)[m] => m = n
  BY <1>3, <1>5, <1>7
<1>. QED
  BY <1>9, <1>10 DEF N

-----------------------------------------------------------------------------
\* A layer is split into Waves.

Ascending(s, S) == /\ s \in [1..Cardinality(S) -> S]
                   /\ \A i, j \in DOMAIN s : i < j => s[i] < s[j]
                   /\ \A t \in S : \E i \in DOMAIN s : s[i] = t

\* Any finite set of numbers can be put in order: its least number first.
LEMMA OrderExists ==
  ASSUME NEW S, S \subseteq Nat, IsFiniteSet(S)
  PROVE  \E s : Ascending(s, S)
<1> DEFINE Sortable == {n \in Nat : \A T : T \subseteq Nat /\ IsFiniteSet(T) /\ Cardinality(T) = n
                                           => \E s : Ascending(s, T)}
<1>1. 0 \in Sortable
  <2> SUFFICES ASSUME NEW T, IsFiniteSet(T), Cardinality(T) = 0
               PROVE  \E s : Ascending(s, T)
    OBVIOUS
  <2>1. T = {} /\ Cardinality(T) = 0
    BY FS_EmptySet
  <2>2. Ascending([i \in 1..0 |-> 0], T)
    BY <2>1 DEF Ascending
  <2>. QED
    BY <2>2
<1>2. ASSUME NEW n \in Nat, n \in Sortable
      PROVE  n + 1 \in Sortable
  <2> SUFFICES ASSUME NEW T, T \subseteq Nat, IsFiniteSet(T), Cardinality(T) = n + 1
               PROVE  \E s : Ascending(s, T)
    OBVIOUS
  <2>1. T # {}
    BY FS_EmptySet
  <2>2. PICK least \in T : \A m \in T : least <= m
    BY <2>1, LeastNatural
  <2> DEFINE R == T \ {least}
  <2>3. R \subseteq Nat /\ IsFiniteSet(R) /\ Cardinality(R) = n
    <3>1. IsFiniteSet(T \ {least}) /\ Cardinality(T \ {least}) = Cardinality(T) - 1
      BY FS_RemoveElement
    <3>. QED
      BY <3>1
  <2>4. PICK r : Ascending(r, R)
    <3> HIDE DEF R
    <3>. QED
      BY <1>2, <2>3
  <2>5. /\ r \in [1..n -> R] /\ \A i, j \in 1..n : i < j => r[i] < r[j]
        /\ \A t \in R : \E i \in 1..n : r[i] = t
    BY <2>3, <2>4 DEF Ascending
  <2> DEFINE s == [i \in 1..(n + 1) |-> IF i = 1 THEN least ELSE r[i - 1]]
  <2>6. s[1] = least /\ \A i \in 1..n : s[i + 1] = r[i]
    OBVIOUS
  <2>7. \A i \in 1..(n + 1) : i = 1 \/ (i - 1 \in 1..n /\ s[i] = r[i - 1])
    OBVIOUS
  <2>8. DOMAIN s = 1..(n + 1) /\ s = [i \in 1..(n + 1) |-> s[i]]
    OBVIOUS
  <2> HIDE DEF s
  <2>9. \A i \in 1..(n + 1) : s[i] \in T
    BY <2>5, <2>6, <2>7
  <2>10. s \in [1..(n + 1) -> T]
    BY <2>8, <2>9
  <2>11. ASSUME NEW i \in 1..(n + 1), NEW j \in 1..(n + 1), i < j
         PROVE  s[i] < s[j]
    <3>1. j # 1 /\ j - 1 \in 1..n /\ s[j] = r[j - 1] /\ r[j - 1] \in R
      BY <2>5, <2>7, <2>11
    <3>2. CASE i = 1
      <4>1. s[i] = least /\ s[j] \in T /\ s[j] # least
        BY <2>6, <3>1, <3>2
      <4>2. least <= s[j] /\ least \in Nat /\ s[j] \in Nat
        BY <2>2, <4>1
      <4>. QED
        BY <4>1, <4>2
    <3>3. CASE i # 1
      <4>1. i - 1 \in 1..n /\ s[i] = r[i - 1] /\ i - 1 < j - 1
        BY <2>7, <2>11, <3>3
      <4>. QED
        BY <2>5, <3>1, <4>1
    <3>. QED
      BY <3>2, <3>3
  <2>12. \A t \in T : \E i \in 1..(n + 1) : s[i] = t
    <3> TAKE t \in T
    <3>1. CASE t = least
      BY <2>6, <3>1
    <3>2. CASE t # least
      <4>1. PICK i \in 1..n : r[i] = t
        BY <2>5, <3>2
      <4>2. i + 1 \in 1..(n + 1) /\ s[i + 1] = t
        BY <2>6, <4>1
      <4>. QED
        BY <4>2
    <3>. QED
      BY <3>1, <3>2
  <2>13. Ascending(s, T)
    BY <2>8, <2>10, <2>11, <2>12 DEF Ascending
  <2>. QED
    BY <2>13
<1>3. Nat \subseteq Sortable
  <2> HIDE DEF Sortable
  <2>. QED
    BY <1>1, <1>2, AllNaturals
<1>4. Cardinality(S) \in Nat
  BY FS_CardinalityType
<1>. QED
  BY <1>3, <1>4

LEMMA InOrderSorts ==
  ASSUME NEW S, S \subseteq Task
  PROVE  /\ InOrder(S) \in Seq(S)
         /\ \A i, j \in DOMAIN InOrder(S) : InOrder(S)[i] = InOrder(S)[j] => i = j
         /\ \A t \in S : \E i \in DOMAIN InOrder(S) : InOrder(S)[i] = t
<1> DEFINE n == Cardinality(S)
           Fits(s) == \A i, j \in DOMAIN s : i < j => s[i] < s[j]
           s == InOrder(S)
<1>1. S \subseteq Nat /\ IsFiniteSet(S) /\ n \in Nat
  BY PlanParameters, FS_Subset, FS_CardinalityType DEF PlanAssumption
<1>2. PICK r : Ascending(r, S)
  BY <1>1, OrderExists
<1>3. s = CHOOSE q \in [1..n -> S] : Fits(q)
  BY DEF InOrder
<1>4. \E q \in [1..n -> S] : Fits(q)
  BY <1>2 DEF Ascending
<1> HIDE DEF Fits, s
<1>5. s \in [1..n -> S] /\ Fits(s)
  BY <1>3, <1>4
<1> HIDE DEF n
<1>6. s \in Seq(S) /\ DOMAIN s = 1..n
  BY <1>1, <1>5
<1>7. \A i, j \in DOMAIN s : s[i] = s[j] => i = j
  <2>1. \A i, j \in 1..n : i < j => s[i] < s[j]
    BY <1>5 DEF Fits
  <2>2. \A i \in 1..n : s[i] \in S
    BY <1>5
  <2>3. \A i \in 1..n : s[i] \in Nat
    BY <1>1, <2>2
  <2>4. \A i \in 1..n : i \in Nat
    BY <1>1
  <2>. QED
    BY <1>6, <2>1, <2>3, <2>4
<1>8. \A t \in S : \E i \in DOMAIN s : s[i] = t
  <2>1. s \in Injection(1..n, S)
    BY <1>5, <1>6, <1>7 DEF Injection, IsInjective
  <2>2. IsFiniteSet(1..n) /\ Cardinality(1..n) = n
    BY <1>1, FS_Interval
  <2>3. s \in Surjection(1..n, S)
    BY <1>1, <2>1, <2>2, FS_Injection DEF n
  <2>. QED
    BY <1>6, <2>3 DEF Surjection
<1>. QED
  BY <1>6, <1>7, <1>8 DEF s

LEMMA Division ==
  ASSUME NEW a \in Nat, NEW b \in Nat, b # 0
  PROVE  /\ a \div b \in Nat
         /\ (a \div b) * b <= a
         /\ a < (a \div b) * b + b
OBVIOUS

LEMMA Multiples ==
  ASSUME NEW i \in Nat, NEW k \in Nat, NEW b \in Nat, i <= k
  PROVE  i * b <= k * b /\ i * b \in Nat /\ (i + 1) * b = i * b + b
OBVIOUS

\* The chunks of a sequence of length n: they are not empty, not longer than b,
\* and every index is in one of them.
Chunked(n, b, c) ==
  /\ c \in Nat
  /\ \A i \in 1..c : /\ (i-1) * b \in Nat /\ i * b = (i-1) * b + b
                     /\ (i-1) * b < n
  /\ \A j \in 1..n : \E i \in 1..c : (i-1) * b < j /\ j <= i * b
  /\ \A j \in 1..n : \A i, k \in 1..c :
       (i-1) * b < j /\ j <= i * b /\ (k-1) * b < j /\ j <= k * b => i = k

LEMMA ChunksCover ==
  ASSUME NEW n \in Nat, NEW b \in Nat, b # 0, NEW c, c = (n + b - 1) \div b
  PROVE  Chunked(n, b, c)
<1>1. c \in Nat /\ c * b <= n + b - 1 /\ n + b - 1 < c * b + b
  <2>1. n + b - 1 \in Nat
    OBVIOUS
  <2>. QED
    BY <2>1, Division
<1>2. ASSUME NEW i \in 1..c
      PROVE  /\ (i-1) * b \in Nat /\ i * b = (i-1) * b + b
             /\ (i-1) * b < n
  <2>1. i - 1 \in Nat /\ i \in Nat /\ i <= c /\ (i - 1) + 1 = i /\ c \in Nat
    BY <1>1
  <2>2. (i-1) * b \in Nat /\ ((i - 1) + 1) * b = (i-1) * b + b
    BY <2>1, Multiples
  <2>3. i * b <= c * b
    BY <2>1, Multiples
  <2>4. i * b = (i-1) * b + b
    BY <2>1, <2>2
  <2> DEFINE x == i * b
             y == (i-1) * b
             z == c * b
  <2>5. x <= z /\ x = y + b /\ y \in Nat /\ z <= n + b - 1 /\ z \in Nat
    BY <1>1, <2>2, <2>3, <2>4
  <2> HIDE DEF x, y, z
  <2>6. y < n
    BY <2>5
  <2>. QED
    BY <2>2, <2>4, <2>6 DEF y
<1>3. ASSUME NEW j \in 1..n
      PROVE  \E i \in 1..c : (i-1) * b < j /\ j <= i * b
  <2> DEFINE q == (j - 1) \div b
  <2>1. q \in Nat /\ q * b <= j - 1 /\ j - 1 < q * b + b
    <3>1. j - 1 \in Nat
      OBVIOUS
    <3>. QED
      BY <3>1, Division
  <2> HIDE DEF q
  <2>2. q * b \in Nat /\ (q + 1) * b = q * b + b
    BY <2>1, Multiples
  <2>3. q + 1 <= c
    <3> SUFFICES ASSUME ~(q + 1 <= c)
                 PROVE  FALSE
      OBVIOUS
    <3>1. c <= q
      BY <1>1, <2>1
    <3>2. c * b <= q * b /\ c * b \in Nat
      BY <1>1, <2>1, <3>1, Multiples
    <3> DEFINE x == q * b
               z == c * b
    <3>3. z <= x /\ z \in Nat /\ x \in Nat /\ x <= j - 1 /\ n + b - 1 < z + b
      BY <1>1, <2>1, <2>2, <3>2
    <3> HIDE DEF x, z
    <3>. QED
      BY <3>3
  <2> DEFINE x == q * b
  <2>4. x < j /\ j <= x + b
    BY <2>1, <2>2
  <2>5. q + 1 \in 1..c /\ (q + 1) - 1 = q
    BY <1>1, <2>1, <2>3
  <2>6. ((q + 1) - 1) * b < j /\ j <= (q + 1) * b
    BY <2>2, <2>4, <2>5
  <2>. QED
    BY <2>5, <2>6
<1>4. ASSUME NEW j \in 1..n, NEW i \in 1..c, NEW k \in 1..c, i < k,
             j <= i * b, (k-1) * b < j
      PROVE  FALSE
  <2>1. i \in Nat /\ k - 1 \in Nat /\ i <= k - 1
    BY <1>1, <1>4
  <2>2. i * b <= (k-1) * b /\ i * b \in Nat
    BY <2>1, Multiples
  <2>3. (k-1) * b \in Nat
    BY <1>2
  <2> DEFINE x == i * b
             y == (k-1) * b
  <2>4. x <= y /\ x \in Nat /\ y \in Nat /\ j <= x /\ y < j
    BY <1>4, <2>2, <2>3
  <2> HIDE DEF x, y
  <2>. QED
    BY <2>4
<1>5. \A j \in 1..n : \A i, k \in 1..c :
        (i-1) * b < j /\ j <= i * b /\ (k-1) * b < j /\ j <= k * b => i = k
  <2>1. \A i, k \in 1..c : i < k \/ k < i \/ i = k
    BY <1>1
  <2>. QED
    BY <1>4, <2>1
<1>. QED
  BY <1>1, <1>2, <1>3, <1>5 DEF Chunked

LEMMA PartOfSequence ==
  ASSUME NEW T, NEW s \in Seq(T), NEW a \in Nat, NEW b \in Nat, a < b, b <= Len(s)
  PROVE  /\ SubSeq(s, a + 1, b) \in Seq(T)
         /\ Len(SubSeq(s, a + 1, b)) = b - a
         /\ \A j \in 1..(b - a) : SubSeq(s, a + 1, b)[j] = s[a + j]
<1>1. Len(s) \in Nat /\ a + 1 \in 1..Len(s) /\ b \in 1..Len(s)
  OBVIOUS
<1>2. SubSeq(s, a + 1, b) \in Seq(T)
  BY <1>1
<1>3. Len(SubSeq(s, a + 1, b)) = b - a
  BY <1>1
<1>4. ASSUME NEW j \in 1..(b - a)
      PROVE  SubSeq(s, a + 1, b)[j] = s[a + j]
  BY <1>1
<1>. QED
  BY <1>2, <1>3, <1>4

\* The Waves that a declaration can give
WaveOf(d) == {Wave(d, s) : s \in Seq(Task)}

LEMMA WaveTasks ==
  ASSUME NEW d, NEW s \in Seq(Task)
  PROVE  /\ Wave(d, s) \in WaveOf(d)
         /\ Wave(d, s).tasks = s
         /\ TasksOf(Wave(d, s)) = {s[i] : i \in DOMAIN s}
BY DEF WaveOf, Wave, TasksOf, ToSet

\* The Waves W of a layer: max tasks at most, each task in one of them, and
\* together with another only if both are parallel-safe
Split(d, layer, max, W) ==
  /\ \A i \in 1..Len(W) :
       /\ 1 <= Len(W[i].tasks) /\ Len(W[i].tasks) <= max
       /\ TasksOf(W[i]) \subseteq layer
       /\ \A t, u \in TasksOf(W[i]) : t # u => d[t].safe /\ d[u].safe
  /\ \A t \in layer : \E i \in 1..Len(W) : t \in TasksOf(W[i])
  /\ \A i, k \in 1..Len(W) : TasksOf(W[i]) \cap TasksOf(W[k]) # {} => i = k

\* _split_layer_into_waves does that.
LEMMA LayerIsSplit ==
  ASSUME NEW d, NEW layer, layer \subseteq Task, NEW max \in Nat, max # 0,
         NEW W, W = SplitLayer(d, layer, max)
  PROVE  W \in Seq(WaveOf(d)) /\ Split(d, layer, max, W)
<1> DEFINE Safe == {t \in layer : d[t].safe}
           Lone == {t \in layer : ~d[t].safe}
           group == InOrder(Safe)
           solo == InOrder(Lone)
           n == Len(group)
           c == (n + max - 1) \div max
           Low(i) == (i-1) * max
           High(i) == Smaller(i * max, n)
           A == [i \in DOMAIN solo |-> Wave(d, <<solo[i]>>)]
           Chunk(i) == SubSeq(group, Low(i) + 1, High(i))
           B == [i \in 1..c |-> Wave(d, Chunk(i))]
           ns == Len(solo)
<1>1. W = A \o B
  BY DEF SplitLayer
<1>2. /\ Safe \subseteq Task /\ Lone \subseteq Task /\ Safe \subseteq layer /\ Lone \subseteq layer
      /\ Safe \cap Lone = {} /\ layer = Safe \cup Lone
      /\ \A t \in Safe : d[t].safe
  OBVIOUS
<1> HIDE DEF Safe, Lone, group, solo
<1>3. /\ group \in Seq(Safe) /\ solo \in Seq(Lone)
      /\ \A i, j \in DOMAIN group : group[i] = group[j] => i = j
      /\ \A t \in Safe : \E i \in DOMAIN group : group[i] = t
      /\ \A i, j \in DOMAIN solo : solo[i] = solo[j] => i = j
      /\ \A t \in Lone : \E i \in DOMAIN solo : solo[i] = t
  BY <1>2, InOrderSorts DEF group, solo
<1>4. n \in Nat /\ ns \in Nat /\ DOMAIN group = 1..n /\ DOMAIN solo = 1..ns
  BY <1>3
<1> HIDE DEF n, ns, c
<1>5. /\ c \in Nat
      /\ \A i \in 1..c : Low(i) \in Nat /\ i * max = Low(i) + max /\ Low(i) < n
      /\ \A j \in 1..n : \E i \in 1..c : Low(i) < j /\ j <= i * max
      /\ \A j \in 1..n : \A i, k \in 1..c :
           Low(i) < j /\ j <= i * max /\ Low(k) < j /\ j <= k * max => i = k
  <2>1. c = (n + max - 1) \div max
    BY DEF c
  <2>2. Chunked(n, max, c)
    BY <1>4, <2>1, ChunksCover
  <2>. QED
    BY <2>2 DEF Chunked
<1>6. ASSUME NEW i \in 1..c
      PROVE  /\ High(i) \in Nat /\ Low(i) < High(i) /\ High(i) <= n /\ High(i) <= Low(i) + max
             /\ \A j \in 1..n : (Low(i) < j /\ j <= High(i)) <=> (Low(i) < j /\ j <= i * max)
  <2> DEFINE x == Low(i)
             y == i * max
  <2>1. x \in Nat /\ y = x + max /\ x < n
    BY <1>5
  <2> HIDE DEF x, y
  <2>2. /\ Smaller(y, n) \in Nat /\ x < Smaller(y, n) /\ Smaller(y, n) <= n
        /\ Smaller(y, n) <= x + max
        /\ \A j \in 1..n : (x < j /\ j <= Smaller(y, n)) <=> (x < j /\ j <= y)
    BY <1>4, <2>1 DEF Smaller
  <2>. QED
    BY <2>2 DEF x, y
<1> HIDE DEF Low, High
<1>7. ASSUME NEW i \in 1..c
      PROVE  /\ Chunk(i) \in Seq(Safe) /\ Len(Chunk(i)) = High(i) - Low(i)
             /\ \A j \in 1..(High(i) - Low(i)) : Chunk(i)[j] = group[Low(i) + j]
             /\ {Chunk(i)[j] : j \in DOMAIN Chunk(i)}
                  = {group[j] : j \in {k \in 1..n : Low(i) < k /\ k <= High(i)}}
  <2> DEFINE lo == Low(i)
             hi == High(i)
             s == SubSeq(group, lo + 1, hi)
  <2>1. lo \in Nat /\ hi \in Nat /\ lo < hi /\ hi <= n
    BY <1>5, <1>6
  <2> HIDE DEF lo, hi
  <2>2. s \in Seq(Safe) /\ Len(s) = hi - lo /\ \A j \in 1..(hi - lo) : s[j] = group[lo + j]
    <3>1. group \in Seq(Safe) /\ hi <= Len(group)
      BY <1>3, <2>1 DEF n
    <3>. QED
      BY <2>1, <3>1, PartOfSequence
  <2>3. DOMAIN s = 1..(hi - lo)
    BY <2>1, <2>2
  <2> HIDE DEF s
  <2>4. \A j \in 1..(hi - lo) : lo + j \in 1..n /\ lo < lo + j /\ lo + j <= hi
    BY <1>4, <2>1
  <2>5. \A k \in 1..n : lo < k /\ k <= hi => k - lo \in 1..(hi - lo) /\ lo + (k - lo) = k
    BY <1>4, <2>1
  <2>6. {s[j] : j \in DOMAIN s} = {group[j] : j \in {k \in 1..n : lo < k /\ k <= hi}}
    <3>1. ASSUME NEW j \in DOMAIN s
          PROVE  \E k \in 1..n : lo < k /\ k <= hi /\ s[j] = group[k]
      BY <2>2, <2>3, <2>4
    <3>2. ASSUME NEW k \in 1..n, lo < k, k <= hi
          PROVE  \E j \in DOMAIN s : s[j] = group[k]
      BY <2>2, <2>3, <2>5, <3>2
    <3>. QED
      BY <3>1, <3>2
  <2>. QED
    BY <2>2, <2>6 DEF lo, hi, s
<1> HIDE DEF Chunk
<1>8. /\ Seq(Safe) \subseteq Seq(Task) /\ Seq(Lone) \subseteq Seq(Task)
      /\ DOMAIN A = 1..ns /\ A = [i \in 1..ns |-> A[i]]
      /\ \A i \in 1..ns : A[i] = Wave(d, <<solo[i]>>)
      /\ DOMAIN B = 1..c /\ B = [i \in 1..c |-> B[i]]
      /\ \A i \in 1..c : B[i] = Wave(d, Chunk(i))
  BY <1>2, <1>4
<1> HIDE DEF A, B
<1>9. ASSUME NEW i \in 1..ns
      PROVE  /\ A[i] \in WaveOf(d) /\ A[i].tasks = <<solo[i]>> /\ TasksOf(A[i]) = {solo[i]}
             /\ solo[i] \in Lone
  <2>1. solo[i] \in Lone /\ solo[i] \in Task
    BY <1>2, <1>3, <1>4
  <2>2. A[i] = Wave(d, <<solo[i]>>)
    BY <1>8
  <2>3. <<solo[i]>> \in Seq(Task) /\ {<<solo[i]>>[k] : k \in DOMAIN <<solo[i]>>} = {solo[i]}
    BY <2>1
  <2> DEFINE s == <<solo[i]>>
  <2>4. s \in Seq(Task) /\ {s[k] : k \in DOMAIN s} = {solo[i]} /\ A[i] = Wave(d, s)
    BY <2>2, <2>3
  <2> HIDE DEF s
  <2>5. A[i] \in WaveOf(d) /\ A[i].tasks = s /\ TasksOf(A[i]) = {solo[i]}
    BY <2>4, WaveTasks
  <2>. QED
    BY <2>1, <2>5 DEF s
<1>10. ASSUME NEW i \in 1..c
       PROVE  /\ B[i] \in WaveOf(d) /\ B[i].tasks = Chunk(i)
              /\ TasksOf(B[i]) = {group[j] : j \in {k \in 1..n : Low(i) < k /\ k <= High(i)}}
              /\ TasksOf(B[i]) \subseteq Safe
  <2>1. Chunk(i) \in Seq(Task) /\ B[i] = Wave(d, Chunk(i))
    BY <1>7, <1>8
  <2>2. /\ B[i] \in WaveOf(d) /\ B[i].tasks = Chunk(i)
        /\ TasksOf(B[i]) = {Chunk(i)[j] : j \in DOMAIN Chunk(i)}
    BY <2>1, WaveTasks
  <2>3. \A k \in 1..n : group[k] \in Safe
    BY <1>3, <1>4
  <2> DEFINE mine == {group[j] : j \in {k \in 1..n : Low(i) < k /\ k <= High(i)}}
  <2>4. {Chunk(i)[j] : j \in DOMAIN Chunk(i)} = mine
    BY <1>7
  <2>5. mine \subseteq Safe
    BY <2>3
  <2> HIDE DEF mine
  <2>6. TasksOf(B[i]) = mine
    BY <2>2, <2>4
  <2>. QED
    BY <2>2, <2>5, <2>6 DEF mine
<1>11. A \in Seq(WaveOf(d)) /\ Len(A) = ns /\ B \in Seq(WaveOf(d)) /\ Len(B) = c
  <2>1. \A i \in 1..ns : A[i] \in WaveOf(d)
    BY <1>9
  <2>2. \A i \in 1..c : B[i] \in WaveOf(d)
    BY <1>10
  <2>3. A \in [1..ns -> WaveOf(d)] /\ B \in [1..c -> WaveOf(d)]
    BY <1>8, <2>1, <2>2
  <2>. QED
    BY <1>4, <1>5, <2>3
<1>12. /\ W \in Seq(WaveOf(d)) /\ Len(W) = ns + c /\ DOMAIN W = 1..(ns + c)
       /\ \A i \in 1..ns : W[i] = A[i] /\ i \in DOMAIN W
       /\ \A i \in 1..c : W[ns + i] = B[i] /\ ns + i \in DOMAIN W
  <2> DEFINE X == WaveOf(d)
  <2> HIDE DEF X
  <2>1. /\ A \in Seq(X) /\ Len(A) = ns /\ B \in Seq(X) /\ Len(B) = c
        /\ ns \in Nat /\ c \in Nat
    BY <1>4, <1>5, <1>11 DEF X
  <2>2. A \o B \in Seq(X) /\ Len(A \o B) = ns + c
    BY <2>1
  <2>3. \A i \in 1..ns : (A \o B)[i] = A[i]
    <3>1. \A i \in 1..Len(A) : (A \o B)[i] = A[i]
      BY <2>1
    <3>. QED
      BY <2>1, <3>1
  <2>4. \A i \in 1..c : (A \o B)[ns + i] = B[i]
    <3>1. \A i \in 1..Len(B) : (A \o B)[Len(A) + i] = B[i]
      BY <2>1
    <3>. QED
      BY <2>1, <3>1
  <2>5. W \in Seq(X) /\ Len(W) = ns + c /\ DOMAIN W = 1..(ns + c)
    BY <1>1, <2>2
  <2>. QED
    BY <1>1, <2>1, <2>3, <2>4, <2>5 DEF X
<1>13. \A i \in DOMAIN W : i \in 1..ns \/ \E k \in 1..c : i = ns + k
  <2> TAKE i \in DOMAIN W
  <2>1. i \in 1..ns \/ (i - ns \in 1..c /\ i = ns + (i - ns))
    <3>1. ns \in Nat /\ c \in Nat /\ i \in 1..(ns + c)
      BY <1>4, <1>5, <1>12
    <3>. QED
      BY <3>1
  <2>. QED
    BY <2>1
<1>14. ASSUME NEW i \in DOMAIN W
       PROVE  /\ 1 <= Len(W[i].tasks) /\ Len(W[i].tasks) <= max
              /\ TasksOf(W[i]) \subseteq layer
              /\ \A t, u \in TasksOf(W[i]) : t # u => d[t].safe /\ d[u].safe
  <2>1. CASE i \in 1..ns
    <3>1. W[i].tasks = <<solo[i]>> /\ TasksOf(W[i]) = {solo[i]} /\ solo[i] \in Lone
      BY <1>9, <1>12, <2>1
    <3>2. Len(W[i].tasks) = 1
      BY <3>1
    <3>3. 1 <= Len(W[i].tasks) /\ Len(W[i].tasks) <= max
      BY <3>2
    <3>. QED
      BY <1>2, <3>1, <3>3
  <2>2. ASSUME NEW k \in 1..c, i = ns + k
        PROVE  /\ 1 <= Len(W[i].tasks) /\ Len(W[i].tasks) <= max
               /\ TasksOf(W[i]) \subseteq Safe
    <3>1. W[i].tasks = Chunk(k) /\ TasksOf(W[i]) \subseteq Safe
      BY <1>10, <1>12, <2>2
    <3>2. Len(W[i].tasks) = High(k) - Low(k)
      BY <1>7, <3>1
    <3>3. /\ Low(k) \in Nat /\ High(k) \in Nat /\ Low(k) < High(k)
          /\ High(k) <= Low(k) + max
      BY <1>5, <1>6
    <3>. QED
      BY <3>1, <3>2, <3>3
  <2>3. (\E k \in 1..c : i = ns + k) =>
           /\ 1 <= Len(W[i].tasks) /\ Len(W[i].tasks) <= max
           /\ TasksOf(W[i]) \subseteq layer
           /\ \A t, u \in TasksOf(W[i]) : t # u => d[t].safe /\ d[u].safe
    BY <1>2, <2>2
  <2>. QED
    BY <1>13, <2>1, <2>3
<1>15. \A t \in layer : \E i \in DOMAIN W : t \in TasksOf(W[i])
  <2> TAKE t \in layer
  <2>1. CASE t \in Lone
    <3>1. PICK i \in 1..ns : solo[i] = t
      BY <1>3, <1>4, <2>1
    <3>. QED
      BY <1>9, <1>12, <3>1
  <2>2. CASE t \in Safe
    <3>1. PICK j \in 1..n : group[j] = t
      BY <1>3, <1>4, <2>2
    <3>2. PICK i \in 1..c : Low(i) < j /\ j <= i * max
      BY <1>5
    <3>3. Low(i) < j /\ j <= High(i)
      BY <1>6, <3>2
    <3>4. t \in TasksOf(B[i])
      BY <1>10, <3>1, <3>3
    <3>. QED
      BY <1>12, <3>4
  <2>. QED
    BY <1>2, <2>1, <2>2
<1>16. ASSUME NEW i \in DOMAIN W, NEW k \in DOMAIN W,
              NEW t \in TasksOf(W[i]) \cap TasksOf(W[k])
       PROVE  i = k
  <2>1. CASE t \in Lone
    <3>1. ASSUME NEW x \in DOMAIN W, t \in TasksOf(W[x])
          PROVE  x \in 1..ns /\ t = solo[x]
      <4>1. ~ \E y \in 1..c : x = ns + y
        BY <1>2, <1>10, <1>12, <2>1, <3>1
      <4>2. x \in 1..ns
        BY <1>13, <4>1
      <4>. QED
        BY <1>9, <1>12, <3>1, <4>2
    <3>2. i \in 1..ns /\ k \in 1..ns /\ solo[i] = solo[k]
      BY <3>1
    <3>. QED
      BY <1>3, <1>4, <3>2
  <2>2. CASE t \notin Lone
    <3>1. ASSUME NEW x \in DOMAIN W, t \in TasksOf(W[x])
          PROVE  \E y \in 1..c : x = ns + y /\ t \in TasksOf(B[y])
      <4>1. x \notin 1..ns
        BY <1>9, <1>12, <2>2, <3>1
      <4>2. PICK y \in 1..c : x = ns + y
        BY <1>13, <4>1
      <4>. QED
        BY <1>12, <3>1, <4>2
    <3>2. PICK y \in 1..c : i = ns + y /\ t \in TasksOf(B[y])
      BY <3>1
    <3>3. PICK z \in 1..c : k = ns + z /\ t \in TasksOf(B[z])
      BY <3>1
    <3>4. PICK j \in 1..n : group[j] = t /\ Low(y) < j /\ j <= High(y)
      BY <1>10, <3>2
    <3>5. PICK l \in 1..n : group[l] = t /\ Low(z) < l /\ l <= High(z)
      BY <1>10, <3>3
    <3>6. j = l
      <4>1. group[j] = group[l] /\ j \in DOMAIN group /\ l \in DOMAIN group
        BY <1>4, <3>4, <3>5
      <4>. QED
        BY <1>3, <4>1
    <3>7. Low(y) < j /\ j <= y * max /\ Low(z) < j /\ j <= z * max
      BY <1>6, <3>4, <3>5, <3>6
    <3>8. y = z
      BY <1>5, <3>7
    <3>. QED
      BY <3>2, <3>3, <3>8
  <2>. QED
    BY <2>1, <2>2
<1>17. DOMAIN W = 1..Len(W)
  BY <1>12
<1>. QED
  BY <1>12, <1>14, <1>15, <1>16, <1>17 DEF Split

-----------------------------------------------------------------------------
\* The Waves of one layer after the other

\* The first n sequences of S, joined in h[n]
Joined(h, S, n, X) ==
  /\ h[n] \in Seq(X)
  /\ \A m \in 0..n : Len(h[m]) \in Nat /\ Len(h[m]) <= Len(h[n])
  /\ \A m \in 1..n : Len(h[m]) = Len(h[m-1]) + Len(S[m])
  /\ \A m \in 1..n : \A k \in 1..Len(S[m]) : h[n][Len(h[m-1]) + k] = S[m][k]
  /\ \A i \in 1..Len(h[n]) : \E m \in 1..n : \E k \in 1..Len(S[m]) : i = Len(h[m-1]) + k

LEMMA JoinStep ==
  ASSUME NEW X, NEW h, NEW S \in Seq(Seq(X)), NEW n \in Nat, n < Len(S),
         Joined(h, S, n, X), h[n + 1] = h[n] \o S[n + 1]
  PROVE  Joined(h, S, n + 1, X)
<1> DEFINE a == h[n]
           b == S[n + 1]
           c == h[n + 1]
<1>1. a \in Seq(X) /\ b \in Seq(X) /\ c = a \o b
  BY DEF Joined
<1> HIDE DEF a, b, c
<1>2. /\ c \in Seq(X) /\ Len(a) \in Nat /\ Len(b) \in Nat /\ Len(c) = Len(a) + Len(b)
      /\ \A i \in 1..Len(a) : c[i] = a[i]
      /\ \A i \in 1..Len(b) : c[Len(a) + i] = b[i]
  BY <1>1
<1>3. /\ \A m \in 0..n : Len(h[m]) \in Nat /\ Len(h[m]) <= Len(a)
      /\ \A m \in 1..n : Len(h[m]) = Len(h[m-1]) + Len(S[m])
      /\ \A m \in 1..n : \A k \in 1..Len(S[m]) : a[Len(h[m-1]) + k] = S[m][k]
      /\ \A i \in 1..Len(a) : \E m \in 1..n : \E k \in 1..Len(S[m]) : i = Len(h[m-1]) + k
  BY DEF Joined, a
<1>4. \A m \in 0..(n + 1) : m \in 0..n \/ m = n + 1
  OBVIOUS
<1>5. \A m \in 1..(n + 1) : m \in 1..n \/ m = n + 1
  OBVIOUS
<1>6. ASSUME NEW m \in 0..(n + 1)
      PROVE  Len(h[m]) \in Nat /\ Len(h[m]) <= Len(c)
  <2>1. CASE m = n + 1
    <3>1. h[m] = c
      BY <2>1 DEF c
    <3>2. Len(c) \in Nat
      BY <1>2
    <3>. QED
      BY <3>1, <3>2
  <2>2. CASE m \in 0..n
    BY <1>2, <1>3, <2>2
  <2>. QED
    BY <1>4, <2>1, <2>2
<1>7. ASSUME NEW m \in 1..(n + 1)
      PROVE  Len(h[m]) = Len(h[m-1]) + Len(S[m])
  <2>1. CASE m = n + 1
    <3>1. m - 1 = n
      BY <2>1
    <3>. QED
      BY <1>2, <2>1, <3>1 DEF a, b, c
  <2>. QED
    BY <1>3, <1>5, <2>1
<1>8. ASSUME NEW m \in 1..(n + 1), NEW k \in 1..Len(S[m])
      PROVE  c[Len(h[m-1]) + k] = S[m][k]
  <2>1. CASE m = n + 1
    <3>1. m - 1 = n
      BY <2>1
    <3>. QED
      BY <1>2, <2>1, <3>1 DEF a, b
  <2>2. CASE m \in 1..n
    <3>1. a[Len(h[m-1]) + k] = S[m][k]
      BY <1>3, <2>2
    <3> DEFINE p == Len(h[m-1])
               q == Len(S[m])
    <3>2. p \in Nat /\ q \in Nat /\ p + q <= Len(a)
      <4>1. m - 1 \in 0..n /\ m \in 0..n /\ m \in 1..Len(S)
        BY <2>2
      <4>2. S[m] \in Seq(X)
        BY <4>1
      <4>3. Len(S[m]) \in Nat
        BY <4>2
      <4>4. Len(h[m-1]) \in Nat
        BY <1>3, <4>1
      <4>5. Len(h[m]) = Len(h[m-1]) + Len(S[m]) /\ Len(h[m]) <= Len(a)
        BY <1>3, <2>2, <4>1
      <4>. QED
        BY <4>3, <4>4, <4>5
    <3>3. k \in 1..q
      OBVIOUS
    <3> HIDE DEF p, q
    <3>4. p + k \in 1..Len(a)
      BY <1>2, <3>2, <3>3
    <3>5. c[p + k] = a[p + k]
      BY <1>2, <3>4
    <3>. QED
      BY <3>1, <3>5 DEF p
  <2>. QED
    BY <1>5, <2>1, <2>2
<1>9. ASSUME NEW i \in 1..Len(c)
      PROVE  \E m \in 1..(n + 1) : \E k \in 1..Len(S[m]) : i = Len(h[m-1]) + k
  <2>1. CASE i <= Len(a)
    <3>1. i \in 1..Len(a)
      BY <1>2, <2>1
    <3>2. PICK m \in 1..n : \E k \in 1..Len(S[m]) : i = Len(h[m-1]) + k
      BY <1>3, <3>1
    <3>3. m \in 1..(n + 1)
      OBVIOUS
    <3>. QED
      BY <3>2, <3>3
  <2>2. CASE ~(i <= Len(a))
    <3>1. i - Len(a) \in 1..Len(b) /\ i = Len(a) + (i - Len(a))
      BY <1>2, <2>2
    <3>2. n + 1 \in 1..(n + 1) /\ (n + 1) - 1 = n
      OBVIOUS
    <3>3. \E k \in 1..Len(S[n + 1]) : i = Len(h[(n + 1) - 1]) + k
      BY <3>1, <3>2 DEF a, b
    <3>. QED
      BY <3>2, <3>3
  <2>. QED
    BY <2>1, <2>2
<1>. QED
  BY <1>2, <1>6, <1>7, <1>8, <1>9 DEF Joined, c

LEMMA Flattened ==
  ASSUME NEW X, NEW S \in Seq(Seq(X))
  PROVE  \E h : h[Len(S)] = FlattenSeq(S) /\ Joined(h, S, Len(S), X)
<1> DEFINE N == Len(S)
           Is(f) == f = [i \in 1..N |-> IF i = 1 THEN S[i] ELSE f[i-1] \o S[i]]
           g == CHOOSE f : Is(f)
           h == [n \in 0..N |-> IF n = 0 THEN <<>> ELSE g[n]]
<1>0. N \in Nat
  OBVIOUS
<1>1. CASE N = 0
  <2>1. S = <<>> /\ FlattenSeq(S) = S
    BY <1>1 DEF FlattenSeq
  <2> DEFINE e == [n \in 0..0 |-> <<>>]
  <2>2. e[0] = <<>> /\ Len(e[0]) = 0 /\ e[0] \in Seq(X)
    OBVIOUS
  <2> HIDE DEF e
  <2>3. Joined(e, S, 0, X)
    BY <2>2 DEF Joined
  <2>4. e[Len(S)] = FlattenSeq(S) /\ Joined(e, S, Len(S), X)
    BY <1>1, <2>1, <2>2, <2>3
  <2>. QED
    BY <2>4
<1>2. CASE N # 0
  <2>1. \E f : Is(f)
    <3> DEFINE Q == Seq(X)
               none == <<>>
               F == [n \in Nat |-> [s \in Q |-> IF n < N THEN s \o S[n + 1] ELSE s]]
    <3>1. none \in Q
      OBVIOUS
    <3>2. F \in [Nat -> [Q -> Q]]
      <4>1. \A n \in Nat : n < N => S[n + 1] \in Seq(X)
        OBVIOUS
      <4>2. \A n \in Nat, s \in Q : (IF n < N THEN s \o S[n + 1] ELSE s) \in Q
        BY <4>1
      <4> HIDE DEF Q
      <4>. QED
        BY <4>2
    <3>3. \A n \in Nat, s \in Q : n < N => F[n][s] = s \o S[n + 1]
      OBVIOUS
    <3> HIDE DEF F, Q, none
    <3>4. PICK f \in [Nat -> Q] : Follows(f, none, F)
      BY <3>1, <3>2, RecursionWorks
    <3>5. f[0] = <<>> /\ \A n \in Nat : n < N => f[n + 1] = f[n] \o S[n + 1]
      BY <3>3, <3>4 DEF Follows, none
    <3>6. \A i \in 1..N : f[i] = IF i = 1 THEN S[i] ELSE f[i-1] \o S[i]
      <4> TAKE i \in 1..N
      <4>1. i - 1 \in Nat /\ i - 1 < N /\ (i - 1) + 1 = i
        OBVIOUS
      <4>2. f[i] = f[i - 1] \o S[i]
        BY <3>5, <4>1
      <4>3. CASE i = 1
        <5>1. f[i - 1] = <<>> /\ S[i] \in Seq(X)
          BY <3>5, <4>3
        <5>2. <<>> \o S[i] = S[i]
          BY <5>1
        <5>. QED
          BY <4>2, <4>3, <5>1, <5>2
      <4>. QED
        BY <4>2, <4>3
    <3> DEFINE r == [i \in 1..N |-> f[i]]
    <3>7. Is(r)
      <4>1. \A i \in 1..N : r[i] = f[i] /\ (i # 1 => i - 1 \in 1..N /\ r[i-1] = f[i-1])
        OBVIOUS
      <4>2. \A i \in 1..N : r[i] = IF i = 1 THEN S[i] ELSE r[i-1] \o S[i]
        BY <3>6, <4>1
      <4>3. r = [i \in 1..N |-> r[i]]
        OBVIOUS
      <4> HIDE DEF r
      <4>. QED
        BY <4>2, <4>3
    <3>. QED
      BY <3>7
  <2>2. Is(g)
    <3> HIDE DEF Is
    <3>. QED
      BY <2>1
  <2>3. FlattenSeq(S) = g[N]
    BY <1>2 DEF FlattenSeq
  <2> HIDE DEF g
  <2>4. h[0] = <<>> /\ h[N] = g[N]
    BY <1>0, <1>2
  <2>5. \A n \in Nat : n < N => h[n + 1] = h[n] \o S[n + 1]
    <3> TAKE n \in Nat
    <3> HAVE n < N
    <3>1. n + 1 \in 1..N /\ n + 1 # 0 /\ (n + 1) - 1 = n /\ S[n + 1] \in Seq(X)
      BY <1>0
    <3>2. h[n + 1] = g[n + 1]
      BY <3>1
    <3>3. g[n + 1] = IF n = 0 THEN S[n + 1] ELSE g[n] \o S[n + 1]
      <4>1. \A i \in 1..N : g[i] = IF i = 1 THEN S[i] ELSE g[i-1] \o S[i]
        BY <2>2
      <4>2. n + 1 = 1 <=> n = 0
        OBVIOUS
      <4>3. g[n + 1] = IF n + 1 = 1 THEN S[n + 1] ELSE g[(n + 1) - 1] \o S[n + 1]
        BY <3>1, <4>1
      <4>. QED
        BY <3>1, <4>2, <4>3
    <3>4. CASE n = 0
      <4>1. h[n] = <<>> /\ <<>> \o S[n + 1] = S[n + 1]
        BY <2>4, <3>1, <3>4
      <4>. QED
        BY <3>2, <3>3, <3>4, <4>1
    <3>5. CASE n # 0
      <4>1. h[n] = g[n]
        BY <1>0, <3>5
      <4>. QED
        BY <3>2, <3>3, <3>5, <4>1
    <3>. QED
      BY <3>4, <3>5
  <2> HIDE DEF h, N
  <2> DEFINE Good == {n \in Nat : n <= N => Joined(h, S, n, X)}
  <2>6. 0 \in Good
    <3>1. h[0] \in Seq(X) /\ Len(h[0]) = 0
      BY <2>4
    <3>2. Joined(h, S, 0, X)
      BY <3>1 DEF Joined
    <3>. QED
      BY <3>2
  <2>7. ASSUME NEW n \in Nat, n \in Good
        PROVE  n + 1 \in Good
    <3> SUFFICES ASSUME n + 1 <= N
                 PROVE  Joined(h, S, n + 1, X)
      OBVIOUS
    <3>1. n < N /\ Joined(h, S, n, X)
      BY <1>0, <2>7
    <3>. QED
      BY <2>5, <3>1, JoinStep DEF N
  <2>8. Nat \subseteq Good
    <3> HIDE DEF Good
    <3>. QED
      BY <2>6, <2>7, AllNaturals
  <2>9. Joined(h, S, N, X)
    BY <1>0, <2>8
  <2>. QED
    BY <2>3, <2>4, <2>9 DEF N
<1>. QED
  BY <1>1, <1>2

LEMMA JoinGrows ==
  ASSUME NEW X, NEW h, NEW S \in Seq(Seq(X)), Joined(h, S, Len(S), X),
         NEW m \in 0..Len(S), NEW n \in 0..Len(S), m <= n
  PROVE  Len(h[m]) <= Len(h[n])
<1> DEFINE N == Len(S)
           Good == {j \in Nat : m + j <= N => Len(h[m]) <= Len(h[m + j])}
<1>1. N \in Nat
  OBVIOUS
<1>2. \A i \in 0..N : Len(h[i]) \in Nat
  BY DEF Joined
<1>3. \A i \in 1..N : Len(h[i]) = Len(h[i-1]) + Len(S[i]) /\ Len(S[i]) \in Nat
  <2> TAKE i \in 1..N
  <2>1. S[i] \in Seq(X)
    OBVIOUS
  <2>2. Len(S[i]) \in Nat
    BY <2>1
  <2>. QED
    BY <2>2 DEF Joined
<1> HIDE DEF N
<1>4. 0 \in Good
  <2>1. m + 0 = m
    BY <1>1
  <2>2. Len(h[m]) \in Nat
    BY <1>2 DEF N
  <2>. QED
    BY <2>1, <2>2
<1>5. ASSUME NEW j \in Nat, j \in Good
      PROVE  j + 1 \in Good
  <2> SUFFICES ASSUME m + (j + 1) <= N
               PROVE  Len(h[m]) <= Len(h[m + (j + 1)])
    OBVIOUS
  <2> DEFINE q == m + j
  <2>1. q \in 0..N /\ q + 1 \in 1..N /\ q + 1 \in 0..N /\ (q + 1) - 1 = q /\ m + (j + 1) = q + 1 /\ m \in 0..N
    BY <1>1 DEF N
  <2>2. Len(h[m]) <= Len(h[q])
    BY <1>5, <2>1
  <2> HIDE DEF q
  <2>3. Len(h[q + 1]) = Len(h[q]) + Len(S[q + 1]) /\ Len(S[q + 1]) \in Nat
    BY <1>3, <2>1
  <2>4. Len(h[q]) \in Nat /\ Len(h[m]) \in Nat
    BY <1>2, <2>1
  <2> DEFINE x == Len(h[m])
             y == Len(h[q])
             z == Len(h[q + 1])
             w == Len(S[q + 1])
  <2>5. x <= y /\ z = y + w /\ w \in Nat /\ y \in Nat /\ x \in Nat
    BY <2>2, <2>3, <2>4
  <2> HIDE DEF x, y, z, w
  <2>6. x <= z
    BY <2>5
  <2>. QED
    BY <2>1, <2>6 DEF x, z
<1>6. Nat \subseteq Good
  <2> HIDE DEF Good
  <2>. QED
    BY <1>4, <1>5, AllNaturals
<1>7. n - m \in Nat /\ m + (n - m) = n /\ n <= N
  BY <1>1 DEF N
<1>8. n - m \in Good
  BY <1>6, <1>7
<1>. QED
  BY <1>7, <1>8

-----------------------------------------------------------------------------
\* A valid plan is a legal one

\* Where the k-th Wave of the n-th layer stands in the plan
Placed(p, S, N, waves) ==
  /\ \A n \in 1..N : \A k \in 1..Len(S[n]) : /\ p[n][k] \in 1..Len(waves)
                                             /\ waves[p[n][k]] = S[n][k]
  /\ \A i \in 1..Len(waves) : \E n \in 1..N : \E k \in 1..Len(S[n]) : i = p[n][k]
  /\ \A m, n \in 1..N : m < n =>
       \A l \in 1..Len(S[m]), k \in 1..Len(S[n]) : p[m][l] < p[n][k]

LEMMA PlacesExist ==
  ASSUME NEW X, NEW S \in Seq(Seq(X))
  PROVE  FlattenSeq(S) \in Seq(X) /\ \E p : Placed(p, S, Len(S), FlattenSeq(S))
<1> DEFINE N == Len(S)
           waves == FlattenSeq(S)
<1>1. PICK h : h[N] = waves /\ Joined(h, S, N, X)
  BY Flattened
<1> DEFINE p == [n \in 1..N |-> [k \in 1..Len(S[n]) |-> Len(h[n-1]) + k]]
<1>2. N \in Nat
  OBVIOUS
<1>3. \A n \in 1..N : Len(S[n]) \in Nat
  <2> TAKE n \in 1..N
  <2>1. S[n] \in Seq(X)
    OBVIOUS
  <2>. QED
    BY <2>1
<1>4. \A m, n \in 0..N : m <= n => Len(h[m]) <= Len(h[n])
  BY <1>1, JoinGrows
<1>5. \A n \in 1..N : \A k \in 1..Len(S[n]) : p[n][k] = Len(h[n-1]) + k
  OBVIOUS
<1> HIDE DEF p, N, waves
<1>6. /\ waves \in Seq(X)
      /\ \A m \in 0..N : Len(h[m]) \in Nat /\ Len(h[m]) <= Len(waves)
      /\ \A m \in 1..N : Len(h[m]) = Len(h[m-1]) + Len(S[m])
      /\ \A m \in 1..N : \A k \in 1..Len(S[m]) : waves[Len(h[m-1]) + k] = S[m][k]
      /\ \A i \in 1..Len(waves) : \E m \in 1..N : \E k \in 1..Len(S[m]) : i = Len(h[m-1]) + k
  BY <1>1 DEF Joined
<1>7. Len(waves) \in Nat
  BY <1>6
<1>8. ASSUME NEW n \in 1..N, NEW k \in 1..Len(S[n])
      PROVE  /\ p[n][k] \in Nat /\ Len(h[n-1]) < p[n][k] /\ p[n][k] <= Len(h[n])
             /\ p[n][k] \in 1..Len(waves)
             /\ waves[p[n][k]] = S[n][k]
  <2>1. p[n][k] = Len(h[n-1]) + k
    BY <1>5
  <2>2. n - 1 \in 0..N /\ n \in 0..N
    BY <1>2
  <2>3. /\ Len(h[n-1]) \in Nat /\ Len(h[n]) \in Nat /\ Len(h[n]) <= Len(waves)
        /\ Len(h[n]) = Len(h[n-1]) + Len(S[n]) /\ Len(S[n]) \in Nat
    BY <1>3, <1>6, <2>2
  <2> DEFINE x == Len(h[n-1])
             y == Len(S[n])
             z == Len(h[n])
             w == Len(waves)
  <2>4. x \in Nat /\ y \in Nat /\ z = x + y /\ z <= w /\ w \in Nat /\ k \in 1..y /\ p[n][k] = x + k
    BY <1>7, <2>1, <2>3
  <2> HIDE DEF x, y, z, w
  <2>5. x + k \in Nat /\ x < x + k /\ x + k <= z /\ x + k \in 1..w
    BY <2>4
  <2>6. waves[p[n][k]] = S[n][k]
    BY <1>6, <2>1
  <2>. QED
    BY <2>4, <2>5, <2>6 DEF x, z, w
<1>9. ASSUME NEW i \in 1..Len(waves)
      PROVE  \E n \in 1..N : \E k \in 1..Len(S[n]) : i = p[n][k]
  <2>1. PICK n \in 1..N : \E k \in 1..Len(S[n]) : i = Len(h[n-1]) + k
    BY <1>6
  <2>2. PICK k \in 1..Len(S[n]) : i = Len(h[n-1]) + k
    BY <2>1
  <2>3. i = p[n][k]
    BY <1>5, <2>2
  <2>. QED
    BY <2>3
<1>10. ASSUME NEW m \in 1..N, NEW n \in 1..N, m < n,
              NEW l \in 1..Len(S[m]), NEW k \in 1..Len(S[n])
       PROVE  p[m][l] < p[n][k]
  <2>1. p[m][l] \in Nat /\ p[m][l] <= Len(h[m]) /\ p[n][k] \in Nat /\ Len(h[n-1]) < p[n][k]
    BY <1>8
  <2>2. m \in 0..N /\ n - 1 \in 0..N /\ m <= n - 1
    BY <1>2, <1>10
  <2>3. Len(h[m]) <= Len(h[n-1]) /\ Len(h[m]) \in Nat /\ Len(h[n-1]) \in Nat
    BY <1>4, <1>6, <2>2
  <2> DEFINE x == Len(h[m])
             y == Len(h[n-1])
             i == p[m][l]
             j == p[n][k]
  <2>4. x \in Nat /\ y \in Nat /\ i \in Nat /\ j \in Nat /\ x <= y /\ i <= x /\ y < j
    BY <2>1, <2>3
  <2> HIDE DEF x, y, i, j
  <2>5. i < j
    BY <2>4
  <2>. QED
    BY <2>5 DEF i, j
<1>11. Placed(p, S, N, waves)
  BY <1>8, <1>9, <1>10 DEF Placed
<1>. QED
  BY <1>6, <1>11 DEF N, waves

LEMMA LegalWhenOrdered ==
  ASSUME NEW d \in Declarations, NEW max \in Nat, max # 0,
         Scheduled(d) = Task, ~Overlap(d), NEW waves,
         waves = FlattenSeq([n \in DOMAIN Layers(d) |-> SplitLayer(d, Layers(d)[n], max)])
  PROVE  Legal(waves, d, max)
<1> DEFINE L == Layers(d)
           N == Cardinality(Task)
           S == [n \in 1..N |-> SplitLayer(d, L[n], max)]
           X == WaveOf(d)
<1>1. N \in Nat /\ DOMAIN L = 1..N
  BY PlanParameters, FS_CardinalityType DEF PlanAssumption, Layers
<1>2. \A n \in 1..N : L[n] \subseteq Task
  <2>1. \A n \in 1..N : L[n] \subseteq Left(d)[n]
    BY DEF Layers
  <2>2. \A n \in 1..N : Left(d)[n] \subseteq Task
    BY LeftGrows
  <2>. QED
    BY <2>1, <2>2
<1>3. \A t \in Task : \E n \in 1..N :
        /\ t \in L[n]
        /\ \A m \in 1..N : t \in L[m] => m = n
        /\ \A u \in d[t].deps : \E m \in 1..(n - 1) : u \in L[m]
  BY LayersAreOrdered
<1>4. \A n \in 1..N : \A t, u \in L[n] :
        t # u /\ d[t].safe /\ d[u].safe => d[t].files \cap d[u].files = {}
  <2>1. \A n \in 1..N : L[n] \in ToSet(L)
    BY <1>1 DEF ToSet
  <2>. QED
    BY <2>1 DEF Overlap
<1>5. waves = FlattenSeq(S)
  BY <1>1
<1>6. \A n \in 1..N : S[n] = SplitLayer(d, L[n], max)
  OBVIOUS
<1>7. DOMAIN S = 1..N /\ S = [n \in 1..N |-> S[n]]
  OBVIOUS
<1> HIDE DEF L, N, S, X
<1>8. ASSUME NEW n \in 1..N
      PROVE  S[n] \in Seq(X) /\ Split(d, L[n], max, S[n])
  <2> DEFINE layer == L[n]
             W == S[n]
  <2>1. layer \subseteq Task /\ W = SplitLayer(d, layer, max)
    BY <1>2, <1>6
  <2> HIDE DEF layer, W
  <2>2. W \in Seq(WaveOf(d)) /\ Split(d, layer, max, W)
    BY <2>1, LayerIsSplit
  <2>. QED
    BY <2>2 DEF layer, W, X
<1>9. S \in Seq(Seq(X)) /\ Len(S) = N
  BY <1>1, <1>7, <1>8
<1>10. waves \in Seq(X)
  BY <1>5, <1>9, PlacesExist
<1>11. PICK p : Placed(p, S, N, waves)
  BY <1>5, <1>9, PlacesExist
<1>12. DOMAIN waves = 1..Len(waves)
  BY <1>10
<1>13. /\ \A n \in 1..N : \A k \in 1..Len(S[n]) : p[n][k] \in 1..Len(waves) /\ waves[p[n][k]] = S[n][k]
       /\ \A i \in 1..Len(waves) : \E n \in 1..N : \E k \in 1..Len(S[n]) : i = p[n][k]
       /\ \A m, n \in 1..N : m < n =>
            \A l \in 1..Len(S[m]), k \in 1..Len(S[n]) : p[m][l] < p[n][k]
  BY <1>11 DEF Placed
<1>14. \A n \in 1..N :
         /\ \A k \in 1..Len(S[n]) :
              /\ 1 <= Len(S[n][k].tasks) /\ Len(S[n][k].tasks) <= max
              /\ TasksOf(S[n][k]) \subseteq L[n]
              /\ \A t, u \in TasksOf(S[n][k]) : t # u => d[t].safe /\ d[u].safe
         /\ \A t \in L[n] : \E k \in 1..Len(S[n]) : t \in TasksOf(S[n][k])
         /\ \A i, k \in 1..Len(S[n]) : TasksOf(S[n][i]) \cap TasksOf(S[n][k]) # {} => i = k
  BY <1>8 DEF Split
<1>15. ASSUME NEW t \in Task
       PROVE  \E i \in 1..Len(waves) :
                /\ t \in TasksOf(waves[i])
                /\ \A k \in 1..Len(waves) \ {i} : t \notin TasksOf(waves[k])
                /\ \A u \in d[t].deps : \E k \in 1..(i-1) : u \in TasksOf(waves[k])
  <2>1. PICK n \in 1..N :
          /\ t \in L[n]
          /\ \A m \in 1..N : t \in L[m] => m = n
          /\ \A u \in d[t].deps : \E m \in 1..(n - 1) : u \in L[m]
    BY <1>3
  <2>2. PICK k \in 1..Len(S[n]) : t \in TasksOf(S[n][k])
    BY <1>14, <2>1
  <2> DEFINE i == p[n][k]
  <2>3. i \in 1..Len(waves) /\ waves[i] = S[n][k]
    BY <1>13
  <2>4. ASSUME NEW j \in 1..Len(waves), t \in TasksOf(waves[j])
        PROVE  j = i
    <3>1. PICK m \in 1..N : \E l \in 1..Len(S[m]) : j = p[m][l]
      BY <1>13
    <3>2. PICK l \in 1..Len(S[m]) : j = p[m][l]
      BY <3>1
    <3>3. t \in TasksOf(S[m][l])
      BY <1>13, <2>4, <3>2
    <3>4. t \in L[m]
      BY <1>14, <3>3
    <3>5. m = n
      BY <2>1, <3>4
    <3>6. l \in 1..Len(S[n]) /\ t \in TasksOf(S[n][l])
      BY <3>3, <3>5
    <3>7. l = k
      BY <1>14, <2>2, <3>6
    <3>. QED
      BY <3>2, <3>5, <3>7
  <2>5. ASSUME NEW u \in d[t].deps
        PROVE  \E j \in 1..(i-1) : u \in TasksOf(waves[j])
    <3>1. PICK m \in 1..(n - 1) : u \in L[m]
      BY <2>1
    <3>2. m \in 1..N /\ m < n
      BY <1>1
    <3>3. PICK l \in 1..Len(S[m]) : u \in TasksOf(S[m][l])
      BY <1>14, <3>1, <3>2
    <3> DEFINE j == p[m][l]
    <3>4. j \in 1..Len(waves) /\ waves[j] = S[m][l] /\ j < i
      BY <1>13, <3>2
    <3>5. u \in TasksOf(waves[j])
      BY <3>3, <3>4
    <3> HIDE DEF i, j
    <3>6. j \in 1..(i-1)
      BY <2>3, <3>4
    <3>. QED
      BY <3>5, <3>6
  <2> HIDE DEF i
  <2>6. \A j \in 1..Len(waves) \ {i} : t \notin TasksOf(waves[j])
    BY <2>4
  <2>7. t \in TasksOf(waves[i])
    BY <2>2, <2>3
  <2>. QED
    BY <2>3, <2>5, <2>6, <2>7
<1>16. ASSUME NEW i \in 1..Len(waves)
       PROVE  /\ 1 <= Len(waves[i].tasks) /\ Len(waves[i].tasks) <= max
              /\ TasksOf(waves[i]) \subseteq Task
              /\ \A t \in TasksOf(waves[i]), u \in TasksOf(waves[i]) :
                   t # u => /\ d[t].files \cap d[u].files = {}
                            /\ d[t].safe /\ d[u].safe
  <2>1. PICK n \in 1..N : \E k \in 1..Len(S[n]) : i = p[n][k]
    BY <1>13
  <2>2. PICK k \in 1..Len(S[n]) : i = p[n][k]
    BY <2>1
  <2>3. waves[i] = S[n][k]
    BY <1>13, <2>2
  <2> DEFINE w == S[n][k]
  <2>4. /\ 1 <= Len(w.tasks) /\ Len(w.tasks) <= max
        /\ TasksOf(w) \subseteq L[n]
        /\ \A t, u \in TasksOf(w) : t # u => d[t].safe /\ d[u].safe
    BY <1>14
  <2>5. \A t, u \in TasksOf(w) : t # u => d[t].files \cap d[u].files = {}
    BY <1>4, <2>4
  <2>6. TasksOf(w) \subseteq Task
    BY <1>2, <2>4
  <2>7. waves[i] = w
    BY <2>3
  <2> HIDE DEF w
  <2>. QED
    BY <2>4, <2>5, <2>6, <2>7
<1> DEFINE D == 1..Len(waves)
<1>17. D = DOMAIN waves
  BY <1>12
<1>18. \A t \in Task : \E i \in D :
         /\ t \in TasksOf(waves[i])
         /\ \A k \in D \ {i} : t \notin TasksOf(waves[k])
         /\ \A u \in d[t].deps : \E k \in 1..(i-1) : u \in TasksOf(waves[k])
  BY <1>15
<1>19. \A i \in D :
         /\ 1 <= Len(waves[i].tasks) /\ Len(waves[i].tasks) <= max
         /\ TasksOf(waves[i]) \subseteq Task
         /\ \A t \in TasksOf(waves[i]), u \in TasksOf(waves[i]) :
              t # u => /\ d[t].files \cap d[u].files = {}
                       /\ d[t].safe /\ d[u].safe
  BY <1>16
<1> HIDE DEF D
<1>20. \A t \in Task : \E i \in DOMAIN waves :
         /\ t \in TasksOf(waves[i])
         /\ \A k \in DOMAIN waves \ {i} : t \notin TasksOf(waves[k])
         /\ \A u \in d[t].deps : \E k \in 1..(i-1) : u \in TasksOf(waves[k])
  <2> TAKE t \in Task
  <2>1. PICK i \in D :
          /\ t \in TasksOf(waves[i])
          /\ \A k \in D \ {i} : t \notin TasksOf(waves[k])
          /\ \A u \in d[t].deps : \E k \in 1..(i-1) : u \in TasksOf(waves[k])
    BY <1>18, Zenon
  <2>2. i \in DOMAIN waves
    BY <1>17
  <2>3. \A k \in DOMAIN waves \ {i} : t \notin TasksOf(waves[k])
    BY <1>17, <2>1
  <2>4. t \in TasksOf(waves[i])
    BY <2>1
  <2>5. \A u \in d[t].deps : \E k \in 1..(i-1) : u \in TasksOf(waves[k])
    BY <2>1
  <2>. QED
    BY <2>2, <2>3, <2>4, <2>5, Zenon
<1>21. \A i \in DOMAIN waves :
         /\ 1 <= Len(waves[i].tasks) /\ Len(waves[i].tasks) <= max
         /\ TasksOf(waves[i]) \subseteq Task
         /\ \A t \in TasksOf(waves[i]), u \in TasksOf(waves[i]) :
              t # u => /\ d[t].files \cap d[u].files = {}
                       /\ d[t].safe /\ d[u].safe
  BY <1>17, <1>19, Zenon
<1>. QED
  BY <1>20, <1>21, Zenon DEF Legal

\* plan_waves plans what can be planned, and plans it legally.
LEMMA PlansAreLegal ==
  ASSUME NEW d \in Declarations, NEW max \in MaxParallel
  PROVE  /\ PlanWaves(d, max).valid <=> max >= 1 /\ ~Waits(d) /\ ~Overlap(d)
         /\ PlanWaves(d, max).valid => Legal(PlanWaves(d, max).waves, d, max)
<1> DEFINE waves == FlattenSeq([n \in DOMAIN Layers(d) |-> SplitLayer(d, Layers(d)[n], max)])
           bad == max < 1 \/ Scheduled(d) # Task \/ Overlap(d)
<1>1. max \in Int
  BY PlanParameters DEF PlanAssumption
<1>2. bad <=> ~(max >= 1 /\ ~Waits(d) /\ ~Overlap(d))
  BY <1>1, ScheduledUnlessWaiting
<1>3. PlanWaves(d, max) = IF bad THEN Invalid ELSE [what |-> "plan", valid |-> TRUE, waves |-> waves]
  BY DEF PlanWaves
<1>4. ~bad => Legal(waves, d, max)
  <2> SUFFICES ASSUME ~bad
               PROVE  Legal(waves, d, max)
    OBVIOUS
  <2>1. max \in Nat /\ max # 0 /\ Scheduled(d) = Task /\ ~Overlap(d)
    BY <1>1
  <2>. QED
    BY <2>1, LegalWhenOrdered
<1> HIDE DEF waves, bad
<1>5. CASE bad
  <2>1. PlanWaves(d, max) = Invalid /\ Invalid.valid = FALSE
    BY <1>3, <1>5 DEF Invalid
  <2>. QED
    BY <1>2, <1>5, <2>1
<1>6. CASE ~bad
  <2>1. PlanWaves(d, max).valid = TRUE /\ PlanWaves(d, max).waves = waves
    BY <1>3, <1>6
  <2>. QED
    BY <1>2, <1>4, <1>6, <2>1
<1>. QED
  BY <1>5, <1>6

-----------------------------------------------------------------------------
\* The plan that is stored

\* A plan that has passed the check is the one that tasks.md asks for.
PlanInvariant ==
  /\ declared \in Declarations
  /\ checked.passed /\ stored.what = "plan" =>
       /\ readable /\ checked.max \in MaxParallel
       /\ PlanWaves(declared, checked.max).valid /\ stored.valid
       /\ stored.waves = PlanWaves(declared, checked.max).waves

LEMMA PlanInvariantInit == PlanInit => PlanInvariant
BY DEF PlanInit, PlanInvariant, Unchecked

LEMMA PlanInvariantStep == PlanInvariant /\ [PlanNext]_planVars => PlanInvariant'
<1> SUFFICES ASSUME PlanInvariant, [PlanNext]_planVars
             PROVE  PlanInvariant'
  OBVIOUS
<1>1. declared \in Declarations
  BY DEF PlanInvariant
<1>2. CASE WritePlan
  BY <1>1, <1>2 DEF WritePlan, PlanInvariant, Unchecked
<1>3. CASE TearPlan
  BY <1>1, <1>3 DEF TearPlan, PlanInvariant, Unchecked
<1>4. CASE CheckPlan
  <2>1. PICK max \in MaxParallel :
          checked' = [passed |-> /\ Generate(max).valid /\ stored.what # "torn"
                                 /\ ~Stale(Generate(max)), max |-> max]
    BY <1>4 DEF CheckPlan
  <2>2. UNCHANGED <<declared, readable, stored>>
    BY <1>4 DEF CheckPlan
  <2>3. /\ checked'.max = max
        /\ checked'.passed => Generate(max).valid /\ ~Stale(Generate(max))
    BY <2>1
  <2>4. Generate(max).valid => readable /\ Generate(max) = PlanWaves(declared, max)
    BY DEF Generate, Invalid
  <2>5. stored.what = "plan" /\ ~Stale(Generate(max)) =>
          stored.valid = Generate(max).valid /\ stored.waves = Generate(max).waves
    BY DEF Stale
  <2>. QED
    BY <1>1, <2>2, <2>3, <2>4, <2>5 DEF PlanInvariant
<1>5. CASE EditTasks
  BY <1>5 DEF EditTasks, PlanInvariant, Unchecked
<1>6. CASE UNCHANGED planVars
  BY <1>6 DEF planVars, PlanInvariant
<1>. QED
  BY <1>2, <1>3, <1>4, <1>5, <1>6 DEF PlanNext

\* cc-wave-plan, --check, and the agents who edit tasks.md between them: for
\* every set of tasks and every declaration, plan_waves gives a plan exactly
\* if nothing waits for itself and no two tasks of a layer name the same, that
\* plan is legal, and so is the stored one when it passes the check, however it
\* came about.
THEOREM PlansAreExecutable == PlanSpec => []ExecutedPlansAreLegal
<1>1. PlanSpec => []PlanInvariant
  BY PlanInvariantInit, PlanInvariantStep, PTL DEF PlanSpec
<1>2. ASSUME PlanInvariant
      PROVE  ExecutedPlansAreLegal
  <2>1. declared \in Declarations
    BY <1>2 DEF PlanInvariant
  <2>2. PlanIsLegal
    BY <2>1, PlansAreLegal, Zenon DEF PlanIsLegal
  <2>3. CheckedPlanIsLegal
    <3> SUFFICES ASSUME checked.passed, stored.what = "plan"
                 PROVE  readable /\ stored.valid /\ Legal(stored.waves, declared, checked.max)
      BY DEF CheckedPlanIsLegal
    <3>1. /\ readable /\ checked.max \in MaxParallel
          /\ PlanWaves(declared, checked.max).valid /\ stored.valid
          /\ stored.waves = PlanWaves(declared, checked.max).waves
      BY <1>2 DEF PlanInvariant
    <3>2. Legal(PlanWaves(declared, checked.max).waves, declared, checked.max)
      BY <2>1, <3>1, PlansAreLegal
    <3>. QED
      BY <3>1, <3>2
  <2>. QED
    BY <2>2, <2>3 DEF ExecutedPlansAreLegal
<1>. QED
  BY <1>1, <1>2, PTL

-----------------------------------------------------------------------------
\* The recursion of the match

LEMMA MatchingByDepth ==
  ASSUME NEW path, NEW scope
  PROVE  \A r \in Nat : Matching(path, scope)[r + 1] = Match(path, scope, Matching(path, scope)[r])
<1> DEFINE none == [k \in 0..Len(scope) |-> {}]
           X == [0..Len(scope) -> SUBSET (0..Len(path))]
           Is(f) == f = [r \in Nat |-> IF r = 0 THEN none ELSE Match(path, scope, f[r-1])]
           F == [r \in Nat |-> [b \in X |-> Match(path, scope, b)]]
           M == Matching(path, scope)
<1>1. \E f : Is(f)
  <2>1. none \in X /\ \A b \in X : Match(path, scope, b) \in X
    BY DEF Match
  <2> HIDE DEF none, X
  <2>2. F \in [Nat -> [X -> X]] /\ \A r \in Nat, b \in X : F[r][b] = Match(path, scope, b)
    BY <2>1
  <2> HIDE DEF F
  <2>3. PICK f \in [Nat -> X] : Follows(f, none, F)
    BY <2>1, <2>2, RecursionWorks
  <2>4. f[0] = none /\ \A r \in Nat : f[r + 1] = Match(path, scope, f[r])
    BY <2>2, <2>3 DEF Follows
  <2>5. \A r \in Nat : r # 0 => f[r] = Match(path, scope, f[r - 1])
    <3> TAKE r \in Nat
    <3> HAVE r # 0
    <3>1. r - 1 \in Nat /\ (r - 1) + 1 = r
      OBVIOUS
    <3>. QED
      BY <2>4, <3>1
  <2>6. \A r \in Nat : f[r] = IF r = 0 THEN none ELSE Match(path, scope, f[r - 1])
    BY <2>4, <2>5
  <2>. QED
    BY <2>6
<1>2. M = CHOOSE f : Is(f)
  BY DEF Matching
<1>3. Is(M)
  <2> HIDE DEF Is, M
  <2>. QED
    BY <1>1, <1>2
<1> HIDE DEF none, M
<1>4. \A r \in Nat : M[r + 1] = Match(path, scope, M[r])
  <2> TAKE r \in Nat
  <2>1. r + 1 \in Nat /\ r + 1 # 0 /\ (r + 1) - 1 = r
    OBVIOUS
  <2>. QED
    BY <1>3, <2>1
<1>. QED
  BY <1>4 DEF M

\* What each call returns, of a path of n segments and a scope of m
Calls(M, path, scope, n, m) ==
  \A r \in Nat : \A k \in 0..m, i \in 0..n :
    i \in M[r + 1][k] <=>
      IF k = m THEN i = n
      ELSE IF scope[k + 1] = "**"
           THEN i \in M[r][k + 1] \/ (i < n /\ i + 1 \in M[r][k])
      ELSE /\ i < n /\ scope[k + 1] \in {"*", path[i + 1]}
           /\ i + 1 \in M[r][k + 1]

LEMMA MatchCalls ==
  ASSUME NEW path, NEW scope, NEW M, M = Matching(path, scope),
         NEW n, n = Len(path), NEW m, m = Len(scope)
  PROVE  Calls(M, path, scope, n, m)
<1> SUFFICES ASSUME NEW r \in Nat, NEW k \in 0..m, NEW i \in 0..n
             PROVE  i \in M[r + 1][k] <=>
                      IF k = m THEN i = n
                      ELSE IF scope[k + 1] = "**"
                           THEN i \in M[r][k + 1] \/ (i < n /\ i + 1 \in M[r][k])
                      ELSE /\ i < n /\ scope[k + 1] \in {"*", path[i + 1]}
                           /\ i + 1 \in M[r][k + 1]
  BY DEF Calls
<1>1. M[r + 1] = Match(path, scope, M[r])
  BY MatchingByDepth
<1>. QED
  BY <1>1 DEF Match

\* A scope without wildcards matches itself.
LEMMA ConcreteMatch ==
  ASSUME NEW path \in Seq(Name), NEW scope \in Seq(Name)
  PROVE  Matches(path, scope) <=> path = scope
<1> DEFINE n == Len(path)
           m == Len(scope)
           M == Matching(path, scope)
           Same(k) == \A j \in (k + 1)..m : path[j] = scope[j]
           Good == {r \in Nat : \A k \in 0..m : k <= n /\ (n - k) + (m - k) < r =>
                                  (k \in M[r][k] <=> n = m /\ Same(k))}
<1>1. n \in Nat /\ m \in Nat
  OBVIOUS
<1>2. \A k \in 1..m : scope[k] \in Name /\ scope[k] # "*" /\ scope[k] # "**"
  BY ScopesParameters DEF ScopesAssumption
<1>2a. M = Matching(path, scope) /\ n = Len(path) /\ m = Len(scope)
  OBVIOUS
<1> HIDE DEF n, m, M
<1>2b. Calls(M, path, scope, n, m)
  BY <1>2a, MatchCalls
<1>3. \A r \in Nat : \A k \in 0..m, i \in 0..n :
        i \in M[r + 1][k] <=>
           IF k = m THEN i = n
           ELSE IF scope[k + 1] = "**"
                THEN i \in M[r][k + 1] \/ (i < n /\ i + 1 \in M[r][k])
           ELSE /\ i < n /\ scope[k + 1] \in {"*", path[i + 1]}
                /\ i + 1 \in M[r][k + 1]
  BY <1>2b DEF Calls
<1>4. 0 \in Good
  BY <1>1
<1>5. ASSUME NEW r \in Nat, r \in Good
      PROVE  r + 1 \in Good
  <2> SUFFICES ASSUME NEW k \in 0..m, k <= n, (n - k) + (m - k) < r + 1
               PROVE  k \in M[r + 1][k] <=> n = m /\ Same(k)
    OBVIOUS
  <2>1. k \in 0..n
    BY <1>1
  <2>2. CASE k = m
    <3>1. k \in M[r + 1][k] <=> k = n
      BY <1>3, <2>1, <2>2
    <3>2. (k + 1)..m = {}
      BY <1>1, <2>2
    <3>. QED
      BY <2>2, <3>1, <3>2
  <2>3. CASE k # m
    <3>1. k + 1 \in 1..m /\ k + 1 \in 0..m
      BY <1>1, <2>3
    <3>2. k \in M[r + 1][k] <=> k < n /\ scope[k + 1] = path[k + 1] /\ k + 1 \in M[r][k + 1]
      <4>1. scope[k + 1] # "*" /\ scope[k + 1] # "**"
        BY <1>2, <3>1
      <4>2. k \in M[r + 1][k] <=> /\ k < n /\ scope[k + 1] \in {"*", path[k + 1]}
                                  /\ k + 1 \in M[r][k + 1]
        BY <1>3, <2>1, <2>3, <4>1
      <4>. QED
        BY <4>1, <4>2
    <3>3. CASE k = n
      <4>1. ~(k < n) /\ ~(n = m)
        BY <1>1, <2>3, <3>3
      <4>. QED
        BY <3>2, <4>1, Zenon
    <3>4. CASE k # n
      <4>1. k < n /\ k + 1 <= n /\ (n - (k + 1)) + (m - (k + 1)) < r
        BY <1>1, <3>4
      <4>2. k + 1 \in M[r][k + 1] <=> n = m /\ Same(k + 1)
        BY <1>5, <3>1, <4>1
      <4>3. \A j \in (k + 1)..m : j = k + 1 \/ j \in (k + 1 + 1)..m
        BY <1>1
      <4>4. k + 1 \in (k + 1)..m /\ \A j \in (k + 1 + 1)..m : j \in (k + 1)..m
        BY <1>1, <3>1
      <4>5. Same(k) <=> path[k + 1] = scope[k + 1] /\ Same(k + 1)
        BY <4>3, <4>4
      <4> HIDE DEF Same
      <4>. QED
        BY <3>2, <4>1, <4>2, <4>5
    <3>. QED
      BY <3>3, <3>4
  <2>. QED
    BY <2>2, <2>3
<1>6. n + m + 1 \in Good
  <2>1. Nat \subseteq Good
    <3> HIDE DEF Good
    <3>. QED
      BY <1>4, <1>5, AllNaturals
  <2>. QED
    BY <1>1, <2>1
<1>7. 0 \in M[n + m + 1][0] <=> n = m /\ Same(0)
  BY <1>1, <1>6
<1>8. Matches(path, scope) <=> n = m /\ \A j \in 1..m : path[j] = scope[j]
  BY <1>1, <1>7 DEF Matches, M, n, m
<1>. QED
  BY <1>8 DEF n, m

\* A directory with all that is under it
LEMMA PrefixMatch ==
  ASSUME NEW V, NEW path \in Seq(Name), NEW scope \in Seq(V), NEW q \in Nat,
         Len(scope) = q + 1, scope[q + 1] = "**", \A k \in 1..q : scope[k] \in Name
  PROVE  Matches(path, scope) <=> q <= Len(path) /\ \A j \in 1..q : path[j] = scope[j]
<1> DEFINE n == Len(path)
           m == q + 1
           M == Matching(path, scope)
           Same(k) == \A j \in (k + 1)..q : path[j] = scope[j]
           All == {r \in Nat : \A i \in 0..n : (n - i) + 1 < r => i \in M[r][q]}
           Good == {r \in Nat : \A k \in 0..q : k <= n /\ (n - k) + (m - k) < r =>
                                  (k \in M[r][k] <=> q <= n /\ Same(k))}
<1>1. n \in Nat /\ m \in Nat /\ q \in 0..m /\ q # m /\ m \in 0..m
  OBVIOUS
<1>2. \A k \in 1..q : scope[k] \in Name /\ scope[k] # "*" /\ scope[k] # "**"
  BY ScopesParameters DEF ScopesAssumption
<1>2a. M = Matching(path, scope) /\ n = Len(path) /\ m = Len(scope)
  OBVIOUS
<1> HIDE DEF n, m, M
<1>2b. Calls(M, path, scope, n, m)
  BY <1>2a, MatchCalls
<1>3. \A r \in Nat : \A k \in 0..m, i \in 0..n :
        i \in M[r + 1][k] <=>
           IF k = m THEN i = n
           ELSE IF scope[k + 1] = "**"
                THEN i \in M[r][k + 1] \/ (i < n /\ i + 1 \in M[r][k])
           ELSE /\ i < n /\ scope[k + 1] \in {"*", path[i + 1]}
                /\ i + 1 \in M[r][k + 1]
  BY <1>2b DEF Calls
<1>4. \A r \in Nat, i \in 0..n :
        i \in M[r + 1][q] <=> i \in M[r][m] \/ (i < n /\ i + 1 \in M[r][q])
  BY <1>1, <1>3 DEF m
<1>5. \A r \in Nat : r # 0 => n \in M[r][m]
  <2> TAKE r \in Nat
  <2> HAVE r # 0
  <2>1. r - 1 \in Nat /\ (r - 1) + 1 = r /\ n \in 0..n
    BY <1>1
  <2>. QED
    BY <1>1, <1>3, <2>1
<1>6. 0 \in All
  BY <1>1
<1>7. ASSUME NEW r \in Nat, r \in All
      PROVE  r + 1 \in All
  <2> SUFFICES ASSUME NEW i \in 0..n, (n - i) + 1 < r + 1
               PROVE  i \in M[r + 1][q]
    OBVIOUS
  <2>1. CASE i = n
    <3>1. r # 0
      BY <1>1, <2>1
    <3>. QED
      BY <1>4, <1>5, <2>1, <3>1
  <2>2. CASE i # n
    <3>1. i < n /\ i + 1 \in 0..n /\ (n - (i + 1)) + 1 < r
      BY <1>1, <2>2
    <3>2. i + 1 \in M[r][q]
      BY <1>7, <3>1
    <3>. QED
      BY <1>4, <3>1, <3>2
  <2>. QED
    BY <2>1, <2>2
<1>8. Nat \subseteq All
  <2> HIDE DEF All
  <2>. QED
    BY <1>6, <1>7, AllNaturals
<1>9. 0 \in Good
  BY <1>1 DEF m
<1>10. ASSUME NEW r \in Nat, r \in Good
       PROVE  r + 1 \in Good
  <2> SUFFICES ASSUME NEW k \in 0..q, k <= n, (n - k) + (m - k) < r + 1
               PROVE  k \in M[r + 1][k] <=> q <= n /\ Same(k)
    OBVIOUS
  <2>1. k \in 0..n /\ k \in 0..m /\ k # m
    BY <1>1 DEF m
  <2>2. CASE k = q
    <3>1. (n - k) + 1 < r + 1
      BY <1>1, <2>2 DEF m
    <3>2. r + 1 \in All
      BY <1>8
    <3>3. k \in M[r + 1][k]
      BY <2>1, <2>2, <3>1, <3>2
    <3>4. (k + 1)..q = {}
      BY <2>2
    <3>. QED
      BY <2>2, <3>3, <3>4
  <2>3. CASE k # q
    <3>1. k + 1 \in 1..q /\ k + 1 \in 0..q
      BY <2>3
    <3>2. k \in M[r + 1][k] <=> k < n /\ scope[k + 1] = path[k + 1] /\ k + 1 \in M[r][k + 1]
      <4>1. scope[k + 1] # "*" /\ scope[k + 1] # "**"
        BY <1>2, <3>1
      <4>2. k \in M[r + 1][k] <=> /\ k < n /\ scope[k + 1] \in {"*", path[k + 1]}
                                  /\ k + 1 \in M[r][k + 1]
        BY <1>3, <2>1, <4>1
      <4>. QED
        BY <4>1, <4>2
    <3>3. CASE k = n
      <4>1. ~(k < n) /\ ~(q <= n)
        BY <1>1, <2>3, <3>3
      <4>. QED
        BY <3>2, <4>1, Zenon
    <3>4. CASE k # n
      <4>1. k < n /\ k + 1 <= n /\ (n - (k + 1)) + (m - (k + 1)) < r
        BY <1>1, <3>4
      <4>2. k + 1 \in M[r][k + 1] <=> q <= n /\ Same(k + 1)
        BY <1>10, <3>1, <4>1
      <4>3. \A j \in (k + 1)..q : j = k + 1 \/ j \in (k + 1 + 1)..q
        OBVIOUS
      <4>4. k + 1 \in (k + 1)..q /\ \A j \in (k + 1 + 1)..q : j \in (k + 1)..q
        BY <3>1
      <4>5. Same(k) <=> path[k + 1] = scope[k + 1] /\ Same(k + 1)
        BY <4>3, <4>4
      <4> HIDE DEF Same
      <4>. QED
        BY <3>2, <4>1, <4>2, <4>5
    <3>. QED
      BY <3>3, <3>4
  <2>. QED
    BY <2>2, <2>3
<1>11. n + m + 1 \in Good
  <2>1. Nat \subseteq Good
    <3> HIDE DEF Good
    <3>. QED
      BY <1>9, <1>10, AllNaturals
  <2>. QED
    BY <1>1, <2>1
<1>12. 0 \in M[n + m + 1][0] <=> q <= n /\ Same(0)
  BY <1>1, <1>11
<1>. QED
  BY <1>1, <1>12 DEF Matches, M, n, m

\* A path that has a segment for each of the scope's
LEMMA FittingMatch ==
  ASSUME NEW V, NEW path \in Seq(Name), NEW scope \in Seq(V), Len(path) = Len(scope),
         \A k \in 1..Len(scope) : scope[k] \in {"*", "**", path[k]}
  PROVE  Matches(path, scope)
<1> DEFINE n == Len(path)
           M == Matching(path, scope)
           Fits(r, i, k) == (n - i) + (n - k) < r => i \in M[r][k]
           Good == {r \in Nat : \A k \in 0..n :
                      /\ Fits(r, k, k)
                      /\ k < n /\ scope[k + 1] = "**" => Fits(r, k + 1, k)}
<1>1. n \in Nat /\ n = Len(scope)
  OBVIOUS
<1>2. \A k \in 1..n : scope[k] \in {"*", "**", path[k]}
  OBVIOUS
<1>2a. M = Matching(path, scope) /\ n = Len(path) /\ n = Len(scope)
  OBVIOUS
<1> HIDE DEF n, M
<1>2b. Calls(M, path, scope, n, n)
  BY <1>2a, MatchCalls
<1>3. \A r \in Nat : \A k \in 0..n, i \in 0..n :
        i \in M[r + 1][k] <=>
           IF k = n THEN i = n
           ELSE IF scope[k + 1] = "**"
                THEN i \in M[r][k + 1] \/ (i < n /\ i + 1 \in M[r][k])
           ELSE /\ i < n /\ scope[k + 1] \in {"*", path[i + 1]}
                /\ i + 1 \in M[r][k + 1]
  BY <1>2b DEF Calls
<1>4. 0 \in Good
  BY <1>1
<1>5. ASSUME NEW r \in Nat, r \in Good
      PROVE  r + 1 \in Good
  <2> SUFFICES ASSUME NEW k \in 0..n
               PROVE  /\ Fits(r + 1, k, k)
                      /\ k < n /\ scope[k + 1] = "**" => Fits(r + 1, k + 1, k)
    OBVIOUS
  <2>1. CASE k = n
    <3>1. k \in M[r + 1][k]
      BY <1>3, <2>1
    <3>2. ~(k < n)
      BY <1>1, <2>1
    <3>. QED
      BY <3>1, <3>2
  <2>2. CASE k # n
    <3>1. k < n /\ k + 1 \in 0..n /\ k + 1 \in 1..n
      BY <1>1, <2>2
    <3>2. (n - (k + 1)) + (n - (k + 1)) < r => k + 1 \in M[r][k + 1]
      BY <1>5, <3>1
    <3>3. scope[k + 1] = "**" => ((n - (k + 1)) + (n - k) < r => k + 1 \in M[r][k])
      BY <1>5, <3>1
    <3>4. Fits(r + 1, k, k)
      <4> SUFFICES ASSUME (n - k) + (n - k) < r + 1
                   PROVE  k \in M[r + 1][k]
        OBVIOUS
      <4>1. (n - (k + 1)) + (n - (k + 1)) < r /\ (n - (k + 1)) + (n - k) < r
        BY <1>1
      <4>2. k + 1 \in M[r][k + 1] /\ (scope[k + 1] = "**" => k + 1 \in M[r][k])
        BY <3>2, <3>3, <4>1
      <4>3. scope[k + 1] \in {"*", "**", path[k + 1]}
        BY <1>2, <3>1
      <4>4. k \in 0..n
        OBVIOUS
      <4>5. k \in M[r + 1][k] <=>
              IF scope[k + 1] = "**"
              THEN k \in M[r][k + 1] \/ (k < n /\ k + 1 \in M[r][k])
              ELSE k < n /\ scope[k + 1] \in {"*", path[k + 1]} /\ k + 1 \in M[r][k + 1]
        BY <1>3, <2>2, <4>4
      <4>. QED
        BY <3>1, <4>2, <4>3, <4>5
    <3>5. scope[k + 1] = "**" => Fits(r + 1, k + 1, k)
      <4> SUFFICES ASSUME scope[k + 1] = "**", (n - (k + 1)) + (n - k) < r + 1
                   PROVE  k + 1 \in M[r + 1][k]
        OBVIOUS
      <4>1. (n - (k + 1)) + (n - (k + 1)) < r
        BY <1>1
      <4>2. k + 1 \in M[r][k + 1]
        BY <3>2, <4>1
      <4>3. k + 1 \in M[r + 1][k] <=>
              k + 1 \in M[r][k + 1] \/ (k + 1 < n /\ (k + 1) + 1 \in M[r][k])
        BY <1>3, <2>2, <3>1
      <4>. QED
        BY <4>2, <4>3
    <3>. QED
      BY <3>4, <3>5
  <2>. QED
    BY <2>1, <2>2
<1>6. n + n + 1 \in Good
  <2>1. Nat \subseteq Good
    <3> HIDE DEF Good
    <3>. QED
      BY <1>4, <1>5, AllNaturals
  <2>. QED
    BY <1>1, <2>1
<1>7. 0 \in M[n + n + 1][0]
  BY <1>1, <1>6
<1>. QED
  BY <1>1, <1>7 DEF Matches, M, n

-----------------------------------------------------------------------------
\* The three kinds of scopes

Segment == Name \cup {"*", "**"}

LEMMA ScopeShape ==
  ASSUME NEW s \in Scope
  PROVE  /\ s \in Seq(Segment) /\ Len(s) \in Nat /\ 1 <= Len(s) /\ Len(s) <= MaxSegments
         /\ DOMAIN s = 1..Len(s)
         /\ \A k \in 1..Len(s) : s[k] \in Segment
<1>1. PICK k \in 1..MaxSegments : s \in [1..k -> Segment]
  BY DEF Scope, Sequences, Segment
<1>2. k \in Nat /\ 1 <= k /\ k <= MaxSegments
  BY ScopesParameters DEF ScopesAssumption
<1>3. s \in Seq(Segment) /\ Len(s) = k
  BY <1>1, <1>2
<1>. QED
  BY <1>1, <1>2, <1>3

LEMMA PathShape ==
  /\ \A p \in FilePath : p \in Seq(Name)
  /\ \A p \in Seq(Name) : 1 <= Len(p) /\ Len(p) <= MaxSegments + 1 => p \in FilePath
<1>1. MaxSegments \in Nat
  BY ScopesParameters DEF ScopesAssumption
<1>2. ASSUME NEW p \in FilePath PROVE p \in Seq(Name)
  <2>1. PICK k \in 1..(MaxSegments + 1) : p \in [1..k -> Name]
    BY DEF FilePath, Sequences
  <2>2. k \in Nat
    BY <1>1
  <2>. QED
    BY <2>1, <2>2
<1>3. ASSUME NEW p \in Seq(Name), 1 <= Len(p), Len(p) <= MaxSegments + 1
      PROVE  p \in FilePath
  <2>1. Len(p) \in 1..(MaxSegments + 1) /\ p \in [1..Len(p) -> Name]
    BY <1>1, <1>3
  <2>. QED
    BY <2>1 DEF FilePath, Sequences
<1>. QED
  BY <1>2, <1>3

LEMMA ConcreteShape ==
  ASSUME NEW s \in Scope, Concrete(s)
  PROVE  s \in Seq(Name) /\ s \in FilePath
<1>1. s \in Seq(Segment) /\ DOMAIN s = 1..Len(s) /\ Len(s) \in Nat /\ 1 <= Len(s) /\ Len(s) <= MaxSegments
  BY ScopeShape
<1>2. \A k \in 1..Len(s) : s[k] \in Name
  BY <1>1 DEF Concrete
<1>3. s \in Seq(Name)
  BY <1>1, <1>2
<1>4. MaxSegments \in Nat
  BY ScopesParameters DEF ScopesAssumption
<1>. QED
  BY <1>1, <1>3, <1>4, PathShape

\* The segments before the last of s are the first ones of t.
Begins(s, t) == Len(s) - 1 <= Len(t) /\ \A j \in 1..(Len(s) - 1) : t[j] = s[j]

LEMMA PrefixShape ==
  ASSUME NEW s \in Scope, HasPrefix(s)
  PROVE  /\ s[Len(s)] = "**" /\ Len(s) - 1 \in Nat
         /\ \A k \in 1..(Len(s) - 1) : s[k] \in Name
         /\ PrefixOf(s) \in Seq(Name) /\ Len(PrefixOf(s)) = Len(s) - 1
         /\ \A k \in 1..(Len(s) - 1) : PrefixOf(s)[k] = s[k]
<1> DEFINE p == PrefixOf(s)
           q == Len(s) - 1
<1>1. s \in Seq(Segment) /\ DOMAIN s = 1..Len(s) /\ Len(s) \in Nat /\ 1 <= Len(s)
  BY ScopeShape
<1>2. q \in Nat /\ q <= Len(s)
  BY <1>1
<1>3. p = SubSeq(s, 1, q)
  BY DEF PrefixOf
<1> HIDE DEF p, q
<1>4. p \in Seq(Segment) /\ Len(p) = q /\ \A k \in 1..q : p[k] = s[k]
  BY <1>1, <1>2, <1>3
<1>5. DOMAIN p = 1..q
  BY <1>4
<1>6. s[Len(s)] = "**" /\ \A k \in DOMAIN p : p[k] \in Name
  BY <1>3 DEF HasPrefix, Concrete, q
<1>7. \A k \in 1..q : p[k] \in Name /\ s[k] \in Name
  BY <1>4, <1>5, <1>6
<1>8. p \in Seq(Name)
  BY <1>4, <1>7
<1>. QED
  BY <1>2, <1>4, <1>6, <1>7, <1>8 DEF p, q

LEMMA PrefixHolds ==
  ASSUME NEW s \in Scope, HasPrefix(s), NEW path \in Seq(Name)
  PROVE  Matches(path, s) <=> Begins(s, path)
<1> DEFINE q == Len(s) - 1
<1>1. /\ s \in Seq(Segment) /\ q \in Nat /\ Len(s) = q + 1 /\ s[q + 1] = "**"
      /\ \A k \in 1..q : s[k] \in Name
  BY ScopeShape, PrefixShape
<1> HIDE DEF q
<1>2. Matches(path, s) <=> q <= Len(path) /\ \A j \in 1..q : path[j] = s[j]
  BY <1>1, PrefixMatch
<1>. QED
  BY <1>2 DEF Begins, q

\* Every scope holds a path that has its names, and any name for a wildcard.
LEMMA Sample ==
  ASSUME NEW s \in Scope
  PROVE  \E p \in FilePath : /\ Matches(p, s) /\ Len(p) = Len(s)
                             /\ \A k \in 1..Len(s) : s[k] \in Name => p[k] = s[k]
<1>1. s \in Seq(Segment) /\ Len(s) \in Nat /\ 1 <= Len(s) /\ Len(s) <= MaxSegments
  BY ScopeShape
<1>2. PICK a : a \in Name
  BY ScopesParameters DEF ScopesAssumption
<1> DEFINE p == [k \in 1..Len(s) |-> IF s[k] \in Name THEN s[k] ELSE a]
<1>3. /\ p \in Seq(Name) /\ Len(p) = Len(s)
      /\ \A k \in 1..Len(s) : p[k] = IF s[k] \in Name THEN s[k] ELSE a
  BY <1>1, <1>2
<1> HIDE DEF p
<1>4. \A k \in 1..Len(s) : s[k] \in {"*", "**", p[k]}
  BY <1>3, ScopeShape DEF Segment
<1>5. Matches(p, s)
  BY <1>1, <1>3, <1>4, FittingMatch
<1>6. MaxSegments \in Nat
  BY ScopesParameters DEF ScopesAssumption
<1>7. p \in FilePath
  BY <1>1, <1>3, <1>6, PathShape
<1>. QED
  BY <1>3, <1>5, <1>7

LEMMA StartIs ==
  ASSUME NEW s \in Scope, HasPrefix(s), NEW t \in Scope
  PROVE  Start(t, Len(PrefixOf(s))) = PrefixOf(s) <=> Begins(s, t)
<1> DEFINE p == PrefixOf(s)
           q == Len(s) - 1
           b == Start(t, q)
<1>1. /\ q \in Nat /\ p \in Seq(Name) /\ Len(p) = q /\ \A k \in 1..q : p[k] = s[k]
  BY PrefixShape
<1>2. t \in Seq(Segment) /\ Len(t) \in Nat
  BY ScopeShape
<1>3. b = SubSeq(t, 1, IF q < Len(t) THEN q ELSE Len(t))
  BY DEF Start
<1> HIDE DEF p, q, b
<1>4. CASE q <= Len(t)
  <2>1. b = SubSeq(t, 1, q)
    BY <1>1, <1>2, <1>3, <1>4
  <2>2. b \in Seq(Segment) /\ Len(b) = q /\ \A k \in 1..q : b[k] = t[k]
    BY <1>1, <1>2, <1>4, <2>1
  <2>3. b = p <=> \A k \in 1..q : b[k] = p[k]
    BY <1>1, <2>2
  <2>4. b = p <=> \A k \in 1..q : t[k] = s[k]
    BY <1>1, <2>2, <2>3
  <2>. QED
    BY <1>1, <1>4, <2>4 DEF Begins, b, p, q
<1>5. CASE ~(q <= Len(t))
  <2>1. b = SubSeq(t, 1, Len(t))
    BY <1>1, <1>2, <1>3, <1>5
  <2>2. Len(b) = Len(t)
    BY <1>2, <2>1
  <2>3. b # p
    BY <1>1, <1>2, <1>5, <2>2
  <2>. QED
    BY <1>1, <1>5, <2>3 DEF Begins, b, p, q
<1>. QED
  BY <1>4, <1>5

LEMMA PrefixesAgree ==
  ASSUME NEW s \in Scope, HasPrefix(s), NEW t \in Scope, HasPrefix(t), Len(s) <= Len(t)
  PROVE  /\ PrefixesOverlap(s, t) <=> Begins(s, t)
         /\ PrefixesOverlap(t, s) <=> Begins(s, t)
<1> DEFINE p == PrefixOf(s)
           q == Len(s) - 1
           u == PrefixOf(t)
           v == Len(t) - 1
           x == Start(p, q)
           y == Start(u, q)
<1>1. /\ q \in Nat /\ p \in Seq(Name) /\ Len(p) = q /\ \A k \in 1..q : p[k] = s[k]
      /\ v \in Nat /\ u \in Seq(Name) /\ Len(u) = v /\ \A k \in 1..v : u[k] = t[k]
  BY PrefixShape
<1>2. Len(s) \in Nat /\ Len(t) \in Nat
  BY ScopeShape
<1>3. q <= v /\ q <= Len(t)
  BY <1>2
<1>4. x = SubSeq(p, 1, IF q < Len(p) THEN q ELSE Len(p)) /\ y = SubSeq(u, 1, IF q < Len(u) THEN q ELSE Len(u))
  BY DEF Start
<1>5. Shorter(p, u) = q /\ (Shorter(u, p) = q \/ (Shorter(u, p) = v /\ q = v))
  <2> HIDE DEF p, q, u, v
  <2>. QED
    BY <1>1, <1>3 DEF Shorter
<1>6. Shorter(u, p) = q
  BY <1>5
<1>7. /\ PrefixesOverlap(s, t) <=> x = y
      /\ PrefixesOverlap(t, s) <=> y = x
  BY <1>5, <1>6 DEF PrefixesOverlap
<1> HIDE DEF p, q, u, v, x, y
<1>8. x = SubSeq(p, 1, q) /\ y = SubSeq(u, 1, q)
  BY <1>1, <1>3, <1>4
<1>9. /\ x \in Seq(Name) /\ Len(x) = q /\ \A k \in 1..q : x[k] = p[k]
      /\ y \in Seq(Name) /\ Len(y) = q /\ \A k \in 1..q : y[k] = u[k]
  BY <1>1, <1>3, <1>8
<1>10. x = y <=> \A k \in 1..q : x[k] = y[k]
  BY <1>1, <1>9
<1>11. \A k \in 1..q : x[k] = s[k] /\ y[k] = t[k]
  <2> TAKE k \in 1..q
  <2>1. k \in 1..v
    BY <1>1, <1>3
  <2>. QED
    BY <1>1, <1>9, <2>1
<1>12. x = y <=> \A k \in 1..q : t[k] = s[k]
  BY <1>10, <1>11
<1>. QED
  BY <1>3, <1>7, <1>12 DEF Begins, q

-----------------------------------------------------------------------------
\* What two scopes share

LEMMA OverlapIsMutual ==
  ASSUME NEW s \in Scope, NEW t \in Scope
  PROVE  ScopesOverlap(s, t) <=> ScopesOverlap(t, s)
<1>1. CASE s = t
  BY <1>1
<1>2. CASE s # t /\ Concrete(s) /\ Concrete(t)
  <2>1. s \in Seq(Name) /\ t \in Seq(Name)
    BY <1>2, ConcreteShape
  <2>2. (Matches(s, t) <=> s = t) /\ (Matches(t, s) <=> t = s)
    BY <2>1, ConcreteMatch
  <2>. QED
    BY <1>2, <2>2 DEF ScopesOverlap
<1>3. CASE s # t /\ Concrete(s) # Concrete(t)
  BY <1>3 DEF ScopesOverlap, Concrete
<1>4. CASE s # t /\ ~Concrete(s) /\ ~Concrete(t)
  <2>1. /\ ScopesOverlap(s, t) <=> PrefixesOverlap(s, t)
        /\ ScopesOverlap(t, s) <=> PrefixesOverlap(t, s)
    BY <1>4 DEF ScopesOverlap
  <2>2. CASE HasPrefix(s) /\ HasPrefix(t)
    <3>1. Len(s) <= Len(t) \/ Len(t) <= Len(s)
      BY ScopeShape
    <3>2. PrefixesOverlap(s, t) <=> PrefixesOverlap(t, s)
      BY <2>2, <3>1, PrefixesAgree
    <3>. QED
      BY <2>1, <3>2
  <2>3. CASE ~(HasPrefix(s) /\ HasPrefix(t))
    <3>1. PrefixesOverlap(s, t) <=> PrefixesOverlap(t, s)
      BY <2>3 DEF PrefixesOverlap
    <3>. QED
      BY <2>1, <3>1
  <2>. QED
    BY <2>2, <2>3
<1>. QED
  BY <1>1, <1>2, <1>3, <1>4 DEF Concrete

\* No speculative conflict
LEMMA OverlapIsReal ==
  ASSUME NEW s \in Scope, NEW t \in Scope, ScopesOverlap(s, t)
  PROVE  \E p \in FilePath : Matches(p, s) /\ Matches(p, t)
<1>1. CASE s = t
  <2>1. PICK p \in FilePath : Matches(p, s)
    BY Sample
  <2>. QED
    BY <1>1, <2>1
<1>2. ASSUME NEW a \in Scope, NEW b \in Scope, Concrete(a), Matches(a, b)
      PROVE  \E p \in FilePath : Matches(p, a) /\ Matches(p, b)
  <2>1. a \in Seq(Name) /\ a \in FilePath
    BY <1>2, ConcreteShape
  <2>2. Matches(a, a)
    BY <2>1, ConcreteMatch
  <2>. QED
    BY <1>2, <2>1, <2>2
<1>3. ASSUME NEW a \in Scope, NEW b \in Scope, HasPrefix(a), Begins(a, b)
      PROVE  HasPrefix(b) \/ \E p \in FilePath : Matches(p, a) /\ Matches(p, b)
  <2>1. PICK p \in FilePath : /\ Matches(p, b) /\ Len(p) = Len(b)
                              /\ \A k \in 1..Len(b) : b[k] \in Name => p[k] = b[k]
    BY Sample
  <2>2. /\ Len(a) - 1 \in Nat /\ Len(b) \in Nat /\ Len(a) - 1 <= Len(b)
        /\ \A k \in 1..(Len(a) - 1) : b[k] = a[k] /\ a[k] \in Name
    BY <1>3, PrefixShape, ScopeShape DEF Begins
  <2>3. \A k \in 1..(Len(a) - 1) : k \in 1..Len(b)
    <3> DEFINE i == Len(a) - 1
               j == Len(b)
    <3>1. i \in Nat /\ j \in Nat /\ i <= j
      BY <2>2
    <3> HIDE DEF i, j
    <3>2. \A k \in 1..i : k \in 1..j
      BY <3>1
    <3>. QED
      BY <3>2 DEF i, j
  <2>4. Begins(a, p)
    BY <2>1, <2>2, <2>3 DEF Begins
  <2>5. p \in Seq(Name)
    BY PathShape
  <2>6. Matches(p, a)
    BY <1>3, <2>4, <2>5, PrefixHolds
  <2>. QED
    BY <2>1, <2>6
<1>4. ASSUME NEW a \in Scope, NEW b \in Scope, HasPrefix(a), HasPrefix(b),
             Len(a) <= Len(b), Begins(a, b)
      PROVE  \E p \in FilePath : Matches(p, a) /\ Matches(p, b)
  <2>1. PICK p \in FilePath : /\ Matches(p, b) /\ Len(p) = Len(b)
                              /\ \A k \in 1..Len(b) : b[k] \in Name => p[k] = b[k]
    BY Sample
  <2>2. /\ Len(a) - 1 \in Nat /\ Len(b) \in Nat /\ Len(a) - 1 <= Len(b)
        /\ \A k \in 1..(Len(a) - 1) : b[k] = a[k] /\ a[k] \in Name
    BY <1>4, PrefixShape, ScopeShape DEF Begins
  <2>3. \A k \in 1..(Len(a) - 1) : k \in 1..Len(b)
    <3> DEFINE i == Len(a) - 1
               j == Len(b)
    <3>1. i \in Nat /\ j \in Nat /\ i <= j
      BY <2>2
    <3> HIDE DEF i, j
    <3>2. \A k \in 1..i : k \in 1..j
      BY <3>1
    <3>. QED
      BY <3>2 DEF i, j
  <2>4. Begins(a, p)
    BY <2>1, <2>2, <2>3 DEF Begins
  <2>5. p \in Seq(Name)
    BY PathShape
  <2>6. Matches(p, a)
    BY <1>4, <2>4, <2>5, PrefixHolds
  <2>. QED
    BY <2>1, <2>6
<1>5. CASE s # t /\ Concrete(s)
  <2>1. Matches(s, t)
    BY <1>5 DEF ScopesOverlap
  <2>. QED
    BY <1>2, <1>5, <2>1
<1>6. CASE s # t /\ ~Concrete(s) /\ Concrete(t)
  <2>1. Matches(t, s)
    BY <1>6 DEF ScopesOverlap
  <2>. QED
    BY <1>2, <1>6, <2>1
<1>7. CASE s # t /\ ~Concrete(s) /\ ~Concrete(t)
  <2>1. PrefixesOverlap(s, t)
    BY <1>7 DEF ScopesOverlap
  <2>2. CASE HasPrefix(s) /\ HasPrefix(t)
    <3>1. Len(s) <= Len(t) \/ Len(t) <= Len(s)
      BY ScopeShape
    <3>2. CASE Len(s) <= Len(t)
      <4>1. Begins(s, t)
        BY <2>1, <2>2, <3>2, PrefixesAgree
      <4>. QED
        BY <1>4, <2>2, <3>2, <4>1
    <3>3. CASE Len(t) <= Len(s)
      <4>1. Begins(t, s)
        BY <2>1, <2>2, <3>3, PrefixesAgree
      <4>. QED
        BY <1>4, <2>2, <3>3, <4>1
    <3>. QED
      BY <3>1, <3>2, <3>3
  <2>3. CASE ~(HasPrefix(s) /\ HasPrefix(t))
    <3>1. \/ HasPrefix(s) /\ Start(t, Len(PrefixOf(s))) = PrefixOf(s)
          \/ HasPrefix(t) /\ Start(s, Len(PrefixOf(t))) = PrefixOf(t)
      BY <2>1, <2>3 DEF PrefixesOverlap
    <3>2. (HasPrefix(s) /\ Begins(s, t)) \/ (HasPrefix(t) /\ Begins(t, s))
      BY <3>1, StartIs
    <3>. QED
      BY <1>3, <2>3, <3>2
  <2>. QED
    BY <2>2, <2>3
<1>. QED
  BY <1>1, <1>5, <1>6, <1>7 DEF Concrete

\* Of files and directories, no conflict is missed.
LEMMA SharedIsOverlap ==
  ASSUME NEW s \in Scope, NEW t \in Scope, Plain(s), Plain(t),
         NEW p \in FilePath, Matches(p, s), Matches(p, t)
  PROVE  ScopesOverlap(s, t)
<1>1. p \in Seq(Name)
  BY PathShape
<1>2. ASSUME NEW a \in Scope, Concrete(a), Matches(p, a)
      PROVE  p = a
  BY <1>1, <1>2, ConcreteShape, ConcreteMatch
<1>3. CASE Concrete(s)
  <2>1. p = s
    BY <1>2, <1>3
  <2>. QED
    BY <1>3, <2>1 DEF ScopesOverlap
<1>4. CASE ~Concrete(s) /\ Concrete(t)
  <2>1. p = t
    BY <1>2, <1>4
  <2>. QED
    BY <1>4, <2>1 DEF ScopesOverlap
<1>5. CASE ~Concrete(s) /\ ~Concrete(t)
  <2>1. HasPrefix(s) /\ HasPrefix(t)
    BY <1>5 DEF Plain
  <2>2. Begins(s, p) /\ Begins(t, p)
    BY <1>1, <2>1, PrefixHolds
  <2>3. ASSUME NEW a \in Scope, NEW b \in Scope, HasPrefix(a), HasPrefix(b), Len(a) <= Len(b),
               Begins(a, p), Begins(b, p)
        PROVE  Begins(a, b)
    <3> DEFINE i == Len(a) - 1
               j == Len(b)
    <3>1. i \in Nat /\ j \in Nat /\ i <= j /\ j - 1 \in Nat /\ i <= j - 1
      BY <2>3, PrefixShape, ScopeShape
    <3>2. (\A k \in 1..i : p[k] = a[k]) /\ (\A k \in 1..(j - 1) : p[k] = b[k])
      BY <2>3 DEF Begins
    <3> HIDE DEF i, j
    <3>3. \A k \in 1..i : k \in 1..(j - 1)
      BY <3>1
    <3>4. \A k \in 1..i : b[k] = a[k]
      BY <3>2, <3>3
    <3>. QED
      BY <3>1, <3>4 DEF Begins, i, j
  <2>4. Len(s) <= Len(t) \/ Len(t) <= Len(s)
    BY ScopeShape
  <2>5. PrefixesOverlap(s, t)
    <3>1. CASE Len(s) <= Len(t)
      <4>1. Begins(s, t)
        BY <2>1, <2>2, <2>3, <3>1
      <4>. QED
        BY <2>1, <3>1, <4>1, PrefixesAgree
    <3>2. CASE Len(t) <= Len(s)
      <4>1. Begins(t, s)
        BY <2>1, <2>2, <2>3, <3>2
      <4>. QED
        BY <2>1, <3>2, <4>1, PrefixesAgree
    <3>. QED
      BY <2>4, <3>1, <3>2
  <2>. QED
    BY <1>5, <2>5 DEF ScopesOverlap
<1>. QED
  BY <1>3, <1>4, <1>5 DEF Concrete

ScopesTypeOK == first \in Scope /\ second \in Scope /\ declaration \in Declaration

\* scopes_overlap and what is made of it: for scopes and paths of any length and
\* any names, an overlap is reported only for scopes that share a file, for
\* files and directories whenever they do, with a label that holds the shared
\* files, and alike in both directions.
THEOREM OverlapsAreExact == ScopesSpec => []OverlapIsExact
<1>1. ScopesInit => ScopesTypeOK
  BY DEF ScopesInit, ScopesTypeOK
<1>2. ScopesTypeOK /\ [ScopesNext]_scopeVars => ScopesTypeOK'
  BY DEF ScopesTypeOK, ScopesNext, Redeclare, scopeVars
<1>3. ASSUME ScopesTypeOK
      PROVE  OverlapIsExact
  <2> DEFINE s == first
             t == second
             common == Common(s, t)
  <2>1. s \in Scope /\ t \in Scope
    BY <1>3 DEF ScopesTypeOK
  <2>2. \A p : p \in common <=> p \in FilePath /\ Matches(p, s) /\ Matches(p, t)
    BY DEF Common
  <2> HIDE DEF s, t, common
  <2>3. ScopesOverlap(s, t) => common # {}
    BY <2>1, <2>2, OverlapIsReal
  <2>4. Plain(s) /\ Plain(t) /\ common # {} => ScopesOverlap(s, t)
    BY <2>1, <2>2, SharedIsOverlap
  <2>5. \A p \in common : \E l \in Label(s, t) : Matches(p, l)
    <3>1. Label(s, t) = {s} \/ Label(s, t) = {t} \/ Label(s, t) = {s, t}
      BY DEF Label
    <3>. QED
      BY <2>2, <3>1
  <2>6. Severity(s, t, declaration) = Severity(t, s, declaration)
    BY <2>1, OverlapIsMutual DEF Severity
  <2>. QED
    BY <2>3, <2>4, <2>5, <2>6 DEF OverlapIsExact, s, t, common
<1>. QED
  BY <1>1, <1>2, <1>3, PTL DEF ScopesSpec

-----------------------------------------------------------------------------
\* The lines of an index

LEMMA EntriesAreLines ==
  ASSUME NEW ix \in Seq(Line)
  PROVE  /\ \A f : f \in Registered(ix) <=> \E l \in Range(ix) : l.what = "entry" /\ l.of = f
         /\ \A k : k \in Keywords(ix) <=> \E l \in Range(ix) : l.what = "entry" /\ l.kw = k
         /\ Range(ix) \subseteq Line
BY DEF Registered, Keywords, EntryLines, Range

\* The lines of an entry of KnowledgeFile and Keyword, and the others
LEMMA LineTypes ==
  /\ \A f \in KnowledgeFile : Heading(f[1]) \in Line
  /\ Rule \in Line
  /\ \A f \in KnowledgeFile, k \in Keyword :
       /\ Entry(f, k) \in Line /\ Entry(f, k).what = "entry"
       /\ Entry(f, k).of = f /\ Entry(f, k).kw = k
  /\ \A c : Heading(c).what # "entry"
  /\ Rule.what # "entry"
  /\ \A l \in Line : l.what = "entry" =>
       /\ l.of \in KnowledgeFile /\ l.kw \in Keyword
       /\ \A f \in KnowledgeFile : [l EXCEPT !.of = f] = Entry(f, l.kw)
<1>1. \A f \in KnowledgeFile : Heading(f[1]) \in Line
  BY DEF Line, Category
<1>2. Rule \in Line
  BY DEF Line
<1>3. \A f \in KnowledgeFile, k \in Keyword : Entry(f, k) \in Line
  BY DEF Line
<1>4. \A f, k : Entry(f, k).what = "entry" /\ Entry(f, k).of = f /\ Entry(f, k).kw = k
  BY DEF Entry
<1>5. (\A c : Heading(c).what # "entry") /\ Rule.what # "entry"
  BY DEF Heading, Rule
<1>6. ASSUME NEW l \in Line, l.what = "entry"
      PROVE  /\ l.of \in KnowledgeFile /\ l.kw \in Keyword
             /\ \A f \in KnowledgeFile : [l EXCEPT !.of = f] = Entry(f, l.kw)
  <2>1. PICK g \in KnowledgeFile, k \in Keyword : l = Entry(g, k)
    BY <1>5, <1>6 DEF Line
  <2>2. \A f : [l EXCEPT !.of = f] = Entry(f, k)
    BY <2>1 DEF Entry
  <2>. QED
    BY <1>4, <2>1, <2>2
<1>. QED
  BY <1>1, <1>2, <1>3, <1>4, <1>5, <1>6

LEMMA LinesInserted ==
  ASSUME NEW T, NEW s \in Seq(T), NEW i \in 1..(Len(s) + 1), NEW e \in T
  PROVE  /\ InsertAt(s, i, e) \in Seq(T)
         /\ Range(InsertAt(s, i, e)) = Range(s) \cup {e}
<1> DEFINE a == SubSeq(s, 1, i - 1)
           b == SubSeq(s, i, Len(s))
           t == a \o <<e>> \o b
<1>1. /\ a \in Seq(T) /\ Len(a) = i - 1 /\ \A j \in 1..(i - 1) : a[j] = s[j]
      /\ b \in Seq(T) /\ Len(b) = Len(s) - i + 1
      /\ \A j \in 1..(Len(s) - i + 1) : b[j] = s[i + j - 1]
  OBVIOUS
<1> HIDE DEF a, b
<1>2. t \in Seq(T) /\ Len(t) = Len(s) + 1
  BY <1>1
<1>3. /\ \A j \in 1..(i - 1) : t[j] = s[j]
      /\ t[i] = e
      /\ \A j \in (i + 1)..(Len(s) + 1) : t[j] = s[j - 1]
  BY <1>1
<1> HIDE DEF t
<1>4. \A j \in 1..Len(s) : \E m \in 1..(Len(s) + 1) : t[m] = s[j]
  <2> TAKE j \in 1..Len(s)
  <2>1. CASE j < i
    BY <1>3, <2>1
  <2>2. CASE i <= j
    <3>1. j + 1 \in (i + 1)..(Len(s) + 1) /\ (j + 1) - 1 = j /\ j + 1 \in 1..(Len(s) + 1)
      BY <2>2
    <3>2. t[j + 1] = s[j]
      BY <1>3, <3>1
    <3>. QED
      BY <3>1, <3>2
  <2>. QED
    BY <2>1, <2>2
<1>5. \A m \in 1..(Len(s) + 1) : t[m] = e \/ \E j \in 1..Len(s) : t[m] = s[j]
  <2> TAKE m \in 1..(Len(s) + 1)
  <2>1. CASE m < i
    BY <1>3, <2>1
  <2>2. CASE m = i
    BY <1>3, <2>2
  <2>3. CASE i < m
    BY <1>3, <2>3
  <2>. QED
    BY <2>1, <2>2, <2>3
<1>6. DOMAIN t = 1..(Len(s) + 1) /\ DOMAIN s = 1..Len(s)
  BY <1>2
<1>7. Range(t) = Range(s) \cup {e}
  <2>1. e \in Range(t)
    BY <1>3, <1>6 DEF Range
  <2>2. Range(s) \subseteq Range(t)
    BY <1>4, <1>6 DEF Range
  <2>3. Range(t) \subseteq Range(s) \cup {e}
    BY <1>5, <1>6 DEF Range
  <2>. QED
    BY <2>1, <2>2, <2>3
<1>. QED
  BY <1>2, <1>7 DEF InsertAt, t, a, b

LEMMA LeastIsMin ==
  ASSUME NEW S, S \subseteq Nat, S # {}
  PROVE  Min(S) \in S
BY LeastNatural DEF Min

LEMMA LinesAppended ==
  ASSUME NEW T, NEW s \in Seq(T), NEW t \in Seq(T)
  PROVE  s \o t \in Seq(T) /\ Range(s \o t) = Range(s) \cup Range(t)
<1> DEFINE u == s \o t
<1>1. /\ u \in Seq(T) /\ Len(u) = Len(s) + Len(t)
      /\ \A i \in 1..Len(s) : u[i] = s[i]
      /\ \A i \in 1..Len(t) : u[Len(s) + i] = t[i]
  OBVIOUS
<1> HIDE DEF u
<1>2. DOMAIN u = 1..(Len(s) + Len(t)) /\ DOMAIN s = 1..Len(s) /\ DOMAIN t = 1..Len(t)
  BY <1>1
<1>3. Range(s) \subseteq Range(u)
  BY <1>1, <1>2 DEF Range
<1>4. Range(t) \subseteq Range(u)
  <2>1. \A i \in 1..Len(t) : Len(s) + i \in 1..(Len(s) + Len(t))
    OBVIOUS
  <2>. QED
    BY <1>1, <1>2, <2>1 DEF Range
<1>5. Range(u) \subseteq Range(s) \cup Range(t)
  <2>1. ASSUME NEW m \in 1..(Len(s) + Len(t))
        PROVE  u[m] \in Range(s) \cup Range(t)
    <3>1. CASE m <= Len(s)
      <4>1. m \in 1..Len(s)
        BY <3>1
      <4>2. u[m] = s[m] /\ m \in DOMAIN s
        BY <1>1, <1>2, <4>1
      <4>. QED
        BY <4>2 DEF Range
    <3>2. CASE Len(s) < m
      <4>1. m - Len(s) \in 1..Len(t) /\ Len(s) + (m - Len(s)) = m
        BY <3>2
      <4>2. u[m] = t[m - Len(s)]
        BY <1>1, <4>1
      <4>. QED
        BY <1>2, <4>1, <4>2 DEF Range
    <3>. QED
      BY <3>1, <3>2
  <2>. QED
    BY <1>2, <2>1 DEF Range
<1>. QED
  BY <1>1, <1>3, <1>4, <1>5 DEF u

LEMMA LinesRegistered ==
  ASSUME NEW ix \in Seq(Line), NEW f \in KnowledgeFile, NEW k \in Keyword
  PROVE  /\ Register(ix, f, k) \in Seq(Line)
         /\ Range(ix) \cup {Entry(f, k)} \subseteq Range(Register(ix, f, k))
         /\ Range(Register(ix, f, k)) \subseteq
              Range(ix) \cup {Rule, Heading(f[1]), Entry(f, k)}
<1> DEFINE at == InsertPoint(ix, f[1])
           e == Entry(f, k)
           h == Heading(f[1])
<1>1. e \in Line /\ h \in Line /\ Rule \in Line
  BY LineTypes
<1>2. at \in 0..(Len(ix) + 1)
  <2> DEFINE start == Min(SectionOf(ix, f[1]))
             ends == {i \in DOMAIN ix : i > start /\ ix[i].what # "entry"}
  <2>1. ends \subseteq 1..Len(ix)
    OBVIOUS
  <2>2. ends # {} => Min(ends) \in 1..Len(ix)
    <3> HIDE DEF ends
    <3>1. ends \subseteq Nat
      BY <2>1
    <3>. QED
      BY <2>1, <3>1, LeastIsMin
  <2>3. at \in {0, Len(ix) + 1} \/ (ends # {} /\ at = Min(ends))
    BY DEF InsertPoint
  <2> HIDE DEF ends, at
  <2>. QED
    BY <2>2, <2>3
<1> HIDE DEF at, e, h
<1>3. CASE at = 0
  <2> DEFINE new == <<Rule, h, e>>
  <2>1. new \in Seq(Line) /\ Range(new) = {Rule, h, e}
    <3>1. new \in Seq(Line)
      BY <1>1
    <3>2. DOMAIN new = 1..3 /\ new[1] = Rule /\ new[2] = h /\ new[3] = e
      OBVIOUS
    <3> HIDE DEF new
    <3>3. \A i \in 1..3 : i = 1 \/ i = 2 \/ i = 3
      OBVIOUS
    <3>4. Range(new) \subseteq {Rule, h, e}
      BY <3>2, <3>3 DEF Range
    <3>5. {Rule, h, e} \subseteq Range(new)
      BY <3>2 DEF Range
    <3>. QED
      BY <3>1, <3>4, <3>5
  <2> HIDE DEF new
  <2>2. ix \o new \in Seq(Line) /\ Range(ix \o new) = Range(ix) \cup Range(new)
    BY <2>1, LinesAppended
  <2>3. Register(ix, f, k) = ix \o new
    BY <1>3 DEF Register, at, new, e, h
  <2>. QED
    BY <2>1, <2>2, <2>3 DEF e, h
<1>4. CASE at # 0
  <2>1. at \in 1..(Len(ix) + 1)
    BY <1>2, <1>4
  <2>2. Register(ix, f, k) = InsertAt(ix, at, e)
    BY <1>4 DEF Register, at, e
  <2>3. /\ InsertAt(ix, at, e) \in Seq(Line)
        /\ Range(InsertAt(ix, at, e)) = Range(ix) \cup {e}
    BY <1>1, <2>1, LinesInserted
  <2>. QED
    BY <2>2, <2>3 DEF e, h
<1>. QED
  BY <1>3, <1>4

-----------------------------------------------------------------------------
\* What the three edits make of the lines

\* Each line of ix is still there, and each other entry is one of the drafts.
Grown(s, ix, drafts, kws) ==
  /\ s \in Seq(Line) /\ Range(ix) \subseteq Range(s)
  /\ \A l \in Range(s) : l.what = "entry" =>
       l \in Range(ix) \/ \E f \in drafts : l = Entry(f, kws[f])

LEMMA GrownOnce ==
  ASSUME NEW ix, NEW drafts, drafts \subseteq KnowledgeFile,
         NEW kws \in [drafts -> Keyword], NEW s, Grown(s, ix, drafts, kws),
         NEW f \in drafts
  PROVE  Grown(Register(s, f, kws[f]), ix, drafts, kws)
<1> DEFINE t == Register(s, f, kws[f])
<1>1. f \in KnowledgeFile /\ kws[f] \in Keyword /\ s \in Seq(Line)
  BY DEF Grown
<1>2. /\ t \in Seq(Line) /\ Range(s) \subseteq Range(t)
      /\ Range(t) \subseteq Range(s) \cup {Rule, Heading(f[1]), Entry(f, kws[f])}
  BY <1>1, LinesRegistered
<1> HIDE DEF t
<1>3. Rule.what # "entry" /\ Heading(f[1]).what # "entry"
  BY LineTypes
<1>4. Range(ix) \subseteq Range(t)
  BY <1>2 DEF Grown
<1>5. ASSUME NEW l \in Range(t), l.what = "entry"
      PROVE  l \in Range(ix) \/ \E g \in drafts : l = Entry(g, kws[g])
  <2>1. l \in Range(s) \/ l = Entry(f, kws[f])
    BY <1>2, <1>3, <1>5
  <2>. QED
    BY <1>5, <2>1 DEF Grown
<1>. QED
  BY <1>2, <1>4, <1>5 DEF Grown, t

LEMMA AddedLines ==
  ASSUME NEW ix \in Seq(Line), NEW batch \in Seq(KnowledgeFile),
         NEW kws \in [Drafts(ix, batch) -> Keyword]
  PROVE  Grown(Added(ix, batch, kws), ix, Drafts(ix, batch), kws)
<1> DEFINE N == Len(batch)
           drafts == Drafts(ix, batch)
           Q == Seq(Line)
           Step(n, s) == IF batch[n] \in Registered(ix) THEN s
                         ELSE Register(s, batch[n], kws[batch[n]])
           Is(f) == f = [n \in 0..N |-> IF n = 0 THEN ix ELSE
                           IF batch[n] \in Registered(ix) THEN f[n-1]
                           ELSE Register(f[n-1], batch[n], kws[batch[n]])]
           lines == CHOOSE f : Is(f)
<1>1. N \in Nat /\ DOMAIN batch = 1..N /\ \A n \in 1..N : batch[n] \in KnowledgeFile
  OBVIOUS
<1>2. \A n \in 1..N : batch[n] \notin Registered(ix) => batch[n] \in drafts
  BY <1>1 DEF Drafts, Range
<1>3. drafts \subseteq KnowledgeFile
  BY <1>1 DEF Drafts, Range
<1>4. kws \in [drafts -> Keyword]
  OBVIOUS
<1>5. ASSUME NEW n \in 1..N, NEW s \in Q
      PROVE  Step(n, s) \in Q
  <2>1. batch[n] \notin Registered(ix) => kws[batch[n]] \in Keyword
    BY <1>2, <1>4
  <2>. QED
    BY <1>1, <1>5, <2>1, LinesRegistered
<1> HIDE DEF N, drafts, Q
<1>6. \E f : Is(f)
  <2> DEFINE F == [n \in Nat |-> [s \in Q |-> IF n < N THEN Step(n + 1, s) ELSE s]]
  <2>1. \A n \in Nat : n < N => n + 1 \in 1..N
    BY <1>1
  <2>2. \A n \in Nat, s \in Q : (IF n < N THEN Step(n + 1, s) ELSE s) \in Q
    <3> HIDE DEF Step
    <3>. QED
      BY <1>5, <2>1
  <2> HIDE DEF Step
  <2>3. F \in [Nat -> [Q -> Q]]
    BY <2>2
  <2>4. \A n \in 1..N, s \in Q : F[n - 1][s] = Step(n, s)
    <3> TAKE n \in 1..N, s \in Q
    <3>1. n - 1 \in Nat /\ n - 1 < N /\ (n - 1) + 1 = n
      BY <1>1
    <3>. QED
      BY <3>1
  <2> HIDE DEF F
  <2>5. ix \in Q
    BY DEF Q
  <2>6. PICK g \in [0..N -> Q] : FollowsUpto(N, g, ix, F)
    BY <1>1, <2>3, <2>5, RecursionUpto
  <2>7. \A n \in 1..N : g[n] = Step(n, g[n - 1])
    <3> TAKE n \in 1..N
    <3>1. n - 1 \in 0..N
      BY <1>1
    <3>. QED
      BY <2>4, <2>6, <3>1 DEF FollowsUpto
  <2>8. \A n \in 0..N : n # 0 => n \in 1..N
    BY <1>1
  <2>9. \A n \in 0..N : g[n] = IF n = 0 THEN ix ELSE Step(n, g[n - 1])
    BY <2>6, <2>7, <2>8 DEF FollowsUpto
  <2>10. g = [n \in 0..N |-> IF n = 0 THEN ix ELSE Step(n, g[n - 1])]
    BY <2>9
  <2>11. Is(g)
    BY <2>10 DEF Step
  <2>. QED
    BY <2>11
<1>7. Is(lines)
  <2> HIDE DEF Is
  <2>. QED
    BY <1>6
<1>8. Added(ix, batch, kws) = lines[N]
  BY DEF Added, N
<1>9. lines[0] = ix /\ \A n \in 1..N : lines[n] = Step(n, lines[n - 1])
  <2> HIDE DEF lines
  <2>. QED
    BY <1>1, <1>7
<1> HIDE DEF lines, Is
<1> DEFINE Good == {n \in Nat : n <= N => Grown(lines[n], ix, drafts, kws)}
<1>10. 0 \in Good
  BY <1>9 DEF Grown
<1>11. ASSUME NEW n \in Nat, n \in Good
       PROVE  n + 1 \in Good
  <2> SUFFICES ASSUME n + 1 <= N
               PROVE  Grown(lines[n + 1], ix, drafts, kws)
    OBVIOUS
  <2>1. n + 1 \in 1..N /\ (n + 1) - 1 = n /\ n <= N
    BY <1>1
  <2>2. Grown(lines[n], ix, drafts, kws)
    BY <1>11, <2>1
  <2>3. lines[n + 1] = Step(n + 1, lines[n])
    BY <1>9, <2>1
  <2>4. CASE batch[n + 1] \in Registered(ix)
    BY <2>2, <2>3, <2>4
  <2>5. CASE batch[n + 1] \notin Registered(ix)
    <3>1. batch[n + 1] \in drafts
      BY <1>2, <2>1, <2>5
    <3>. QED
      BY <1>3, <1>4, <2>2, <2>3, <2>5, <3>1, GrownOnce
  <2>. QED
    BY <2>4, <2>5
<1>12. N \in Good
  <2> HIDE DEF Good
  <2>1. Nat \subseteq Good
    BY <1>10, <1>11, AllNaturals
  <2>. QED
    BY <1>1, <2>1
<1>13. Grown(lines[N], ix, drafts, kws)
  BY <1>1, <1>12
<1>. QED
  BY <1>8, <1>13 DEF drafts

LEMMA TimesNamed ==
  ASSUME NEW ix \in Seq(Line), NEW targets \in Seq(KnowledgeFile), NEW p \in 1..Len(ix)
  PROVE  /\ Times(ix, targets, p) \in Nat
         /\ IsInjective(targets) => Times(ix, targets, p) \in {0, 1}
         /\ ix[p].of \notin Range(targets) => Times(ix, targets, p) = 0
<1> DEFINE J == {j \in DOMAIN targets : p \in Hits(ix, targets[j])}
           N == Len(targets)
<1>1. N \in Nat /\ DOMAIN targets = 1..N
  OBVIOUS
<1>2. \A j \in J : j \in 1..N /\ ix[p].of = targets[j]
  BY <1>1 DEF Hits
<1> HIDE DEF J, N
<1>3. IsFiniteSet(1..N)
  BY <1>1, FS_Interval
<1>4. J \subseteq 1..N
  BY <1>2
<1>5. IsFiniteSet(J)
  BY <1>3, <1>4, FS_Subset
<1>6. Cardinality(J) \in Nat
  BY <1>5, FS_CardinalityType
<1>7. J = {} => Cardinality(J) = 0
  BY FS_EmptySet
<1>8. ASSUME IsInjective(targets), J # {}
      PROVE  Cardinality(J) = 1
  <2>1. PICK j : j \in J
    BY <1>8
  <2>2. \A k \in J : k = j
    BY <1>1, <1>2, <1>8, <2>1 DEF IsInjective
  <2>3. J = {j}
    BY <2>1, <2>2
  <2>. QED
    BY <2>3, FS_Singleton
<1>9. ix[p].of \notin Range(targets) => J = {}
  BY <1>1, <1>2 DEF Range
<1>10. Times(ix, targets, p) = Cardinality(J)
  BY DEF Times, J
<1>. QED
  BY <1>6, <1>7, <1>8, <1>9, <1>10

\* t lines from p on are gone, the others are as they were.
Cut(w, s, p, t) ==
  /\ p - 1 <= Len(w) /\ Range(w) \subseteq Range(s)
  /\ \A q \in 1..(p - 1) : w[q] = s[q]
  /\ \A m \in (p + t)..Len(s) : m - t <= Len(w) /\ w[m - t] = s[m]

LEMMA CutOut ==
  ASSUME NEW T, NEW s \in Seq(T), NEW p \in 1..Len(s), NEW t \in Nat
  PROVE  Without(s, p, t) \in Seq(T) /\ Cut(Without(s, p, t), s, p, t)
<1> DEFINE N == Len(s)
           a == SubSeq(s, 1, p - 1)
           b == SubSeq(s, p + t, N)
           M == IF p + t <= N THEN N - (p + t) + 1 ELSE 0
           w == a \o b
<1>1. N \in Nat /\ DOMAIN s = 1..N
  OBVIOUS
<1>2. /\ a \in Seq(T) /\ Len(a) = p - 1 /\ \A q \in 1..(p - 1) : a[q] = s[q]
      /\ \A q \in 1..(p - 1) : q \in 1..N
  OBVIOUS
<1>3. b \in Seq(T) /\ Len(b) = M
  OBVIOUS
<1>4. \A j \in 1..M : b[j] = s[p + t + j - 1] /\ p + t + j - 1 \in 1..N
  OBVIOUS
<1>5. M \in Nat
  OBVIOUS
<1> HIDE DEF a, b
<1>6. /\ w \in Seq(T) /\ Len(w) = (p - 1) + M
      /\ \A q \in 1..(p - 1) : w[q] = a[q]
      /\ \A j \in 1..M : w[(p - 1) + j] = b[j]
  <2> HIDE DEF M
  <2>0. a \in Seq(T) /\ b \in Seq(T)
    BY <1>2, <1>3
  <2>1. /\ w \in Seq(T) /\ Len(w) = Len(a) + Len(b)
        /\ \A q \in 1..Len(a) : w[q] = a[q]
        /\ \A j \in 1..Len(b) : w[Len(a) + j] = b[j]
    BY <2>0
  <2>. QED
    BY <1>2, <1>3, <2>1
<1> HIDE DEF w
<1>7. p - 1 <= Len(w)
  BY <1>5, <1>6
<1>8. \A q \in 1..(p - 1) : w[q] = s[q]
  BY <1>2, <1>6
<1>9. ASSUME NEW m \in (p + t)..N
      PROVE  m - t <= Len(w) /\ w[m - t] = s[m]
  <2> DEFINE j == m - t - p + 1
  <2>1. j \in 1..M /\ (p - 1) + j = m - t /\ p + t + j - 1 = m /\ m - t <= (p - 1) + M
    BY <1>1
  <2> HIDE DEF j, M
  <2>2. w[(p - 1) + j] = b[j] /\ b[j] = s[p + t + j - 1]
    BY <1>4, <1>6, <2>1
  <2>. QED
    BY <1>6, <2>1, <2>2
<1>10. Range(w) \subseteq Range(s)
  <2>1. DOMAIN w = 1..((p - 1) + M)
    BY <1>6
  <2>2. ASSUME NEW m \in 1..((p - 1) + M)
        PROVE  \E q \in 1..N : w[m] = s[q]
    <3>1. CASE m <= p - 1
      BY <1>2, <1>8, <3>1
    <3>2. CASE p - 1 < m
      <4> DEFINE j == m - (p - 1)
      <4>1. j \in 1..M /\ (p - 1) + j = m
        BY <1>5, <3>2
      <4> HIDE DEF j, M
      <4>2. w[m] = b[j] /\ b[j] = s[p + t + j - 1] /\ p + t + j - 1 \in 1..N
        BY <1>4, <1>6, <4>1
      <4>. QED
        BY <4>2
    <3>. QED
      BY <3>1, <3>2
  <2>. QED
    BY <1>1, <2>1, <2>2 DEF Range
<1>11. w = Without(s, p, t)
  BY <1>1 DEF w, a, b, Without
<1>. QED
  BY <1>6, <1>7, <1>8, <1>9, <1>10, <1>11 DEF Cut

\* After n of the lines from the end on have been looked at
Trimmed(n, s, ix, targets) ==
  /\ s \in Seq(Line) /\ Len(ix) - n <= Len(s) /\ Range(s) \subseteq Range(ix)
  /\ \A q \in 1..(Len(ix) - n) : s[q] = ix[q]
  /\ IsInjective(targets) =>
       \A q \in (Len(ix) - n + 1)..Len(ix) :
         Times(ix, targets, q) = 0 => \E m \in (Len(ix) - n + 1)..Len(s) : s[m] = ix[q]

LEMMA TrimmedOnce ==
  ASSUME NEW ix \in Seq(Line), NEW targets \in Seq(KnowledgeFile),
         NEW n \in 0..(Len(ix) - 1), NEW s, Trimmed(n, s, ix, targets)
  PROVE  Trimmed(n + 1, Without(s, Len(ix) - n, Times(ix, targets, Len(ix) - n)),
                 ix, targets)
<1> DEFINE L == Len(ix)
           p == L - n
           t == Times(ix, targets, p)
           w == Without(s, p, t)
           S == Len(s)
           W == Len(w)
<1>1. L \in Nat /\ p \in 1..L /\ p \in Nat \ {0} /\ p - 1 <= S
      /\ L - (n + 1) = p - 1 /\ p <= S
  BY DEF Trimmed
<1>2. s \in Seq(Line) /\ Range(s) \subseteq Range(ix) /\ \A q \in 1..p : s[q] = ix[q]
  BY DEF Trimmed
<1>3. t \in Nat /\ (IsInjective(targets) => t \in {0, 1})
  BY <1>1, TimesNamed
<1>4. IsInjective(targets) =>
        \A q \in (p + 1)..L :
          Times(ix, targets, q) = 0 => \E m \in (p + 1)..S : s[m] = ix[q]
  BY DEF Trimmed
<1> HIDE DEF L, p, t, S
<1>5. w \in Seq(Line) /\ Cut(w, s, p, t)
  <2>1. p \in 1..Len(s)
    BY <1>1, <1>2 DEF S
  <2>. QED
    BY <1>2, <1>3, <2>1, CutOut
<1> HIDE DEF w
<1>5a. W \in Nat /\ S \in Nat
  BY <1>2, <1>5 DEF S
<1> HIDE DEF W
<1>6. p - 1 <= W /\ Range(w) \subseteq Range(ix) /\ \A q \in 1..(p - 1) : w[q] = ix[q]
  <2>1. \A q \in 1..(p - 1) : q \in 1..p
    BY <1>1
  <2>. QED
    BY <1>2, <1>5, <2>1 DEF Cut, W
<1>7. ASSUME IsInjective(targets), NEW q \in p..L, Times(ix, targets, q) = 0
      PROVE  \E m \in p..W : w[m] = ix[q]
  <2>0. \A m \in (p + t)..S : m - t <= W /\ w[m - t] = s[m]
    BY <1>5 DEF Cut, S, W
  <2>1. CASE q = p
    <3>1. t = 0
      BY <1>7, <2>1 DEF t
    <3>2. p \in (p + t)..S /\ p - t = p
      BY <1>1, <1>5a, <3>1
    <3>3. p <= W /\ w[p] = s[p]
      BY <2>0, <3>2
    <3>4. p \in p..W /\ p \in 1..p
      BY <1>1, <1>5a, <3>3
    <3>5. w[p] = ix[q]
      BY <1>2, <2>1, <3>3, <3>4
    <3>. QED
      BY <3>4, <3>5
  <2>2. CASE q # p
    <3>1. q \in (p + 1)..L
      BY <1>1, <2>2
    <3>2. PICK m \in (p + 1)..S : s[m] = ix[q]
      BY <1>4, <1>7, <3>1
    <3>3. t \in {0, 1}
      BY <1>3, <1>7
    <3>4. m \in (p + t)..S /\ m - t \in Int /\ p <= m - t
      BY <1>1, <1>5a, <3>3
    <3>5. m - t <= W /\ w[m - t] = ix[q]
      BY <2>0, <3>2, <3>4
    <3>6. m - t \in p..W
      BY <1>1, <1>5a, <3>4, <3>5
    <3>. QED
      BY <3>5, <3>6
  <2>. QED
    BY <2>1, <2>2
<1>8. Len(ix) - (n + 1) = p - 1 /\ Len(ix) - (n + 1) + 1 = p /\ Len(w) = W /\ Len(ix) = L
  BY <1>1 DEF L, W
<1>9. Trimmed(n + 1, w, ix, targets)
  BY <1>5, <1>6, <1>7, <1>8 DEF Trimmed
<1>. QED
  BY <1>9 DEF w, p, t, L

\* A call with --remove takes lines away and adds none; and if it names no file
\* twice, it takes the lines of the files that it names only.
LEMMA RemovedLines ==
  ASSUME NEW ix \in Seq(Line), NEW targets \in Seq(KnowledgeFile)
  PROVE  /\ Removed(ix, targets) \in Seq(Line)
         /\ Range(Removed(ix, targets)) \subseteq Range(ix)
         /\ IsInjective(targets) =>
              \A l \in Range(ix) : l.of \notin Range(targets) => l \in Range(Removed(ix, targets))
<1> DEFINE N == Len(ix)
           Q == Seq(Line)
           Step(n, s) == Without(s, N + 1 - n, Times(ix, targets, N + 1 - n))
           Is(f) == f = [n \in 0..N |-> IF n = 0 THEN ix ELSE
                           LET p == N + 1 - n IN Without(f[n-1], p, Times(ix, targets, p))]
           lines == CHOOSE f : Is(f)
           Fine(n, s) == Trimmed(n, s, ix, targets)
<1>1. N \in Nat /\ DOMAIN ix = 1..N
  OBVIOUS
<1>2. Fine(0, ix)
  BY DEF Trimmed, Range
<1>3. ASSUME NEW n \in Nat, n < N, NEW s, Fine(n, s)
      PROVE  Fine(n + 1, Step(n + 1, s))
  <2>1. n \in 0..(N - 1) /\ N + 1 - (n + 1) = N - n
    <3> HIDE DEF N
    <3>. QED
      BY <1>1, <1>3
  <2>2. Trimmed(n + 1, Without(s, N - n, Times(ix, targets, N - n)), ix, targets)
    BY <1>3, <2>1, TrimmedOnce
  <2>. QED
    BY <2>1, <2>2
<1>4. \A n, s : Fine(n, s) => s \in Q
  BY DEF Trimmed
<1> HIDE DEF N, Q, Fine
<1>5. \E f : Is(f)
  <2> DEFINE F == [n \in Nat |-> [s \in Q |->
                     IF n < N /\ Fine(n, s) THEN Step(n + 1, s) ELSE ix]]
  <2> HIDE DEF Step
  <2>1. ix \in Q
    BY <1>2, <1>4
  <2>2. \A n \in Nat, s \in Q : (IF n < N /\ Fine(n, s) THEN Step(n + 1, s) ELSE ix) \in Q
    BY <1>3, <1>4, <2>1
  <2>3. F \in [Nat -> [Q -> Q]]
    BY <2>2
  <2>4. \A n \in Nat, s \in Q : n < N /\ Fine(n, s) => F[n][s] = Step(n + 1, s)
    OBVIOUS
  <2> HIDE DEF F
  <2>5. PICK g \in [0..N -> Q] : FollowsUpto(N, g, ix, F)
    BY <1>1, <2>1, <2>3, RecursionUpto
  <2>6. g[0] = ix
    BY <2>5 DEF FollowsUpto
  <2>7. ASSUME NEW n \in Nat, n < N, Fine(n, g[n])
        PROVE  g[n + 1] = Step(n + 1, g[n])
    <3>1. n + 1 \in 1..N /\ (n + 1) - 1 = n /\ n \in 0..N
      BY <1>1, <2>7
    <3>2. g[n + 1] = F[n][g[n]]
      BY <2>5, <3>1 DEF FollowsUpto
    <3>. QED
      BY <2>4, <2>7, <3>1, <3>2
  <2> DEFINE Good == {n \in Nat : n <= N => Fine(n, g[n])}
  <2>8. 0 \in Good
    BY <1>2, <2>6
  <2>9. ASSUME NEW n \in Nat, n \in Good
        PROVE  n + 1 \in Good
    <3> SUFFICES ASSUME n + 1 <= N
                 PROVE  Fine(n + 1, g[n + 1])
      OBVIOUS
    <3>1. n < N /\ n <= N
      BY <1>1
    <3>2. Fine(n, g[n])
      BY <2>9, <3>1
    <3>3. g[n + 1] = Step(n + 1, g[n])
      BY <2>7, <3>1, <3>2
    <3>4. Fine(n + 1, Step(n + 1, g[n]))
      BY <1>3, <3>1, <3>2
    <3>. QED
      BY <3>3, <3>4
  <2>10. \A n \in Nat : n <= N => Fine(n, g[n])
    <3>1. Nat \subseteq Good
      <4> HIDE DEF Good
      <4>. QED
        BY <2>8, <2>9, AllNaturals
    <3>. QED
      BY <3>1
  <2>11. \A n \in 0..N : n # 0 => g[n] = Step(n, g[n - 1])
    <3> TAKE n \in 0..N
    <3> HAVE n # 0
    <3>1. n - 1 \in Nat /\ n - 1 < N /\ n - 1 <= N /\ (n - 1) + 1 = n
      BY <1>1
    <3>2. Fine(n - 1, g[n - 1])
      BY <2>10, <3>1
    <3>. QED
      BY <2>7, <3>1, <3>2
  <2>12. g = [n \in 0..N |-> IF n = 0 THEN ix ELSE Step(n, g[n - 1])]
    BY <2>6, <2>11
  <2>13. Is(g)
    BY <2>12 DEF Step
  <2>. QED
    BY <2>13
<1>6. Is(lines)
  <2> HIDE DEF Is
  <2>. QED
    BY <1>5
<1>7. Removed(ix, targets) = lines[N]
  BY DEF Removed, N
<1>8. lines[0] = ix /\ \A n \in 1..N : lines[n] = Step(n, lines[n - 1])
  <2> HIDE DEF lines
  <2>. QED
    BY <1>1, <1>6
<1> HIDE DEF lines, Is, Step
<1> DEFINE Good == {n \in Nat : n <= N => Fine(n, lines[n])}
<1>9. 0 \in Good
  BY <1>2, <1>8
<1>10. ASSUME NEW n \in Nat, n \in Good
       PROVE  n + 1 \in Good
  <2> SUFFICES ASSUME n + 1 <= N
               PROVE  Fine(n + 1, lines[n + 1])
    OBVIOUS
  <2>1. n + 1 \in 1..N /\ (n + 1) - 1 = n /\ n < N /\ n <= N
    BY <1>1
  <2>2. Fine(n, lines[n])
    BY <1>10, <2>1
  <2>3. lines[n + 1] = Step(n + 1, lines[n])
    BY <1>8, <2>1
  <2>. QED
    BY <1>3, <2>1, <2>2, <2>3
<1>11. Fine(N, lines[N])
  <2>1. Nat \subseteq Good
    <3> HIDE DEF Good
    <3>. QED
      BY <1>9, <1>10, AllNaturals
  <2>. QED
    BY <1>1, <2>1
<1> DEFINE w == lines[N]
<1>12. /\ w \in Seq(Line) /\ Range(w) \subseteq Range(ix)
       /\ IsInjective(targets) => \A q \in 1..N :
            Times(ix, targets, q) = 0 => \E m \in 1..Len(w) : w[m] = ix[q]
  <2>1. N - N + 1 = 1 /\ Len(ix) = N
    BY <1>1 DEF N
  <2>. QED
    BY <1>11, <2>1 DEF Trimmed, Fine
<1> HIDE DEF w
<1>13. ASSUME IsInjective(targets), NEW l \in Range(ix), l.of \notin Range(targets)
       PROVE  l \in Range(w)
  <2>1. PICK q \in 1..N : ix[q] = l
    BY <1>1 DEF Range
  <2>2. Times(ix, targets, q) = 0
    BY <1>13, <2>1, TimesNamed DEF N
  <2>. QED
    BY <1>12, <1>13, <2>1, <2>2 DEF Range
<1>. QED
  BY <1>7, <1>12, <1>13 DEF w

\* A call with --rename gives the lines of the old path the new one.
Moved(w, ix, old, new) ==
  /\ w \in Seq(Line)
  /\ \A l \in Range(ix) : l.of # old => l \in Range(w)
  /\ \A l \in Range(w) : l.what = "entry" =>
       \E m \in Range(ix) : /\ m.what = "entry" /\ m.kw = l.kw
                            /\ l.of = IF m.of = old THEN new ELSE m.of

LEMMA RenamedLines ==
  ASSUME NEW ix \in Seq(Line), NEW old \in KnowledgeFile, NEW new \in KnowledgeFile
  PROVE  Moved(Renamed(ix, old, new), ix, old, new)
<1> DEFINE w == Renamed(ix, old, new)
           N == Len(ix)
<1>1. N \in Nat /\ DOMAIN ix = 1..N /\ \A i \in 1..N : ix[i] \in Line
  OBVIOUS
<1>2. /\ DOMAIN w = 1..N
      /\ \A i \in 1..N : w[i] = IF i \in Hits(ix, old) THEN [ix[i] EXCEPT !.of = new] ELSE ix[i]
  BY <1>1 DEF Renamed
<1>2a. w = [i \in 1..N |-> w[i]]
  BY <1>1 DEF Renamed
<1>3. \A i \in Hits(ix, old) : i \in 1..N /\ ix[i].what = "entry" /\ ix[i].of = old
  BY <1>1 DEF Hits, EntryLines
<1>4. \A i \in 1..N : ix[i].what = "entry" /\ ix[i].of = old => i \in Hits(ix, old)
  BY <1>1 DEF Hits, EntryLines
<1> HIDE DEF N, w
<1>5. \A i \in Hits(ix, old) :
        w[i] = Entry(new, ix[i].kw) /\ w[i] \in Line /\ w[i].of = new /\ w[i].kw = ix[i].kw
  BY <1>1, <1>2, <1>3, LineTypes
<1>6. \A i \in 1..N : i \notin Hits(ix, old) => w[i] = ix[i]
  BY <1>2
<1>7. \A i \in 1..N : w[i] \in Line
  BY <1>1, <1>5, <1>6
<1>8. w \in Seq(Line)
  BY <1>1, <1>2a, <1>7
<1>9. \A l \in Range(ix) : l.of # old => l \in Range(w)
  BY <1>1, <1>2, <1>3, <1>6 DEF Range
<1>10. ASSUME NEW l \in Range(w), l.what = "entry"
       PROVE  \E m \in Range(ix) : /\ m.what = "entry" /\ m.kw = l.kw
                                   /\ l.of = IF m.of = old THEN new ELSE m.of
  <2>1. PICK i \in 1..N : w[i] = l
    BY <1>2 DEF Range
  <2>2. ix[i] \in Range(ix)
    BY <1>1 DEF Range
  <2>3. CASE i \in Hits(ix, old)
    BY <1>3, <1>5, <2>1, <2>2, <2>3
  <2>4. CASE i \notin Hits(ix, old)
    BY <1>4, <1>6, <1>10, <2>1, <2>2, <2>4
  <2>. QED
    BY <2>3, <2>4
<1>. QED
  BY <1>8, <1>9, <1>10 DEF Moved, w

-----------------------------------------------------------------------------
\* CallState that overlap

\* What a call is about to write is what it read, less the files that it names,
\* and more; and unless another call's write came between, the index still is
\* what it read.
Prepared(c) ==
  call[c].pc \in {"decided", "counted"} =>
    /\ IsInjective(call[c].named) =>
         Registered(call[c].old) \ Range(call[c].named) \subseteq Registered(call[c].new)
    /\ c \notin met => index = call[c].old

Stage == {"new", "decided", "counted", "written", "worse", "done"}

CallState == [pc : Stage, old : Seq(Line), new : Seq(Line), named : Seq(KnowledgeFile),
          before : Nat]

IndexTyped == index \in Seq(Line) /\ met \subseteq Call /\ call \in [Call -> CallState]

IndexInvariant == IndexTyped /\ \A c \in Call : Prepared(c)

LEMMA CountIsNatural ==
  ASSUME NEW ix \in Seq(Line), NEW n \in Counts(ix)
  PROVE  n \in Nat
<1> DEFINE A == {i \in EntryLines(ix) : \E k \in {k \in EntryLines(ix) : k < i} : ix[k].kw = ix[i].kw}
           B == {i \in EntryLines(ix) : \E k \in {k \in EntryLines(ix) : k < i} : ix[k].of = ix[i].of}
<1>1. IsFiniteSet(1..Len(ix))
  BY FS_Interval
<1>2. A \subseteq 1..Len(ix) /\ B \subseteq 1..Len(ix)
  BY DEF EntryLines
<1>3. ErrorCount(ix) = Cardinality(A) + Cardinality(B)
  BY DEF ErrorCount
<1> HIDE DEF A, B
<1>4. Cardinality(A) \in Nat /\ Cardinality(B) \in Nat
  BY <1>1, <1>2, FS_Subset, FS_CardinalityType
<1>. QED
  BY <1>3, <1>4 DEF Counts, NoCount

LEMMA NothingIsCall == Nothing \in CallState
<1> DEFINE none == <<>>
<1>1. none \in Seq(Line) /\ none \in Seq(KnowledgeFile)
  OBVIOUS
<1>2. Nothing = [pc |-> "done", old |-> none, new |-> none, named |-> none, before |-> 99]
  BY DEF Nothing, NoCount
<1> HIDE DEF none
<1>. QED
  BY <1>1, <1>2 DEF CallState, Stage

LEMMA BatchIsSequence ==
  ASSUME NEW batch \in Batches
  PROVE  batch \in Seq(KnowledgeFile)
<1>1. PICK n \in 1..MaxBatch : batch \in [1..n -> KnowledgeFile]
  BY DEF Batches
<1>2. n \in Nat
  BY <1>1, IndexParameters DEF IndexAssumption
<1>. QED
  BY <1>1, <1>2

\* What a decision comes to: the text is one, and names what it takes away.
Edits(ix, lines, named) ==
  /\ lines \in Seq(Line) /\ named \in Seq(KnowledgeFile)
  /\ IsInjective(named) => Registered(ix) \ Range(named) \subseteq Registered(lines)
  /\ OneFileEach(ix) => OneFileEach(lines)

OneFileLines(R) ==
  \A k \in R, l \in R : k.what = "entry" /\ l.what = "entry" /\ k.kw = l.kw => k.of = l.of

LEMMA OneFileByLines ==
  ASSUME NEW ix \in Seq(Line)
  PROVE  OneFileEach(ix) <=> OneFileLines(Range(ix))
<1>1. \A i : i \in EntryLines(ix) <=> i \in DOMAIN ix /\ ix[i].what = "entry"
  BY DEF EntryLines
<1>2. \A l : l \in Range(ix) <=> \E i \in DOMAIN ix : l = ix[i]
  BY DEF Range
<1>3. ASSUME OneFileEach(ix)
      PROVE  OneFileLines(Range(ix))
  <2> SUFFICES ASSUME NEW k \in Range(ix), NEW l \in Range(ix),
                      k.what = "entry", l.what = "entry", k.kw = l.kw
               PROVE  k.of = l.of
    BY DEF OneFileLines
  <2>1. PICK i \in DOMAIN ix, j \in DOMAIN ix : k = ix[i] /\ l = ix[j]
    BY <1>2
  <2>2. i \in EntryLines(ix) /\ j \in EntryLines(ix) /\ ix[i].kw = ix[j].kw
    BY <1>1, <2>1
  <2>3. ix[i].of = ix[j].of
    BY <1>3, <2>2 DEF OneFileEach
  <2>. QED
    BY <2>1, <2>3
<1>4. ASSUME OneFileLines(Range(ix))
      PROVE  OneFileEach(ix)
  <2> SUFFICES ASSUME NEW i \in EntryLines(ix), NEW j \in EntryLines(ix), ix[i].kw = ix[j].kw
               PROVE  ix[i].of = ix[j].of
    BY DEF OneFileEach
  <2>1. ix[i] \in Range(ix) /\ ix[j] \in Range(ix) /\ ix[i].what = "entry" /\ ix[j].what = "entry"
    BY <1>1, <1>2
  <2>. QED
    BY <1>4, <2>1 DEF OneFileLines
<1>. QED
  BY <1>3, <1>4

LEMMA AddEdits ==
  ASSUME NEW ix \in Seq(Line), NEW batch \in Seq(KnowledgeFile),
         NEW kws \in [Drafts(ix, batch) -> Keyword], ~Conflict(ix, Drafts(ix, batch), kws)
  PROVE  Edits(ix, Added(ix, batch, kws), <<>>)
<1> DEFINE w == Added(ix, batch, kws)
           drafts == Drafts(ix, batch)
<1>1. Grown(w, ix, drafts, kws)
  BY AddedLines
<1>2. drafts \subseteq KnowledgeFile
  BY DEF Drafts, Range
<1>2a. \A f \in drafts : kws[f] \in Keyword /\ f \in KnowledgeFile
  BY <1>2
<1>2b. ~Conflict(ix, drafts, kws)
  OBVIOUS
<1> HIDE DEF w, drafts
<1>3. w \in Seq(Line) /\ Range(ix) \subseteq Range(w)
  BY <1>1 DEF Grown
<1>4. \A l \in Range(w) : l.what = "entry" =>
        l \in Range(ix) \/ \E f \in drafts : l.of = f /\ l.kw = kws[f]
  BY <1>1, <1>2a, LineTypes DEF Grown
<1>5. Registered(ix) \subseteq Registered(w)
  BY <1>3, EntriesAreLines
<1>6. \A f \in drafts : kws[f] \notin Keywords(ix) /\ \A g \in drafts : kws[f] = kws[g] => f = g
  BY <1>2b DEF Conflict
<1>7. \A l \in Range(ix) : l.what = "entry" => l.kw \in Keywords(ix)
  BY EntriesAreLines
<1>8. OneFileLines(Range(ix)) => OneFileLines(Range(w))
  BY <1>4, <1>6, <1>7 DEF OneFileLines
<1>9. <<>> \in Seq(KnowledgeFile)
  OBVIOUS
<1>. QED
  BY <1>3, <1>5, <1>8, <1>9, OneFileByLines DEF Edits, w

LEMMA RemoveEdits ==
  ASSUME NEW ix \in Seq(Line), NEW targets \in Seq(KnowledgeFile)
  PROVE  Edits(ix, Removed(ix, targets), targets)
<1> DEFINE w == Removed(ix, targets)
<1>1. /\ w \in Seq(Line) /\ Range(w) \subseteq Range(ix)
      /\ IsInjective(targets) =>
           \A l \in Range(ix) : l.of \notin Range(targets) => l \in Range(w)
  BY RemovedLines
<1> HIDE DEF w
<1>2. ASSUME IsInjective(targets), NEW f \in Registered(ix) \ Range(targets)
      PROVE  f \in Registered(w)
  <2>1. PICK l \in Range(ix) : l.what = "entry" /\ l.of = f
    BY EntriesAreLines
  <2>2. l \in Range(w)
    BY <1>1, <1>2, <2>1
  <2>. QED
    BY <1>1, <2>1, <2>2, EntriesAreLines
<1>3. OneFileLines(Range(ix)) => OneFileLines(Range(w))
  BY <1>1 DEF OneFileLines
<1>. QED
  BY <1>1, <1>2, <1>3, OneFileByLines DEF Edits, w

LEMMA RenameEdits ==
  ASSUME NEW ix \in Seq(Line), NEW old \in KnowledgeFile, NEW new \in KnowledgeFile
  PROVE  Edits(ix, Renamed(ix, old, new), <<old>>)
<1> DEFINE w == Renamed(ix, old, new)
           named == <<old>>
<1>1. Moved(w, ix, old, new)
  BY RenamedLines
<1> HIDE DEF w
<1>2. /\ w \in Seq(Line)
      /\ \A l \in Range(ix) : l.of # old => l \in Range(w)
      /\ \A l \in Range(w) : l.what = "entry" =>
           \E m \in Range(ix) : /\ m.what = "entry" /\ m.kw = l.kw
                                /\ l.of = IF m.of = old THEN new ELSE m.of
  BY <1>1 DEF Moved
<1>3. named \in Seq(KnowledgeFile) /\ Range(named) = {old}
  BY DEF Range
<1> HIDE DEF named
<1>4. ASSUME NEW f \in Registered(ix) \ Range(named)
      PROVE  f \in Registered(w)
  <2>1. PICK l \in Range(ix) : l.what = "entry" /\ l.of = f
    BY EntriesAreLines
  <2>2. l \in Range(w)
    BY <1>2, <1>3, <2>1
  <2>. QED
    BY <1>2, <2>1, <2>2, EntriesAreLines
<1>5. OneFileLines(Range(ix)) => OneFileLines(Range(w))
  <2> SUFFICES ASSUME OneFileLines(Range(ix)), NEW k \in Range(w), NEW l \in Range(w),
                      k.what = "entry", l.what = "entry", k.kw = l.kw
               PROVE  k.of = l.of
    BY DEF OneFileLines
  <2>1. PICK m \in Range(ix) : /\ m.what = "entry" /\ m.kw = k.kw
                               /\ k.of = IF m.of = old THEN new ELSE m.of
    BY <1>2
  <2>2. PICK n \in Range(ix) : /\ n.what = "entry" /\ n.kw = l.kw
                               /\ l.of = IF n.of = old THEN new ELSE n.of
    BY <1>2
  <2>3. m.of = n.of
    BY <2>1, <2>2 DEF OneFileLines
  <2>. QED
    BY <2>1, <2>2, <2>3
<1>. QED
  BY <1>2, <1>3, <1>4, <1>5, OneFileByLines DEF Edits, w, named

LEMMA Decisions ==
  ASSUME IndexTyped, NEW c \in Call, DecideAdd(c) \/ DecideRemove(c) \/ DecideRename(c)
  PROVE  \E lines, named : Edits(index, lines, named) /\ Decide(c, lines, named)
<1>1. index \in Seq(Line)
  BY DEF IndexTyped
<1>2. CASE DecideAdd(c)
  <2>1. PICK batch \in Batches : \E kws \in [Drafts(index, batch) -> Keyword] :
          /\ ~Conflict(index, Drafts(index, batch), kws)
          /\ Decide(c, Added(index, batch, kws), <<>>)
    BY <1>2, Zenon DEF DecideAdd
  <2>2. batch \in Seq(KnowledgeFile)
    BY BatchIsSequence
  <2>. QED
    BY <1>1, <2>1, <2>2, AddEdits
<1>3. CASE DecideRemove(c)
  <2>1. PICK targets \in Batches : Decide(c, Removed(index, targets), targets)
    BY <1>3 DEF DecideRemove
  <2>. QED
    BY <1>1, <2>1, BatchIsSequence, RemoveEdits
<1>4. CASE DecideRename(c)
  <2>1. PICK old \in KnowledgeFile, new \in KnowledgeFile :
          Decide(c, Renamed(index, old, new), <<old>>)
    BY <1>4 DEF DecideRename
  <2>. QED
    BY <1>1, <2>1, RenameEdits
<1>. QED
  BY <1>2, <1>3, <1>4

LEMMA IndexInvariantInit == IndexInit => IndexInvariant
<1> SUFFICES ASSUME IndexInit
             PROVE  IndexInvariant
  OBVIOUS
<1>1. Nothing \in CallState /\ [Nothing EXCEPT !.pc = "new"] \in CallState
  BY NothingIsCall DEF CallState, Stage
<1>2. IndexTyped
  BY <1>1, IndexParameters DEF IndexInit, IndexTyped, IndexAssumption
<1>3. \A c \in Call : call[c].pc = "new"
  BY DEF IndexInit, Nothing
<1>. QED
  BY <1>2, <1>3 DEF IndexInvariant, Prepared

\* The other calls stay as they are; and where one replaces the index, those
\* that are under way have been met.
LEMMA OthersPrepared ==
  ASSUME IndexInvariant, NEW c \in Call, NEW d \in Call, d # c, call'[d] = call[d],
         met \subseteq met', index' = index \/ Overlapped(c) \subseteq met'
  PROVE  Prepared(d)'
<1> SUFFICES ASSUME call[d].pc \in {"decided", "counted"}
             PROVE  /\ IsInjective(call[d].named) =>
                         Registered(call[d].old) \ Range(call[d].named)
                           \subseteq Registered(call[d].new)
                    /\ d \notin met' => index' = call[d].old
  BY DEF Prepared
<1>1. Prepared(d)
  BY DEF IndexInvariant
<1>2. d \in Overlapped(c)
  BY DEF Overlapped
<1>. QED
  BY <1>1, <1>2 DEF Prepared

LEMMA IndexInvariantStep == IndexInvariant /\ [IndexNext]_indexVars => IndexInvariant'
<1> SUFFICES ASSUME IndexInvariant, [IndexNext]_indexVars
             PROVE  IndexInvariant'
  OBVIOUS
<1>1. /\ index \in Seq(Line) /\ met \subseteq Call /\ call \in [Call -> CallState] /\ IndexTyped
      /\ \A c \in Call : Prepared(c)
  BY DEF IndexInvariant, IndexTyped
<1>2. CASE UNCHANGED indexVars
  BY <1>1, <1>2 DEF indexVars, IndexInvariant, IndexTyped, Prepared
<1>3. ASSUME NEW c \in Call, DecideAdd(c) \/ DecideRemove(c) \/ DecideRename(c)
      PROVE  IndexInvariant'
  <2>1. PICK lines, named : Edits(index, lines, named) /\ Decide(c, lines, named)
    BY <1>1, <1>3, Decisions
  <2> DEFINE r == [pc |-> "decided", old |-> index, new |-> lines,
                   named |-> named, before |-> NoCount]
  <2>2. call' = [call EXCEPT ![c] = r] /\ index' = index /\ met' = met
    BY <2>1 DEF Decide
  <2>3. r \in CallState /\ r.old = index /\ r.new = lines /\ r.named = named
    BY <1>1, <2>1 DEF Edits, CallState, Stage, NoCount
  <2> HIDE DEF r
  <2>4. call' \in [Call -> CallState] /\ call'[c] = r /\ \A d \in Call : d # c => call'[d] = call[d]
    BY <1>1, <2>2, <2>3
  <2>5. Prepared(c)'
    BY <2>1, <2>2, <2>3, <2>4 DEF Edits, Prepared
  <2>6. \A d \in Call : d # c => Prepared(d)'
    BY <2>2, <2>4, OthersPrepared
  <2>. QED
    BY <1>1, <2>2, <2>4, <2>5, <2>6 DEF IndexInvariant, IndexTyped
<1>4. ASSUME NEW c \in Call, CountBefore(c)
      PROVE  IndexInvariant'
  <2>1. PICK n \in Counts(call[c].old) :
          call' = [call EXCEPT ![c].pc = "counted", ![c].before = n]
    BY <1>4 DEF CountBefore
  <2>2. n \in Nat
    BY <1>1, CountIsNatural DEF CallState, Stage
  <2> DEFINE r == [call[c] EXCEPT !.pc = "counted", !.before = n]
  <2>3. call' = [call EXCEPT ![c] = r] /\ index' = index /\ met' = met
    BY <1>4, <2>1 DEF CountBefore
  <2>4. r \in CallState /\ r.old = call[c].old /\ r.new = call[c].new /\ r.named = call[c].named
    BY <1>1, <2>2 DEF CallState, Stage
  <2> HIDE DEF r
  <2>5. call' \in [Call -> CallState] /\ call'[c] = r /\ \A d \in Call : d # c => call'[d] = call[d]
    BY <1>1, <2>3, <2>4
  <2>6. Prepared(c)'
    BY <1>1, <1>4, <2>3, <2>4, <2>5 DEF Prepared, CountBefore
  <2>7. \A d \in Call : d # c => Prepared(d)'
    BY <2>3, <2>5, OthersPrepared
  <2>. QED
    BY <1>1, <2>3, <2>5, <2>6, <2>7 DEF IndexInvariant, IndexTyped
<1>5. ASSUME NEW c \in Call, WriteIndex(c) \/ RollBackIndex(c)
      PROVE  IndexInvariant'
  <2> DEFINE r == [call[c] EXCEPT !.pc = "written"]
  <2>1. r \in CallState /\ r.pc = "written" /\ Nothing \in CallState /\ Nothing.pc = "done"
    BY <1>1, NothingIsCall DEF CallState, Stage, Nothing
  <2>2. \E q \in {r, Nothing} : call' = [call EXCEPT ![c] = q]
    BY <1>5 DEF WriteIndex, RollBackIndex
  <2> HIDE DEF r
  <2>3. /\ call' \in [Call -> CallState] /\ call'[c].pc \in {"written", "done"}
        /\ \A d \in Call : d # c => call'[d] = call[d]
    BY <1>1, <2>1, <2>2
  <2>4. met' = met \cup Overlapped(c) /\ Overlapped(c) \subseteq Call
    BY <1>5 DEF WriteIndex, RollBackIndex, Overlapped
  <2>5. index' \in Seq(Line)
    BY <1>1, <1>5 DEF WriteIndex, RollBackIndex, CallState
  <2>6. Prepared(c)'
    BY <2>3 DEF Prepared
  <2>7. \A d \in Call : d # c => Prepared(d)'
    BY <2>3, <2>4, OthersPrepared
  <2>. QED
    BY <1>1, <2>3, <2>4, <2>5, <2>6, <2>7 DEF IndexInvariant, IndexTyped
<1>6. ASSUME NEW c \in Call, CountAfter(c)
      PROVE  IndexInvariant'
  <2> DEFINE r == [call[c] EXCEPT !.pc = "worse"]
  <2>1. r \in CallState /\ r.pc = "worse" /\ Nothing \in CallState /\ Nothing.pc = "done"
    BY <1>1, NothingIsCall DEF CallState, Stage, Nothing
  <2>2. \E q \in {r, Nothing} : call' = [call EXCEPT ![c] = q]
    BY <1>6 DEF CountAfter
  <2> HIDE DEF r
  <2>3. /\ call' \in [Call -> CallState] /\ call'[c].pc \in {"worse", "done"}
        /\ \A d \in Call : d # c => call'[d] = call[d]
    BY <1>1, <2>1, <2>2
  <2>4. index' = index /\ met' = met
    BY <1>6 DEF CountAfter
  <2>5. Prepared(c)'
    BY <2>3 DEF Prepared
  <2>6. \A d \in Call : d # c => Prepared(d)'
    BY <2>3, <2>4, OthersPrepared
  <2>. QED
    BY <1>1, <2>3, <2>4, <2>5, <2>6 DEF IndexInvariant, IndexTyped
<1>. QED
  BY <1>2, <1>3, <1>4, <1>5, <1>6 DEF IndexNext

\* What a call of add-knowledge is about to write, whatever the others do.
THEOREM IndexInvHolds == IndexSpec => []IndexInvariant
BY IndexInvariantInit, IndexInvariantStep, PTL DEF IndexSpec

\* add-knowledge, --remove and --rename in any number of calls at once, for
\* every index and every batch: a call that no other one's write or rollback
\* came between loses no entry but those that it names, if it names none twice.
THEOREM OthersAreKept == IndexSpec => OthersStay
<1>1. IndexSpec => []IndexInvariant
  BY IndexInvHolds
<1> DEFINE Kept == \A c \in Call :
             call[c].pc = "counted" /\ call'[c].pc = "written" /\ c \notin met
               /\ IsInjective(call[c].named) =>
               Registered(index) \ Range(call[c].named) \subseteq Registered(index')
<1>2. ASSUME IndexInvariant, [IndexNext]_indexVars
      PROVE  [Kept]_indexVars
  <2> SUFFICES ASSUME NEW c \in Call, call[c].pc = "counted", call'[c].pc = "written",
                      c \notin met, IsInjective(call[c].named)
               PROVE  Registered(index) \ Range(call[c].named) \subseteq Registered(index')
    OBVIOUS
  <2>1. call \in [Call -> CallState] /\ Prepared(c)
    BY <1>2 DEF IndexInvariant, IndexTyped
  <2>2. ~ UNCHANGED indexVars
    BY DEF indexVars
  <2>3. ASSUME NEW d \in Call, WriteIndex(d)
        PROVE  d = c /\ index' = call[c].new
    <3>1. d # c => call'[c] = call[c]
      BY <2>1, <2>3 DEF WriteIndex
    <3>. QED
      BY <2>3, <3>1 DEF WriteIndex
  <2>4. ASSUME NEW d \in Call, ~WriteIndex(d),
               \/ DecideAdd(d) \/ DecideRemove(d) \/ DecideRename(d)
               \/ CountBefore(d) \/ CountAfter(d) \/ RollBackIndex(d)
        PROVE  FALSE
    <3>1. \E q : call' = [call EXCEPT ![d] = q] /\ q.pc # "written"
      <4>1. CASE DecideAdd(d) \/ DecideRemove(d) \/ DecideRename(d)
        BY <1>2, <4>1, Decisions DEF Decide, IndexInvariant
      <4>2. CASE CountBefore(d)
        BY <2>1, <4>2 DEF CountBefore, CallState, Stage
      <4>3. CASE CountAfter(d)
        BY <2>1, <4>3 DEF CountAfter, Nothing, CallState, Stage
      <4>4. CASE RollBackIndex(d)
        BY <4>4 DEF RollBackIndex, Nothing
      <4>. QED
        BY <2>4, <4>1, <4>2, <4>3, <4>4
    <3>. QED
      BY <2>1, <3>1
  <2>5. index' = call[c].new
    BY <1>2, <2>2, <2>3, <2>4 DEF IndexNext
  <2>. QED
    BY <2>1, <2>5 DEF Prepared
<1>3. OthersStay <=> [][Kept]_indexVars
  BY DEF OthersStay
<1>. QED
  BY <1>1, <1>2, <1>3, PTL DEF IndexSpec

-----------------------------------------------------------------------------
\* What a keyword leads to

OneFileInvariant ==
  /\ OneFileEach(index)
  /\ \A c \in Call : OneFileEach(call[c].old) /\ OneFileEach(call[c].new)

LEMMA OneFileStep ==
  IndexInvariant /\ OneFileInvariant /\ [IndexNext]_indexVars => OneFileInvariant'
<1> SUFFICES ASSUME IndexInvariant, OneFileInvariant, [IndexNext]_indexVars
             PROVE  OneFileInvariant'
  OBVIOUS
<1>1. call \in [Call -> CallState] /\ IndexTyped
  BY DEF IndexInvariant, IndexTyped
<1>2. OneFileEach(Nothing.old) /\ OneFileEach(Nothing.new)
  BY DEF Nothing, OneFileEach, EntryLines
<1>3. CASE UNCHANGED indexVars
  BY <1>3 DEF indexVars, OneFileInvariant
<1>4. ASSUME NEW c \in Call, DecideAdd(c) \/ DecideRemove(c) \/ DecideRename(c)
      PROVE  OneFileInvariant'
  <2>1. PICK lines, named : Edits(index, lines, named) /\ Decide(c, lines, named)
    BY <1>1, <1>4, Decisions
  <2>2. OneFileEach(lines)
    BY <2>1 DEF Edits, OneFileInvariant
  <2>3. \A d \in Call : IF d = c THEN call'[d].old = index /\ call'[d].new = lines
                                 ELSE call'[d] = call[d]
    BY <1>1, <2>1 DEF Decide
  <2>4. index' = index
    BY <2>1 DEF Decide
  <2>. QED
    BY <2>2, <2>3, <2>4 DEF OneFileInvariant
<1>5. ASSUME NEW c \in Call,
             CountBefore(c) \/ WriteIndex(c) \/ CountAfter(c) \/ RollBackIndex(c)
      PROVE  OneFileInvariant'
  <2>1. index' \in {index, call[c].new, call[c].old}
    BY <1>5 DEF CountBefore, WriteIndex, CountAfter, RollBackIndex
  <2>2. \A d \in Call : \/ call'[d] = Nothing
                        \/ call'[d].old = call[d].old /\ call'[d].new = call[d].new
    <3>1. CASE CountBefore(c)
      BY <1>1, <3>1 DEF CountBefore, CallState, Stage
    <3>2. CASE WriteIndex(c)
      BY <1>1, <3>2 DEF WriteIndex, CallState
    <3>3. CASE CountAfter(c)
      <4> DEFINE r == [call[c] EXCEPT !.pc = "worse"]
      <4>1. r.old = call[c].old /\ r.new = call[c].new
        BY <1>1 DEF CallState
      <4>2. \E q \in {r, Nothing} : call' = [call EXCEPT ![c] = q]
        BY <3>3 DEF CountAfter
      <4> HIDE DEF r
      <4>. QED
        BY <1>1, <4>1, <4>2
    <3>4. CASE RollBackIndex(c)
      BY <1>1, <3>4 DEF RollBackIndex
    <3>. QED
      BY <1>5, <3>1, <3>2, <3>3, <3>4
  <2>3. OneFileEach(index')
    BY <2>1 DEF OneFileInvariant
  <2>4. ASSUME NEW d \in Call
        PROVE  OneFileEach(call'[d].old) /\ OneFileEach(call'[d].new)
    BY <1>2, <2>2 DEF OneFileInvariant
  <2>. QED
    BY <2>3, <2>4 DEF OneFileInvariant
<1>. QED
  BY <1>3, <1>4, <1>5 DEF IndexNext

\* Whatever calls overlap, and whether they write or take their text back: no
\* keyword of the index leads to two files, if none does at first.
THEOREM KeywordsLeadToOneFile ==
  ASSUME OneFileEach(InitialIndex)
  PROVE  IndexSpec => []KeywordNamesOneFile
<1>1. IndexInit => OneFileInvariant
  <2>1. OneFileEach(<<>>)
    BY DEF OneFileEach, EntryLines
  <2>. QED
    BY <2>1 DEF IndexInit, Nothing, OneFileInvariant
<1>2. IndexSpec => []IndexInvariant
  BY IndexInvHolds
<1>3. IndexSpec => []OneFileInvariant
  BY <1>1, <1>2, OneFileStep, PTL DEF IndexSpec
<1>4. OneFileInvariant => KeywordNamesOneFile
  BY DEF OneFileInvariant, KeywordNamesOneFile
<1>. QED
  BY <1>3, <1>4, PTL
=============================================================================
