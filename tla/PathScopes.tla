----------------------------- MODULE PathScopes ------------------------------
(***************************************************************************)
(* The scopes in which tasks.md declares files (change_docs.py), as        *)
(* sequences of path segments: path_matches_scope, which decides whether a *)
(* changed file is declared, scopes_overlap and overlapping_scope_label,   *)
(* which decide whether two changes conflict, and detect_file_conflicts,   *)
(* which grades the conflict.  cc-deps and cc-spec-scope-check share them; *)
(* cc-wave-plan compares the declared texts instead (WavePlan).  The       *)
(* segments * ? [ ] are the one wildcard "*" here; a scope that ends in /  *)
(* is one that ends in **.                                                 *)
(***************************************************************************)
EXTENDS Naturals, Sequences

CONSTANTS
  Name,       \* names of files and directories
  MaxSegments \* bound: length of a scope; a path may be one longer

ScopesAssumption == MaxSegments \in Nat /\ {"*", "**"} \cap Name = {} /\ Name # {}

ASSUME ScopesParameters == ScopesAssumption

Sequences(S, n) == UNION {[1..k -> S] : k \in 1..n}
FilePath == Sequences(Name, MaxSegments + 1)
Scope == Sequences(Name \cup {"*", "**"}, MaxSegments)

VARIABLES
  first, second,          \* the scopes of two changes
  declaration             \* what else the two say of each other

scopeVars == <<first, second, declaration>>

-----------------------------------------------------------------------------
\* _match_path_parts.  Which calls match(i, k) are TRUE - the path from i on
\* matches the scope from k on - if those that they make are the ones in
\* before: i \in before[k].  A call that goes deep enough to return knows all.
Match(path, scope, before) ==
  [k \in 0..Len(scope) |->
     {i \in 0..Len(path) :
        IF k = Len(scope) THEN i = Len(path)
        ELSE IF scope[k + 1] = "**"
             THEN i \in before[k + 1] \/ (i < Len(path) /\ i + 1 \in before[k])
        ELSE /\ i < Len(path) /\ scope[k + 1] \in {"*", path[i + 1]}
             /\ i + 1 \in before[k + 1]}]
Matching(path, scope) ==
  LET match[depth \in Nat] == IF depth = 0 THEN [k \in 0..Len(scope) |-> {}]
                              ELSE Match(path, scope, match[depth - 1])
  IN match
Matches(path, scope) == 0 \in Matching(path, scope)[Len(path) + Len(scope) + 1][0]

Concrete(scope) == \A k \in DOMAIN scope : scope[k] \in Name

\* _recursive_prefix
HasPrefix(scope) == scope[Len(scope)] = "**" /\ Concrete(SubSeq(scope, 1, Len(scope) - 1))
PrefixOf(scope) == SubSeq(scope, 1, Len(scope) - 1)

Start(scope, n) == SubSeq(scope, 1, IF n < Len(scope) THEN n ELSE Len(scope))
Shorter(s, t) == IF Len(s) < Len(t) THEN Len(s) ELSE Len(t)

\* scopes_overlap
PrefixesOverlapSlip(s, t) ==
  IF HasPrefix(s) /\ HasPrefix(t) THEN PrefixOf(s) = PrefixOf(t)
  ELSE \/ HasPrefix(s) /\ Start(t, Len(PrefixOf(s))) = PrefixOf(s)
       \/ HasPrefix(t) /\ Start(s, Len(PrefixOf(t))) = PrefixOf(t)
PrefixesOverlap(s, t) ==
  IF HasPrefix(s) /\ HasPrefix(t)
  THEN LET n == Shorter(PrefixOf(s), PrefixOf(t)) IN
       Start(PrefixOf(s), n) = Start(PrefixOf(t), n)
  ELSE \/ HasPrefix(s) /\ Start(t, Len(PrefixOf(s))) = PrefixOf(s)
       \/ HasPrefix(t) /\ Start(s, Len(PrefixOf(t))) = PrefixOf(t)

ScopesOverlap(s, t) ==
  IF s = t THEN TRUE
  ELSE IF Concrete(s) THEN Matches(s, t)
  ELSE IF Concrete(t) THEN Matches(t, s)
  ELSE PrefixesOverlap(s, t)

\* overlapping_scope_label: the narrower one, or both
Label(s, t) ==
  IF Concrete(s) /\ Matches(s, t) THEN {s}
  ELSE IF Concrete(t) /\ Matches(t, s) THEN {t}
  ELSE IF HasPrefix(s) /\ HasPrefix(t)
       THEN IF Len(PrefixOf(s)) >= Len(PrefixOf(t)) THEN {s} ELSE {t}
  ELSE {s, t}

\* detect_file_conflicts of two changes, one scope each
Severity(s, t, d) ==
  IF d.done \/ ~ScopesOverlap(s, t) THEN "none"
  ELSE IF d.parallelSafe /\ d.dependent THEN "warning"
  ELSE "conflict"

-----------------------------------------------------------------------------
Declaration == [done : BOOLEAN, parallelSafe : BOOLEAN, dependent : BOOLEAN]

ScopesInit ==
  /\ first \in Scope /\ second \in Scope
  /\ declaration \in Declaration

\* tasks.md of one change declares another scope.
Redeclare ==
  /\ declaration.done = FALSE
  /\ second' \in Scope
  /\ UNCHANGED <<first, declaration>>

ScopesNext == Redeclare

ScopesSpec == ScopesInit /\ [][ScopesNext]_scopeVars

-----------------------------------------------------------------------------
\* Properties

Common(s, t) == {path \in FilePath : Matches(path, s) /\ Matches(path, t)}

\* A file name, or a directory with all that is under it
Plain(s) == Concrete(s) \/ HasPrefix(s)

\* Scopes overlap only if there is a file in both - no speculative conflict -
\* and for files and directories exactly then; the scope that the report shows
\* holds all that they share; and the order in which the two are compared does
\* not matter.
OverlapIsExact ==
  LET common == Common(first, second) IN
  /\ ScopesOverlap(first, second) => common # {}
  /\ Plain(first) /\ Plain(second) /\ common # {} => ScopesOverlap(first, second)
  /\ ScopesOverlap(first, second) =>
       \A path \in common : \E s \in Label(first, second) : Matches(path, s)
  /\ Severity(first, second, declaration) = Severity(second, first, declaration)
=============================================================================
