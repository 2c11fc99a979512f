--------------------------- MODULE KnowledgeIndex ---------------------------
(***************************************************************************)
(* cc-cairn add-knowledge: register, remove and rename entries of          *)
(* .cairness/knowledge/index.md.  A call reads the index, edits the lines  *)
(* it read, has cc-index-check count the errors before, replaces the file, *)
(* has them counted again, and writes the old text back if there are more. *)
(* Two calls may overlap, and each check is a subprocess of seconds.       *)
(*                                                                         *)
(* The index is the sequence of its lines: headings of categories, rules   *)
(* and entries.  Blank lines, comments and descriptions are left out: with *)
(* the blank line that add-knowledge puts between entries, deleting a line *)
(* again deletes the next that is not blank.  The call without --apply     *)
(* changes nothing.                                                        *)
(***************************************************************************)
EXTENDS Naturals, SequencesExt

CONSTANTS
  Call,          \* calls of add-knowledge --apply
  KnowledgeFile, \* <<category, name>> of the files under .cairness/knowledge
  Keyword,       \* keywords of entries
  InitialIndex,  \* the lines at first
  MaxBatch       \* bound: files that one call names

VARIABLES
  index,  \* the lines of index.md
  call,   \* per call: where it is and what it has decided
  met     \* the calls that another one's writes overlapped

indexVars == <<index, call, met>>

Category == {f[1] : f \in KnowledgeFile}
Heading(c) == [what |-> "heading", of |-> <<c, "">>, kw |-> ""]
Rule == [what |-> "rule", of |-> <<"", "">>, kw |-> ""]
Entry(f, k) == [what |-> "entry", of |-> f, kw |-> k]
Line == {Heading(c) : c \in Category} \cup {Rule}
        \cup {Entry(f, k) : f \in KnowledgeFile, k \in Keyword}

IndexAssumption == InitialIndex \in Seq(Line) /\ MaxBatch \in Nat

ASSUME IndexParameters == IndexAssumption

NoCount == 99   \* _count_index_errors returns None

Nothing == [pc |-> "done", old |-> <<>>, new |-> <<>>, named |-> <<>>,
            before |-> NoCount]

IndexInit ==
  /\ index = InitialIndex
  /\ call = [c \in Call |-> [Nothing EXCEPT !.pc = "new"]]
  /\ met = {}

-----------------------------------------------------------------------------
\* What is in an index

EntryLines(ix) == {i \in DOMAIN ix : ix[i].what = "entry"}
Registered(ix) == {ix[i].of : i \in EntryLines(ix)}
Keywords(ix) == {ix[i].kw : i \in EntryLines(ix)}
Hits(ix, f) == {i \in EntryLines(ix) : ix[i].of = f}

\* No keyword leads to two files
OneFileEach(ix) ==
  \A i \in EntryLines(ix), k \in EntryLines(ix) : ix[i].kw = ix[k].kw => ix[i].of = ix[k].of

\* The errors of cc-index-check: an entry whose keyword or path an earlier
\* one has.  All files exist.
ErrorCount(ix) ==
  LET earlier(i) == {k \in EntryLines(ix) : k < i}
  IN Cardinality({i \in EntryLines(ix) : \E k \in earlier(i) : ix[k].kw = ix[i].kw})
     + Cardinality({i \in EntryLines(ix) : \E k \in earlier(i) : ix[k].of = ix[i].of})

\* _find_section_insert_point: after the last line of the category's first
\* section, which ends at the next heading or rule; 0 if it has none.
SectionOf(ix, cat) == {i \in DOMAIN ix : ix[i] = Heading(cat)}
InsertPoint(ix, cat) ==
  IF SectionOf(ix, cat) = {} THEN 0
  ELSE LET start == Min(SectionOf(ix, cat))
           ends == {i \in DOMAIN ix : i > start /\ ix[i].what # "entry"}
       IN IF ends = {} THEN Len(ix) + 1 ELSE Min(ends)

\* _insert_entry and _append_new_section
Register(ix, f, k) ==
  LET at == InsertPoint(ix, f[1])
  IN IF at = 0 THEN ix \o <<Rule, Heading(f[1]), Entry(f, k)>>
               ELSE InsertAt(ix, at, Entry(f, k))

-----------------------------------------------------------------------------
\* The three edits: what a call makes of the lines it read.

\* The drafts of a batch: its files that are not registered yet.  The keyword is
\* the file's first heading, or the one given.
Drafts(ix, batch) == Range(batch) \ Registered(ix)

\* A keyword of the index, or of another file of the batch
Conflict(ix, drafts, kws) ==
  \E f \in drafts : \/ kws[f] \in Keywords(ix)
                    \/ \E g \in drafts : f # g /\ kws[f] = kws[g]

Added(ix, batch, kws) ==
  LET lines[n \in 0..Len(batch)] ==
        IF n = 0 THEN ix
        ELSE IF batch[n] \in Registered(ix) THEN lines[n-1]
        ELSE Register(lines[n-1], batch[n], kws[batch[n]])
  IN lines[Len(batch)]

\* The line at p is deleted once for every time that its file is named, and
\* each time what follows moves up.
Times(ix, targets, p) == Cardinality({j \in DOMAIN targets : p \in Hits(ix, targets[j])})
Without(lines, p, times) ==
  IF p \in DOMAIN lines
  THEN SubSeq(lines, 1, p - 1) \o SubSeq(lines, p + times, Len(lines))
  ELSE lines

RemovedSlip(ix, targets) ==
  LET lines[n \in 0..Len(ix)] ==
        IF n = 0 THEN ix ELSE Without(lines[n-1], n, Times(ix, targets, n))
  IN lines[Len(ix)]

\* _handle_remove deletes from the last to the first, so that no deletion
\* moves a line that is still to go.
Removed(ix, targets) ==
  LET lines[n \in 0..Len(ix)] ==
        IF n = 0 THEN ix
        ELSE LET p == Len(ix) + 1 - n IN Without(lines[n-1], p, Times(ix, targets, p))
  IN lines[Len(ix)]

\* _handle_rename: the one entry of the old path; it stays in its section.
Renamable(ix, old, new) ==
  /\ Cardinality(Hits(ix, old)) = 1
  /\ new # old => new \notin Registered(ix)
Renamed(ix, old, new) ==
  [i \in DOMAIN ix |-> IF i \in Hits(ix, old) THEN [ix[i] EXCEPT !.of = new] ELSE ix[i]]

-----------------------------------------------------------------------------
Batches == UNION {[1..n -> KnowledgeFile] : n \in 1..MaxBatch}

\* by_subdir: the files of one category are registered one after the other.
Grouped(batch) ==
  \A i \in DOMAIN batch, k \in DOMAIN batch : \A j \in i..k :
    batch[i][1] = batch[k][1] => batch[j][1] = batch[i][1]

Decide(c, lines, named) ==
  /\ call[c].pc = "new"
  /\ call' = [call EXCEPT ![c] = [pc |-> "decided", old |-> index, new |-> lines,
                                  named |-> named, before |-> NoCount]]
  /\ UNCHANGED <<index, met>>

DecideAdd(c) ==
  \E batch \in {b \in Batches : Grouped(b)} :
    LET drafts == Drafts(index, batch) IN
      /\ drafts # {}
      /\ \E kws \in [drafts -> Keyword] :
           /\ ~Conflict(index, drafts, kws)
           /\ Decide(c, Added(index, batch, kws), <<>>)

DecideRemove(c) ==
  \E targets \in Batches :
    /\ Range(targets) \cap Registered(index) # {}
    /\ Decide(c, Removed(index, targets), targets)

DecideRename(c) ==
  \E old \in KnowledgeFile, new \in KnowledgeFile :
    /\ Renamable(index, old, new)
    /\ Decide(c, Renamed(index, old, new), <<old>>)

\* _commit_index_text.  The checker may not be there, or not answer; and
\* since the copy of the project that it gets has no framework in it, the
\* one that ships refuses to count.
Counts(ix) == {NoCount, ErrorCount(ix)}

CountBefore(c) ==
  /\ call[c].pc = "decided"
  /\ \E n \in Counts(call[c].old) :
       call' = [call EXCEPT ![c].pc = "counted", ![c].before = n]
  /\ UNCHANGED <<index, met>>

\* Other calls that are under way hold an older copy now.
Overlapped(c) == {d \in Call \ {c} : call[d].pc \notin {"new", "done"}}

WriteIndex(c) ==
  /\ call[c].pc = "counted"
  /\ index' = call[c].new
  /\ call' = [call EXCEPT ![c].pc = "written"]
  /\ met' = met \cup Overlapped(c)

CountAfter(c) ==
  /\ call[c].pc = "written"
  /\ \E n \in Counts(call[c].new) :
       IF NoCount \notin {n, call[c].before} /\ n > call[c].before
       THEN call' = [call EXCEPT ![c].pc = "worse"]
       ELSE call' = [call EXCEPT ![c] = Nothing]
  /\ UNCHANGED <<index, met>>

RollBackIndex(c) ==
  /\ call[c].pc = "worse"
  /\ index' = call[c].old
  /\ call' = [call EXCEPT ![c] = Nothing]
  /\ met' = met \cup Overlapped(c)

IndexNext ==
  \/ \E c \in Call :
       \/ DecideAdd(c) \/ DecideRemove(c) \/ DecideRename(c)
       \/ CountBefore(c) \/ WriteIndex(c) \/ CountAfter(c) \/ RollBackIndex(c)

IndexSpec == IndexInit /\ [][IndexNext]_indexVars

-----------------------------------------------------------------------------
\* Properties

IndexTypeOK ==
  /\ index \in Seq(Line)
  /\ met \subseteq Call
  /\ \A c \in Call : call[c].old \in Seq(Line) /\ call[c].new \in Seq(Line)

\* A keyword never leads to two files if none does at first, whatever calls
\* overlap: the conflict
\* check of cmd_add_knowledge covers the index and the batch, and every text
\* that is written was made from one text.
KeywordNamesOneFile == OneFileEach(index)

\* A call that no other one overlaps loses no entry but those it names -
\* provided that it names none twice: for --remove a.md a.md the line is
\* deleted twice, the second time it is the next one.
OthersStay ==
  [][\A c \in Call :
       call[c].pc = "counted" /\ call'[c].pc = "written" /\ c \notin met
         /\ IsInjective(call[c].named) =>
         Registered(index) \ Range(call[c].named) \subseteq Registered(index')]_indexVars

\* The same without the proviso, which is what _handle_remove says of itself
RemovesOnlyNamed ==
  [][\A c \in Call :
       call[c].pc = "counted" /\ call'[c].pc = "written" /\ c \notin met =>
         Registered(index) \ Range(call[c].named) \subseteq Registered(index')]_indexVars
=============================================================================
