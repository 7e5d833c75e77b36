---------------------------- MODULE Conversation ----------------------------
(***************************************************************************)
(* What the server answers of a Claude session file, and how the client    *)
(* merges an answer into the messages it shows: buildDag and the siblings  *)
(* of packages/server/src/sessions/dag.ts, the assembly in                 *)
(* sessions/normalization.ts, mergeJSONLMessages of                        *)
(* packages/client/src/lib/mergeMessages.ts and orderByParentChain of      *)
(* packages/shared/src/dag.ts.                                             *)
(*                                                                         *)
(* A file is a sequence of lines, and a line is known by its position,     *)
(* which stands for its uuid.  A line has                                  *)
(*   parent   the line it continues (parentUuid), or None                  *)
(*   logical  of a compact boundary: logicalParentUuid, or None            *)
(*   kind     "text", "use", "result" or "boundary"                        *)
(*   tool     of a result: the line with its tool_use                      *)
(*   time     its timestamp                                                *)
(* Every operator takes the file and the set ms of its lines that were     *)
(* read, a part of the file when only later messages were asked for.       *)
(*                                                                         *)
(* Abstracted: content but for one tool block per message, lines without   *)
(* uuid, which all of this skips, the list of alternate branches, marks of *)
(* orphaned tools, and the guards against cycles of parents, which a file  *)
(* whose lines continue earlier ones has not.                              *)
(***************************************************************************)
EXTENDS Naturals, FiniteSets, Sequences, SequencesExt

None == 0
CONSTANT Elsewhere      \* stands for a message of another file

\* The lines of a set in the order of the file
Ascending(S) ==
    [i \in 1..Cardinality(S) |-> CHOOSE n \in S : Cardinality({m \in S : m < n}) = i - 1]

\* What a list has at certain places, in its order
AtPlaces(items, places) ==
    LET order == Ascending(places) IN [i \in DOMAIN order |-> items[order[i]]]

Conversational(line) == line.kind # "boundary"

-----------------------------------------------------------------------------
(* buildDag                                                                *)

ChildrenOf(file, ms, n) == {m \in ms : file[m].parent = n}
Tips(file, ms) == {n \in ms : ChildrenOf(file, ms, n) = {}}

\* The last line before n that was not visited
FallbackParent(ms, n, visited) ==
    LET before == {m \in ms \ visited : m < n}
    IN  IF before = {} THEN None ELSE CHOOSE m \in before : \A k \in before : k <= m

NextUuid(line) == IF line.parent # None THEN line.parent ELSE line.logical

\* Where the walk that measures a branch goes on, and the walk that collects it
NextMeasured(file, ms, n, visited) ==
    LET next == NextUuid(file[n])
    IN  IF next \notin ms \cup {None} /\ file[n].logical # None
        THEN FallbackParent(ms, n, visited)
        ELSE next

NextCollected(file, ms, n, visited) ==
    LET next == NextUuid(file[n])
    IN  IF next \notin ms /\ file[n].logical \notin ms \cup {None}
        THEN FallbackParent(ms, n, visited)
        ELSE next

\* A walk goes up line by line, and ends where no line is or a line would come again
Further(ms, path, next) == IF next \in ms \ ToSet(path) THEN <<next>> \o path ELSE path

MeasureStep(file, ms, path) ==
    Further(ms, path, NextMeasured(file, ms, Head(path), ToSet(path)))
CollectStep(file, ms, path) ==
    Further(ms, path, NextCollected(file, ms, Head(path), ToSet(path)))

Measured(file, ms, tip) ==
    LET walk[k \in 0..Len(file)] ==
            IF k = 0 THEN <<tip>> ELSE MeasureStep(file, ms, walk[k - 1])
    IN  walk[Len(file)]
Collected(file, ms, tip) ==
    LET walk[k \in 0..Len(file)] ==
            IF k = 0 THEN <<tip>> ELSE CollectStep(file, ms, walk[k - 1])
    IN  walk[Len(file)]

BranchLength(file, ms, tip) ==
    Cardinality({n \in ToSet(Measured(file, ms, tip)) : Conversational(file[n])})

\* The latest tip; of several the one of the longest branch, then the last line
ActiveTip(file, ms) ==
    LET length(t) == BranchLength(file, ms, t)
    IN  CHOOSE t \in Tips(file, ms) : \A u \in Tips(file, ms) \ {t} :
            \/ file[t].time > file[u].time
            \/ /\ file[t].time = file[u].time
               /\ \/ length(t) > length(u)
                  \/ length(t) = length(u) /\ t > u

ActiveBranch(file, ms) ==
    IF ms = {} THEN <<>> ELSE Collected(file, ms, ActiveTip(file, ms))

-----------------------------------------------------------------------------
(* Results and tool calls beside the active branch                         *)

Results(file, ms) == {n \in ms : file[n].kind = "result"}

\* broken: no results beside the active branch
NoSiblingResults(file, ms, active) == {}

\* Results of tools of the active branch that are not on it themselves
SiblingResults(file, ms, active) ==
    {n \in Results(file, ms) \ active : file[n].tool \in active}

\* What hangs below a line, itself included
Subtree(file, ms, top) ==
    LET below[n \in DOMAIN file] ==
            n = top \/ (file[n].parent \in ms /\ below[file[n].parent])
    IN  {n \in ms : below[n]}

\* Branches that leave the active one at n and hold a tool call with a result
SiblingBranches(file, ms, active, n) ==
    LET completed == {file[r].tool : r \in Results(file, ms)}
        starts == {s \in ChildrenOf(file, ms, n) \ active :
                     Subtree(file, ms, s) \cap completed # {}}
    IN  FlattenSeq([i \in 1..Cardinality(starts) |->
            Ascending(Subtree(file, ms, Ascending(starts)[i]))])

\* normalizeSession: the active branch, after each line what hangs beside it
Normalized(file, ms) ==
    LET branch  == ActiveBranch(file, ms)
        active  == ToSet(branch)
        results == SiblingResults(file, ms, active)
    IN  FlattenSeq([i \in 1..Len(branch) |->
            <<branch[i]>>
            \o Ascending({r \in results : file[r].parent = branch[i]})
            \o SiblingBranches(file, ms, active, branch[i])])

-----------------------------------------------------------------------------
(* The client                                                              *)

\* Each message at the place where it occurs first
FirstOnly(items) ==
    AtPlaces(items, {i \in DOMAIN items : \A j \in 1..(i - 1) : items[j] # items[i]})

\* needsReorder
NeedsReorder(file, items) ==
    \E i \in DOMAIN items :
        /\ file[items[i]].parent # None
        /\ \A j \in 1..(i - 1) : items[j] # file[items[i]].parent

\* What the roots lead to, each message before those that continue it
Reached(file, items) ==
    LET below[p \in 0..Len(file)] ==
            LET children == AtPlaces(items, {i \in DOMAIN items : file[items[i]].parent = p})
            IN  FlattenSeq([i \in DOMAIN children |-> <<children[i]>> \o below[children[i]]])
    IN  below[None]

\* broken: what no root leads to is dropped
DropsUnvisited(file, items) ==
    IF NeedsReorder(file, items) THEN Reached(file, items) ELSE items

\* orderByParentChain: what the roots lead to, then the rest in its order
OrderByParentChain(file, items) ==
    LET reached == Reached(file, items)
        visited == ToSet(reached)
    IN  IF NeedsReorder(file, items)
        THEN reached \o AtPlaces(items, {i \in DOMAIN items : items[i] \notin visited})
        ELSE items

\* mergeJSONLMessages, of a provider whose sessions branch
MergeJSONL(file, view, incoming) ==
    OrderByParentChain(file, FirstOnly(view \o incoming))
=============================================================================
