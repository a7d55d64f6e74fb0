------------------------------ MODULE LogLoops ------------------------------
(***************************************************************************)
(* The loops of HandleAppendEntries, one recursion per loop, over every    *)
(* log that the operations of RaftLog can build.  RaftLog states what the  *)
(* loops compute in closed form; here both are compared.                   *)
(***************************************************************************)
EXTENDS RaftLog

CONSTANT MaxReopens     \* bound on restarts that reopen the log

ASSUME LogLoopsAssumption == MaxReopens \in Nat

VARIABLES rl, reopens

\* One round of the loop of rules 3 and 4: existing is read once, before the
\* truncation.
Round(log, i, e) ==
    LET existing  == TermAt(log, i)
        truncated == IF existing \notin {0, e.term} THEN TruncateFrom(log, i) ELSE log
    IN  IF existing = 0 THEN AppendEntry(truncated, i, e) ELSE truncated

RECURSIVE AppendLoop(_, _, _)
AppendLoop(log, prev, es) ==
    IF es = <<>> THEN log
    ELSE AppendLoop(Round(log, prev + 1, Head(es)), prev + 1, Tail(es))

\* The scan back for the first index of the term at prevLogIndex.
RECURSIVE ConflictScan(_, _, _)
ConflictScan(log, i, term) ==
    IF i > log.snapshotIndex + 1 /\ TermAt(log, i - 1) = term
    THEN ConflictScan(log, i - 1, term)
    ELSE i

\* What an AppendEntries may carry: terms do not decrease along a log.
Suffixes(prev) ==
    {es \in UNION {[1 .. n -> Entry] : n \in 0 .. MaxIndex - prev} :
        \A i, j \in DOMAIN es : i < j => es[i].term <= es[j].term}

Init == rl = EmptyLog /\ reopens = 0

\* HandleAppendEntries, becomeLeader and Propose all extend the log so.
Merge ==
    \E prev \in 0 .. LastIndex(rl) : \E es \in Suffixes(prev) :
        rl' = AppendLoop(rl, prev, es) /\ UNCHANGED reopens

\* takeSnapshot compacts up to an entry that was applied.
CompactAt ==
    \E i \in Slots(rl) : rl' = Compact(rl, i, TermAt(rl, i)) /\ UNCHANGED reopens

ReopenLog ==
    reopens < MaxReopens /\ reopens' = reopens + 1 /\ rl' = Reopen(rl)

Next == Merge \/ CompactAt \/ ReopenLog

Spec == Init /\ [][Next]_<<rl, reopens>>

\* For every log and every batch, the loop of HandleAppendEntries leaves what
\* MergeEntries says, so that Raft models the whole loop in one expression.
MergeIsLoop ==
    \A prev \in 0 .. LastIndex(rl) : \A es \in Suffixes(prev) :
        MergeEntries(rl, prev, es) = AppendLoop(rl, prev, es)

\* The conflict hint is the first index of its term, or the first after the
\* snapshot boundary, as FirstOfTerm says.
ScanFindsFirst ==
    \A i \in 1 .. LastIndex(rl) : ConflictScan(rl, i, TermAt(rl, i)) = FirstOfTerm(rl, i)

=============================================================================
