------------------------------ MODULE RaftLog ------------------------------
(***************************************************************************)
(* The replicated log of one node (internal/consensus/log.go).            *)
(*                                                                         *)
(* A log value has two parts.  The BoltDB file holds the bucket of entries *)
(* and the snapshot boundary that Compact writes; RaftLog.snapshotIndex    *)
(* and RaftLog.snapshotTerm are fields of the Go struct, set only when the *)
(* file is opened.  An entry's key is its index, so an entry is modelled   *)
(* by its term and its command, and NoEntry marks an index the bucket does *)
(* not have.                                                               *)
(***************************************************************************)
EXTENDS Integers, Sequences, FiniteSetsExt

CONSTANTS
    MaxTerm,    \* bound on terms
    MaxIndex,   \* bound on log indexes
    Client,     \* client requests, each with the one command it proposes
    Noop,       \* the command of the entry a new leader appends
    NoEntry     \* the bucket has no entry at this index

ASSUME RaftLogAssumption ==
    /\ MaxTerm \in Nat
    /\ MaxIndex \in Nat \ {0}
    /\ Noop \notin Client
    /\ NoEntry \notin [term : 1 .. MaxTerm, cmd : Client \cup {Noop}]

Term  == 0 .. MaxTerm
Index == 1 .. MaxIndex
Entry == [term : 1 .. MaxTerm, cmd : Client \cup {Noop}]

\* The snapshot boundary, as stored under the "snapshot" key.
Boundary == [index : 0 .. MaxIndex, term : Term]

Log == [entries       : [Index -> Entry \cup {NoEntry}],
        saved         : Boundary,
        snapshotIndex : 0 .. MaxIndex,
        snapshotTerm  : Term]

EmptyLog == [entries       |-> [i \in Index |-> NoEntry],
             saved         |-> [index |-> 0, term |-> 0],
             snapshotIndex |-> 0,
             snapshotTerm  |-> 0]

\* newRaftLog on an existing file: the fields come from the saved boundary.
Reopen(rl) == [rl EXCEPT !.snapshotIndex = rl.saved.index,
                         !.snapshotTerm  = rl.saved.term]

Has(rl, i) == i \in Index /\ rl.entries[i] # NoEntry

Slots(rl) == {i \in Index : rl.entries[i] # NoEntry}

\* Append puts the entry under its index, whatever the log holds.
AppendEntry(rl, i, e) == [rl EXCEPT !.entries[i] = e]

\* The entries from .. to, up to the first one that is missing.
GetRange(rl, from, to) ==
    LET missing == {i \in from .. to : ~ Has(rl, i)}
        last    == IF missing = {} THEN to ELSE Min(missing) - 1
    IN  [k \in 1 .. (last - from + 1) |-> rl.entries[from + k - 1]]

\* TruncateFrom deletes the suffix.
TruncateFrom(rl, from) ==
    [rl EXCEPT !.entries = [i \in Index |-> IF i >= from THEN NoEntry ELSE @[i]]]

LastIndex(rl) == IF Slots(rl) = {} THEN rl.snapshotIndex ELSE Max(Slots(rl))

TermAt(rl, i) ==
    CASE i = 0                -> 0
      [] i = rl.snapshotIndex -> rl.snapshotTerm
      [] OTHER                -> IF Has(rl, i) THEN rl.entries[i].term ELSE 0

\* LastIndex is 0, the boundary, or an index whose entry is there.
LastTerm(rl) == TermAt(rl, LastIndex(rl))

\* Mutant of Compact: one entry too many goes.
CompactPast(rl, i, t) ==
    [rl EXCEPT !.entries = [j \in Index |-> IF j <= i + 1 THEN NoEntry ELSE @[j]],
               !.saved   = [index |-> i, term |-> t]]

\* Compact deletes the prefix and saves the boundary in the file.  It leaves
\* the fields snapshotIndex and snapshotTerm of the open log as they are.
Compact(rl, i, t) ==
    [rl EXCEPT !.entries = [j \in Index |-> IF j <= i THEN NoEntry ELSE @[j]],
               !.saved   = [index |-> i, term |-> t]]

-----------------------------------------------------------------------------
(* What HandleAppendEntries computes from the log. *)

\* Mutant of FirstOfTerm: the scan goes on below the snapshot boundary.
FirstOfTermBelow(rl, i) ==
    Min({k \in 1 .. i : \A j \in k .. i : TermAt(rl, j) = TermAt(rl, i)})

\* The first index of the run of equal terms that ends at i, not going below
\* the snapshot boundary.
FirstOfTerm(rl, i) ==
    Min({k \in 1 .. i : \/ k = i
                        \/ /\ k > rl.snapshotIndex
                           /\ \A j \in k .. i : TermAt(rl, j) = TermAt(rl, i)})

\* Rules 3 and 4, the loop over the entries es that follow index prev, in closed
\* form.  A slot is in conflict when it has an entry of another term.  The loop
\* truncates the log from the first such slot, and goes on with the slot after
\* it: it appends an entry only where it read no term, and it read the slot in
\* conflict before it truncated.
Conflicts(rl, prev, es) ==
    {i \in prev + 1 .. prev + Len(es) : TermAt(rl, i) \notin {0, es[i - prev].term}}

\* Mutant of MergeEntries: the entry in conflict is replaced.
MergeEntriesReplacing(rl, prev, es) ==
    LET conflicts == Conflicts(rl, prev, es) IN
    [rl EXCEPT !.entries =
        [i \in Index |-> IF /\ i \in prev + 1 .. prev + Len(es)
                            /\ TermAt(rl, i) = 0 \/ \E c \in conflicts : c <= i
                         THEN es[i - prev]
                         ELSE IF \E c \in conflicts : c <= i THEN NoEntry ELSE @[i]]]

MergeEntries(rl, prev, es) ==
    LET conflicts == Conflicts(rl, prev, es)
        appended  == {i \in prev + 1 .. prev + Len(es) :
                        /\ i # rl.snapshotIndex
                        /\ TermAt(rl, i) = 0 \/ \E c \in conflicts : c < i}
    IN  [rl EXCEPT !.entries =
            [i \in Index |-> IF i \in appended THEN es[i - prev]
                             ELSE IF \E c \in conflicts : c <= i THEN NoEntry
                             ELSE @[i]]]

=============================================================================
