--------------------------- MODULE RaftLogProofs ---------------------------
(***************************************************************************)
(* What the operators of RaftLog return, for every log and every bound.    *)
(***************************************************************************)
EXTENDS RaftLog, FiniteSetTheorems, SequenceTheorems, TLAPS

\* A non-empty set of naturals has the least element that Min chooses.
LEMMA MinIsLeast ==
    ASSUME NEW S \in SUBSET Nat, S # {}
    PROVE  Min(S) \in S /\ \A y \in S : Min(S) <= y
<1> DEFINE R == OpToRel(<, Nat)
<1>1. S \subseteq Nat /\ IsWellFoundedOn(R, Nat)
  BY NatLessThanWellFounded
<1>a. \A x, y \in Nat : x < y => <<x, y>> \in R
  BY SMT DEF OpToRel
<1> HIDE DEF R
<1>b. PICK x \in S : \A y \in S : ~ (<<y, x>> \in R)
  BY Zenon, <1>1, WFMin
<1>2. \A y \in S : x =< y
  <2> SUFFICES ASSUME NEW y \in S PROVE x =< y
    OBVIOUS
  <2>1. x \in Nat /\ y \in Nat
    OBVIOUS
  <2>2. ~ (y < x)
    BY Zenon, <1>a, <1>b, <2>1
  <2> QED
    BY <2>1, <2>2
<1> QED
  BY Zenon, <1>2 DEF Min

\* A non-empty set of indexes has the greatest element that Max chooses
\* (LastIndex, commitCandidate).
LEMMA MaxIsGreatest ==
    ASSUME NEW N \in Nat, NEW S \in SUBSET (0 .. N), S # {}
    PROVE  Max(S) \in S /\ \A y \in S : y <= Max(S)
<1> DEFINE D == {N - n : n \in S}
<1>a. PICK n0 \in S : TRUE
  BY Zenon
<1>b. N - n0 \in D
  BY <1>a
<1>c. \A n1 \in S : n1 \in Int /\ n1 >= 0 /\ n1 <= N
  OBVIOUS
<1>1. D \in SUBSET Nat /\ D # {}
  BY <1>b, <1>c
<1>2. PICK d \in D : \A y \in D : d <= y
  BY Zenon, <1>1, MinIsLeast
<1>3. PICK n \in S : d = N - n
  BY <1>2
<1>4. \A y \in S : n >= y
  <2> SUFFICES ASSUME NEW y \in S PROVE n >= y
    OBVIOUS
  <2>1. N - y \in D
    OBVIOUS
  <2>2. N - n <= N - y
    BY <2>1, <1>2, <1>3
  <2> QED
    BY <2>2, <1>c
<1>5. \E x \in S : \A y \in S : x >= y
  BY <1>4
<1> QED
  BY Zenon, <1>5 DEF Max

\* LastIndex is an index or 0.
LEMMA LastIndexType ==
    ASSUME NEW rl \in Log
    PROVE  LastIndex(rl) \in 0 .. MaxIndex
<1>1. Slots(rl) \in SUBSET (0 .. MaxIndex) /\ MaxIndex \in Nat
  BY RaftLogAssumption DEF Slots, Index
<1>2. CASE Slots(rl) = {}
  BY <1>2 DEF LastIndex, Log
<1>3. CASE Slots(rl) # {}
  <2>1. Max(Slots(rl)) \in Slots(rl)
    BY Zenon, <1>1, <1>3, MaxIsGreatest
  <2> QED
    BY <2>1, <1>1, <1>3 DEF LastIndex
<1> QED
  BY <1>2, <1>3

\* TermAt is a term, for every number it is asked about.
LEMMA TermAtType ==
    ASSUME NEW rl \in Log, NEW i \in Int
    PROVE  TermAt(rl, i) \in Term
<1>1. Has(rl, i) => rl.entries[i] \in Entry
  BY DEF Has, Log
<1>2. \A e \in Entry : e.term \in Term
  BY RaftLogAssumption DEF Entry, Term
<1>3. rl.snapshotTerm \in Term /\ 0 \in Term
  BY RaftLogAssumption DEF Log, Term
<1> QED
  BY <1>1, <1>2, <1>3 DEF TermAt

LEMMA LastTermType ==
    ASSUME NEW rl \in Log
    PROVE  LastTerm(rl) \in Term
  BY LastIndexType, TermAtType DEF LastTerm

\* GetRange stops before the first entry that is missing, so what it returns are
\* entries, no more of them than there are indexes from its start on.
LEMMA GetRangeType ==
    ASSUME NEW rl \in Log, NEW from \in 1 .. MaxIndex + 1, NEW to \in 0 .. MaxIndex
    PROVE  /\ GetRange(rl, from, to) \in Seq(Entry)
           /\ from + Len(GetRange(rl, from, to)) <= MaxIndex + 1
<1> DEFINE missing == {i \in from .. to : ~ Has(rl, i)}
           last == IF missing = {} THEN to ELSE Min(missing) - 1
           n == IF last - from + 1 > 0 THEN last - from + 1 ELSE 0
           f == [k \in 1 .. (last - from + 1) |-> rl.entries[from + k - 1]]
<1>0. MaxIndex \in Nat
  BY RaftLogAssumption
<1>1. missing \in SUBSET Nat
  BY <1>0
<1>2. last \in Int /\ last <= to /\ (\A i \in from .. last : Has(rl, i))
  <2>1. CASE missing = {}
    BY <2>1, <1>0
  <2>2. CASE missing # {}
    <3>1. Min(missing) \in missing /\ \A y \in missing : Min(missing) <= y
      BY <2>2, <1>1, MinIsLeast
    <3> HIDE DEF missing
    <3>2. Min(missing) \in from .. to /\ last = Min(missing) - 1
      BY <3>1, <2>2 DEF missing
    <3>3. \A i \in from .. last : i \notin missing
      BY <3>1, <3>2, <1>0
    <3>4. \A i \in from .. last : i \in from .. to
      BY <3>2, <1>0
    <3> QED
      BY <3>2, <3>3, <3>4, <1>0 DEF missing
  <2> QED
    BY <2>1, <2>2
<1> HIDE DEF missing, last
<1>3. \A k \in 1 .. (last - from + 1) : rl.entries[from + k - 1] \in Entry
  <2> SUFFICES ASSUME NEW k \in 1 .. (last - from + 1)
               PROVE  rl.entries[from + k - 1] \in Entry
    OBVIOUS
  <2>1. from + k - 1 \in from .. last
    BY <1>2, <1>0
  <2>2. Has(rl, from + k - 1)
    BY <2>1, <1>2
  <2> QED
    BY <2>2 DEF Has, Log
<1>4. n \in Nat /\ 1 .. (last - from + 1) = 1 .. n
  BY <1>2, <1>0
<1>5. f \in [1 .. n -> Entry]
  BY <1>3, <1>4
<1>7. from + n <= MaxIndex + 1
  BY <1>2, <1>0
<1>8. GetRange(rl, from, to) = f
  BY DEF GetRange, last, missing
<1> HIDE DEF f, n
<1>6. f \in Seq(Entry) /\ Len(f) = n
  BY <1>4, <1>5
<1> QED
  BY <1>6, <1>7, <1>8

\* The operations that write keep a log a log.
LEMMA EmptyLogType == EmptyLog \in Log
  BY RaftLogAssumption DEF EmptyLog, Log, Boundary, Term

LEMMA ReopenType ==
    ASSUME NEW rl \in Log
    PROVE  Reopen(rl) \in Log
  BY Zenon DEF Reopen, Log, Boundary

LEMMA AppendEntryType ==
    ASSUME NEW rl \in Log, NEW i \in Index, NEW e \in Entry
    PROVE  AppendEntry(rl, i, e) \in Log
  BY DEF AppendEntry, Log

LEMMA CompactType ==
    ASSUME NEW rl \in Log, NEW i \in 0 .. MaxIndex, NEW t \in Term
    PROVE  Compact(rl, i, t) \in Log
<1>1. [j \in Index |-> IF j <= i THEN NoEntry ELSE rl.entries[j]]
            \in [Index -> Entry \cup {NoEntry}]
  BY DEF Log
<1>2. [index |-> i, term |-> t] \in Boundary
  BY DEF Boundary
<1> QED
  BY Zenon, <1>1, <1>2 DEF Compact, Log

\* The loop over the entries of an AppendEntries puts nothing but those entries
\* into slots.
LEMMA MergeEntriesType ==
    ASSUME NEW rl \in Log, NEW prev \in Nat, NEW es \in Seq(Entry)
    PROVE  MergeEntries(rl, prev, es) \in Log
<1> DEFINE conflicts == Conflicts(rl, prev, es)
           appended == {i \in prev + 1 .. prev + Len(es) :
                          /\ i # rl.snapshotIndex
                          /\ TermAt(rl, i) = 0 \/ \E c \in conflicts : c < i}
           merged == [i \in Index |-> IF i \in appended THEN es[i - prev]
                                      ELSE IF \E c \in conflicts : c <= i THEN NoEntry
                                      ELSE rl.entries[i]]
<1>1. \A i \in appended : es[i - prev] \in Entry
  <2>1. Len(es) \in Nat
    BY LenProperties
  <2>2. \A i \in prev + 1 .. prev + Len(es) : i - prev \in 1 .. Len(es)
    BY <2>1
  <2> QED
    BY <2>2, ElementOfSeq
<1> HIDE DEF conflicts, appended
<1>2. merged \in [Index -> Entry \cup {NoEntry}]
  BY <1>1 DEF Log
<1>3. MergeEntries(rl, prev, es) = [rl EXCEPT !.entries = merged]
  BY DEF MergeEntries, conflicts, appended, Log
<1> QED
  BY <1>2, <1>3 DEF Log

\* The conflict hint lies between 1 and the index it starts from.
LEMMA FirstOfTermType ==
    ASSUME NEW rl \in Log, NEW i \in Index
    PROVE  FirstOfTerm(rl, i) \in 1 .. i
<1> DEFINE S == {k \in 1 .. i : \/ k = i
                                \/ /\ k > rl.snapshotIndex
                                   /\ \A j \in k .. i : TermAt(rl, j) = TermAt(rl, i)}
<1>1. i \in S /\ S \in SUBSET Nat /\ S \subseteq 1 .. i
  BY RaftLogAssumption DEF Index
<1> HIDE DEF S
<1>2. Min(S) \in S
  BY <1>1, MinIsLeast
<1> QED
  BY <1>1, <1>2 DEF FirstOfTerm, S

=============================================================================
