-------------------------- MODULE RaftHandlerTypes ---------------------------
(***************************************************************************)
(* The invariant TypeInv of RaftTypes is kept by the actions of replication *)
(* and by those that apply entries.                                         *)
(***************************************************************************)
EXTENDS RaftTypes

(* Replication. *)

LEMMA ReplicateToPeerType ==
    ASSUME TypeInv, NEW s \in Server, NEW p \in Server, ReplicateToPeer(s, p)
    PROVE  TypeInv'
<1> DEFINE rl   == raftLog[s]
           next == leader[s].nextIndex[p]
           snapshotRequest ==
             [type |-> "InstallSnapshot", term |-> currentTerm[s], from |-> s, to |-> p,
              lastIncludedIndex |-> rl.snapshotIndex,
              lastIncludedTerm |-> rl.snapshotTerm, data |-> snapshotData[s],
              inc |-> incarnation[s]]
           appendRequest ==
             [type |-> "AppendEntries", term |-> currentTerm[s], from |-> s, to |-> p,
              prevLogIndex |-> next - 1, prevLogTerm |-> TermAt(rl, next - 1),
              entries |-> GetRange(rl, next, LastIndex(rl)),
              leaderCommit |-> commitIndex[s], inc |-> incarnation[s]]
           m == IF next <= rl.snapshotIndex THEN snapshotRequest ELSE appendRequest
<1>1. /\ currentTerm[s] \in Term /\ rl \in Log /\ incarnation[s] \in Nat
      /\ commitIndex[s] \in 0 .. MaxIndex /\ snapshotData[s] \in Store \cup {Nil}
  BY DEF TypeInv, TypeOK
<1>2. next \in 1 .. MaxIndex + 1
  <2>1. leader[s] \in LeaderState
    BY DEF ReplicateToPeer, TypeInv, TypeOK, LeaderStateMatches
  <2> QED
    BY <2>1 DEF LeaderState
<1>3. m \in RpcMessage
  <2>1. CASE next <= rl.snapshotIndex
    <3>1. rl.snapshotIndex \in Index /\ rl.snapshotTerm \in Term
      BY <1>1, <1>2, <2>1 DEF Log, Index
    <3> HIDE DEF rl, next
    <3>2. snapshotRequest \in SnapshotRequest
      BY <1>1, <3>1 DEF SnapshotRequest
    <3> QED
      BY <2>1, <3>2 DEF RpcMessage
  <2>2. CASE ~ (next <= rl.snapshotIndex)
    <3> HIDE DEF rl, next
    <3>1. next - 1 \in 0 .. MaxIndex /\ next - 1 \in Int
      BY <1>2, RaftLogAssumption
    <3>2. TermAt(rl, next - 1) \in Term
      BY <1>1, <3>1, TermAtType
    <3>3. GetRange(rl, next, LastIndex(rl)) \in Seq(Entry)
      BY <1>1, <1>2, LastIndexType, GetRangeType
    <3>4. appendRequest \in AppendRequest
      BY <1>1, <3>1, <3>2, <3>3 DEF AppendRequest
    <3> QED
      BY <2>2, <3>4 DEF RpcMessage
  <2> QED
    BY <2>1, <2>2
<1>4. RpcPart'
  <2>1. rpcs' = BagAdd(rpcs, m)
    BY DEF ReplicateToPeer
  <2> HIDE DEF m
  <2> QED
    BY <1>3, <2>1, BagAddType, RpcPartIsBag, TypeInvParts
<1>5. /\ TermPart' /\ DataPart' /\ ApplyPart' /\ VotePart' /\ ClientPart' /\ CrashPart'
      /\ ElectionPart' /\ OtherPart'
  BY Unchanged DEF ReplicateToPeer, diskVars
<1> QED
  BY <1>4, <1>5, TypeInvPartsPrimed

LEMMA AppendResponseType ==
    ASSUME NEW s \in Server, NEW m, m.term \in Term, m.from \in Server,
           NEW success \in BOOLEAN, NEW match \in 0 .. MaxIndex,
           NEW conflict \in 0 .. MaxIndex + 1, NEW t \in Term
    PROVE  /\ AppendResponse(s, m, success, match, conflict) \in RpcMessage
           /\ [AppendResponse(s, m, success, match, conflict) EXCEPT !.term = t]
                  \in RpcMessage
  BY DEF AppendResponse, RpcMessage, AppendReply

LEMMA RejectAppendType ==
    ASSUME TypeInv, NEW s \in Server, NEW m, RejectAppend(s, m)
    PROVE  TypeInv'
<1>1. currentTerm[s] \in Term /\ m.term \in Term /\ m.from \in Server
  BY AppendRequestFields DEF RejectAppend, TypeInv, TypeOK
<1>2. 0 \in 0 .. MaxIndex /\ 0 \in 0 .. MaxIndex + 1
  BY RaftLogAssumption
<1>3. RpcPart'
  BY Zenon, <1>1, <1>2, AppendResponseType, ReplyType DEF RejectAppend
<1>4. /\ TermPart' /\ DataPart' /\ ApplyPart' /\ VotePart' /\ ClientPart' /\ CrashPart'
      /\ ElectionPart' /\ OtherPart'
  BY Unchanged DEF RejectAppend, diskVars
<1> QED
  BY <1>3, <1>4, TypeInvPartsPrimed

LEMMA MismatchAppendType ==
    ASSUME TypeInv, NEW s \in Server, NEW m, MismatchAppend(s, m)
    PROVE  TypeInv'
<1>1. /\ m.term \in Term /\ m.from \in Server /\ m.prevLogIndex \in Index
      /\ raftLog[s] \in Log
  BY AppendRequestFields DEF MismatchAppend, HasPrev, Index, TypeInv, TypeOK
<1>2. ConflictIndex(raftLog[s], m) \in 0 .. MaxIndex + 1
  <2>1. LastIndex(raftLog[s]) \in 0 .. MaxIndex
    BY <1>1, LastIndexType
  <2>2. FirstOfTerm(raftLog[s], m.prevLogIndex) \in 1 .. m.prevLogIndex
    BY <1>1, FirstOfTermType
  <2> QED
    BY <1>1, <2>1, <2>2, RaftLogAssumption DEF ConflictIndex, Index
<1>3. RpcPart'
  <2>1. 0 \in 0 .. MaxIndex
    BY RaftLogAssumption
  <2>2. AppendResponse(s, m, FALSE, 0, ConflictIndex(raftLog[s], m)) \in RpcMessage
    BY ZenonT(30), <1>1, <1>2, <2>1, AppendResponseType
  <2> QED
    BY Zenon, <2>2, ReplyType DEF MismatchAppend
<1>4. TermPart' /\ leaderID' \in [Server -> Server \cup {Nil}]
  BY <1>1, AcceptLeaderType DEF MismatchAppend
<1>5. OtherPart'
  BY <1>4 DEF MismatchAppend, OtherPart, TypeInv, TypeOK
<1>6. DataPart' /\ ApplyPart' /\ VotePart' /\ ClientPart' /\ CrashPart' /\ ElectionPart'
  BY Unchanged DEF MismatchAppend
<1> QED
  BY <1>3, <1>4, <1>5, <1>6, TypeInvPartsPrimed

LEMMA MergeFirstType ==
    ASSUME NEW rl \in Log, NEW m, m.prevLogIndex \in 0 .. MaxIndex,
           m.entries \in Seq(Entry), NEW k \in Nat, k <= Len(m.entries)
    PROVE  MergeFirst(rl, m, k) \in Log
<1>1. Len(m.entries) \in Nat /\ m.prevLogIndex \in Nat
  BY LenProperties
<1>2. \A i \in 1 .. k : m.entries[i] \in Entry
  BY <1>1, ElementOfSeq
<1>3. SubSeq(m.entries, 1, k) \in Seq(Entry)
  BY <1>2, SubSeqProperties
<1> QED
  BY Zenon, <1>1, <1>3, MergeEntriesType DEF MergeFirst

LEMMA AdvanceCommitType ==
    ASSUME TypeInv, NEW s \in Server, NEW i \in 0 .. MaxIndex, AdvanceCommit(s, i),
           UNCHANGED <<lastApplied, applying, snapGo>>
    PROVE  ApplyPart'
<1>1. applyGo[s] \in Nat /\ applyGo[s] + 1 \in Nat
  BY DEF TypeInv, TypeOK
<1> QED
  BY <1>1 DEF AdvanceCommit, ApplyPart, TypeInv, TypeOK

LEMMA AcceptAppendType ==
    ASSUME TypeInv, NEW s \in Server, NEW m, AcceptAppend(s, m)
    PROVE  TypeInv'
<1> DEFINE rl == MergeFirst(raftLog[s], m, Len(m.entries))
<1>1. /\ m.term \in Term /\ m.from \in Server /\ m.prevLogIndex \in 0 .. MaxIndex
      /\ m.entries \in Seq(Entry) /\ m.leaderCommit \in 0 .. MaxIndex
  BY AppendRequestFields DEF AcceptAppend
<1>2. Len(m.entries) \in Nat
  BY <1>1, LenProperties
<1>3. rl \in Log
  <2>1. raftLog[s] \in Log
    BY DEF TypeInv, TypeOK
  <2> QED
    BY <1>1, <1>2, <2>1, MergeFirstType
<1>4. DataPart'
  BY <1>3 DEF AcceptAppend, DataPart, TypeInv, TypeOK
<1>5. ApplyPart'
  <2>1. FollowerCommit(s, m) \in 0 .. MaxIndex
    <3>1. commitIndex[s] \in 0 .. MaxIndex
      BY DEF TypeInv, TypeOK
    <3> QED
      BY <1>1, <1>2, <3>1, RaftLogAssumption DEF FollowerCommit
  <2> QED
    BY <2>1, AdvanceCommitType DEF AcceptAppend
<1>6. RpcPart'
  <2>1. LastIndex(rl) \in 0 .. MaxIndex /\ 0 \in 0 .. MaxIndex + 1
    BY <1>3, LastIndexType, RaftLogAssumption
  <2>2. AppendResponse(s, m, TRUE, LastIndex(rl), 0) \in RpcMessage
    BY ZenonT(30), <1>1, <2>1, AppendResponseType
  <2> QED
    BY Zenon, <2>2, ReplyType DEF AcceptAppend
<1>7. TermPart' /\ leaderID' \in [Server -> Server \cup {Nil}]
  BY <1>1, AcceptLeaderType DEF AcceptAppend
<1>8. OtherPart'
  BY <1>7 DEF AcceptAppend, OtherPart
<1>9. VotePart' /\ ClientPart' /\ CrashPart' /\ ElectionPart'
  BY Unchanged DEF AcceptAppend
<1> QED
  BY <1>4, <1>5, <1>6, <1>7, <1>8, <1>9, TypeInvPartsPrimed

LEMMA FailAppendType ==
    ASSUME TypeInv, NEW s \in Server, NEW m, NEW k \in 0 .. MaxIndex, FailAppend(s, m, k)
    PROVE  TypeInv'
<1>1. /\ m.term \in Term /\ m.from \in Server /\ m.prevLogIndex \in 0 .. MaxIndex
      /\ m.entries \in Seq(Entry)
  BY AppendRequestFields DEF FailAppend
<1>2. k \in Nat /\ k <= Len(m.entries)
  BY <1>1, LenProperties DEF FailAppend
<1>3. DataPart'
  <2>1. MergeFirst(raftLog[s], m, k) \in Log
    BY <1>1, <1>2, MergeFirstType DEF TypeInv, TypeOK
  <2> QED
    BY <2>1 DEF FailAppend, DataPart, TypeInv, TypeOK
<1>4. RpcPart'
  <2>1. 0 \in 0 .. MaxIndex /\ 0 \in 0 .. MaxIndex + 1
    BY RaftLogAssumption
  <2>2. AppendResponse(s, m, FALSE, 0, 0) \in RpcMessage
    BY ZenonT(30), <1>1, <2>1, AppendResponseType
  <2> QED
    BY Zenon, <2>2, ReplyType DEF FailAppend
<1>5. TermPart' /\ leaderID' \in [Server -> Server \cup {Nil}]
  BY Zenon, <1>1, AcceptLeaderType DEF FailAppend
<1>6. OtherPart'
  BY ZenonT(30), <1>5 DEF FailAppend, OtherPart
<1>7. ApplyPart' /\ VotePart' /\ ClientPart' /\ CrashPart' /\ ElectionPart'
  BY ZenonT(30), Unchanged DEF FailAppend
<1> QED
  BY <1>3, <1>4, <1>5, <1>6, <1>7, TypeInvPartsPrimed

\* commitCandidate returns 0 or an index of the log.
LEMMA CommitCandidateType ==
    ASSUME TypeInv, NEW s \in Server, NEW match
    PROVE  CommitCandidate(s, match) \in 0 .. MaxIndex
<1> DEFINE ready == {n \in commitIndex[s] + 1 .. LastIndex(raftLog[s]) :
                       /\ TermAt(raftLog[s], n) = currentTerm[s]
                       /\ Cardinality({p \in Peers(s) : match[p] >= n}) + 1 >= Majority(s)}
<1>1. commitIndex[s] \in 0 .. MaxIndex /\ LastIndex(raftLog[s]) \in 0 .. MaxIndex
  BY LastIndexType DEF TypeInv, TypeOK
<1>2. ready \subseteq 0 .. MaxIndex
  BY <1>1, RaftLogAssumption
<1> HIDE DEF ready
<1>3. ready # {} => Max(ready) \in ready
  BY <1>2, MaxIsGreatest, RaftLogAssumption
<1> QED
  BY <1>2, <1>3, RaftLogAssumption DEF CommitCandidate, ready

LEMMA HandleAppendReplyType ==
    ASSUME TypeInv, NEW s \in Server, NEW m, HandleAppendReply(s, m)
    PROVE  TypeInv'
<1> DEFINE ls    == leader[s]
           p     == m.from
           match == [ls.matchIndex EXCEPT ![p] = NewMatch(s, m)]
           noted == [nextIndex  |-> [ls.nextIndex EXCEPT ![p] = match[p] + 1],
                     matchIndex |-> match]
           back  == [ls EXCEPT !.nextIndex[p] = BackUp(@, m.conflictIndex)]
           commit == CommitCandidate(s, match)
<1>1. /\ m.term \in Term /\ p \in Server /\ m.matchIndex \in 0 .. MaxIndex
      /\ m.conflictIndex \in 0 .. MaxIndex + 1
  <2>1. m \in AppendReply
    BY RpcTypes DEF HandleAppendReply, Received
  <2> QED
    BY <2>1 DEF AppendReply
<1>2. state[s] = Leader => ls \in LeaderState
  BY DEF TypeInv, TypeOK, LeaderStateMatches
<1>3. state[s] = Leader => noted \in LeaderState /\ back \in LeaderState
  <2> SUFFICES ASSUME state[s] = Leader PROVE noted \in LeaderState /\ back \in LeaderState
    OBVIOUS
  <2>1. ls.nextIndex \in [Server -> 1 .. MaxIndex + 1] /\ ls.matchIndex \in [Server -> 0 .. MaxIndex]
    BY <1>2 DEF LeaderState
  <2>2. match \in [Server -> 0 .. MaxIndex] /\ match[p] + 1 \in 1 .. MaxIndex + 1
    BY <1>1, <2>1, RaftLogAssumption DEF NewMatch
  <2>3. noted \in LeaderState
    <3> HIDE DEF match
    <3> QED
      BY ZenonT(30), <2>1, <2>2 DEF LeaderState
  <2>4. BackUp(ls.nextIndex[p], m.conflictIndex) \in 1 .. MaxIndex + 1
    <3>1. ls.nextIndex[p] \in 1 .. MaxIndex + 1
      BY <1>1, <2>1
    <3> QED
      BY <1>1, <3>1, RaftLogAssumption DEF BackUp
  <2>5. back \in LeaderState
    BY <1>1, <1>2, <2>1, <2>4 DEF LeaderState
  <2> QED
    BY <2>3, <2>5
<1>4. RpcPart'
  BY BagRemoveType, RpcPartIsBag, TypeInvParts DEF HandleAppendReply
<1>5. ASSUME NEW l \in LeaderState, leader' = [leader EXCEPT ![s] = l], state[s] = Leader,
             UNCHANGED <<currentTerm, votedFor, state, meta, faults>>
      PROVE  TermPart'
  <2>1. l # Nil
    BY RaftAssumption DEF LeaderState
  <2>2. LeaderStateMatches' /\ TermsStarted'
    BY <1>5, <2>1 DEF TypeInv, TypeOK, LeaderStateMatches, TermsStarted
  <2> QED
    BY <1>5, <2>2 DEF TermPart, TypeInv, TypeOK
<1>6. TermPart' /\ ApplyPart'
  <2> USE DEF HandleAppendReply
  <2>1. CASE state[s] # Leader
    BY <2>1, Unchanged DEF applyVars
  <2>2. CASE state[s] = Leader /\ m.term > currentTerm[s]
    <3>1. ~ (m.term <= currentTerm[s])
      BY <1>1, <2>2, RaftLogAssumption DEF Term, TypeInv, TypeOK
    <3>2. BecomeFollower(s, m.term, 0) /\ UNCHANGED applyVars
      BY <2>2, <3>1 DEF applyVars
    <3> QED
      BY <1>1, <3>2, BecomeFollowerType, Unchanged
  <2>3. CASE state[s] = Leader /\ ~ (m.term > currentTerm[s]) /\ m.success
    <3>1. /\ leader' = [leader EXCEPT ![s] = noted]
          /\ AdvanceCommit(s, IF commit > 0 THEN commit ELSE commitIndex[s])
          /\ UNCHANGED <<currentTerm, votedFor, state, meta, faults>>
          /\ UNCHANGED <<lastApplied, applying, snapGo>>
      BY <2>3
    <3> HIDE DEF noted, commit, HandleAppendReply
    <3>2. TermPart'
      BY ZenonT(30), <1>3, <1>5, <2>3, <3>1
    <3>3. (IF commit > 0 THEN commit ELSE commitIndex[s]) \in 0 .. MaxIndex
      BY CommitCandidateType DEF commit, TypeInv, TypeOK
    <3> QED
      BY <3>1, <3>2, <3>3, AdvanceCommitType
  <2>4. CASE state[s] = Leader /\ ~ (m.term > currentTerm[s]) /\ ~ m.success
    <3>1. /\ leader' = [leader EXCEPT ![s] = back]
          /\ UNCHANGED <<currentTerm, votedFor, state, meta, faults>>
          /\ UNCHANGED applyVars
      BY <2>4 DEF applyVars
    <3> HIDE DEF back, HandleAppendReply
    <3> QED
      BY ZenonT(30), <1>3, <1>5, <2>4, <3>1, Unchanged
  <2> QED
    BY <2>1, <2>2, <2>3, <2>4
<1>7. DataPart' /\ VotePart' /\ ClientPart' /\ CrashPart' /\ ElectionPart' /\ OtherPart'
  BY Unchanged DEF HandleAppendReply
<1> QED
  BY <1>4, <1>6, <1>7, TypeInvPartsPrimed

LEMMA LoseRpcType ==
    ASSUME TypeInv, NEW m, LoseRpc(m)
    PROVE  TypeInv'
<1>1. RpcPart'
  BY BagRemoveType, RpcPartIsBag, TypeInvParts DEF LoseRpc
<1>2. /\ TermPart' /\ DataPart' /\ ApplyPart' /\ VotePart' /\ ClientPart' /\ CrashPart'
      /\ ElectionPart' /\ OtherPart'
  BY Unchanged DEF LoseRpc, diskVars
<1> QED
  BY <1>1, <1>2, TypeInvPartsPrimed

-----------------------------------------------------------------------------
(* Applying and snapshots. *)

LEMMA ApplyTurnType ==
    ASSUME TypeInv, NEW s \in Server, ApplyTurn(s)
    PROVE  applyGo' \in [Server -> Nat]
<1>1. (IF applying[s] THEN applyGo[s] ELSE applyGo[s] - 1) \in Nat
  BY DEF ApplyTurn, TypeInv, TypeOK
<1> QED
  BY <1>1 DEF ApplyTurn, TypeInv, TypeOK

LEMMA ApplyNothingType ==
    ASSUME TypeInv, NEW s \in Server, ApplyNothing(s)
    PROVE  TypeInv'
<1>1. ApplyPart'
  BY ApplyTurnType DEF ApplyNothing, ApplyPart, TypeInv, TypeOK
<1>2. /\ TermPart' /\ DataPart' /\ VotePart' /\ RpcPart' /\ ClientPart' /\ CrashPart'
      /\ ElectionPart' /\ OtherPart'
  BY ZenonT(30), Unchanged DEF ApplyNothing, diskVars, netVars
<1> QED
  BY <1>1, <1>2, TypeInvPartsPrimed

LEMMA NextToApply ==
    ASSUME TypeInv, NEW s \in Server, lastApplied[s] < commitIndex[s]
    PROVE  lastApplied[s] + 1 \in Index /\ lastApplied[s] + 1 \in 0 .. MaxIndex
  BY RaftLogAssumption DEF TypeInv, TypeOK, Index

LEMMA ApplyMissingType ==
    ASSUME TypeInv, NEW s \in Server, ApplyMissing(s)
    PROVE  TypeInv'
<1>1. ApplyPart'
  BY ApplyTurnType, NextToApply DEF ApplyMissing, ApplyPart, TypeInv, TypeOK
<1>2. /\ TermPart' /\ DataPart' /\ VotePart' /\ RpcPart' /\ ClientPart' /\ CrashPart'
      /\ ElectionPart' /\ OtherPart'
  BY Zenon, Unchanged DEF ApplyMissing, diskVars, netVars
<1> QED
  BY <1>1, <1>2, TypeInvPartsPrimed

LEMMA NotifyType ==
    ASSUME TypeInv, NEW s \in Server, NEW i \in Index, NEW ok \in BOOLEAN, Notify(s, i, ok)
    PROVE  ClientPart'
<1> DEFINE c == pending[s][i]
<1>1. pending' \in [Server -> [Index -> Client \cup {Nil}]]
  BY DEF Notify, TypeInv, TypeOK
<1>2. CASE c = Nil
  BY <1>1, <1>2 DEF Notify, ClientPart, TypeInv, TypeOK
<1>3. CASE c # Nil
  <2>1. c \in Client /\ req[c] \in Request
    BY <1>3 DEF TypeInv, TypeOK
  <2>2. [req[c] EXCEPT !.st = "notified", !.ok = ok] \in Request
    BY ZenonT(30), <2>1, RequestUpdate
  <2>3. req' = [req EXCEPT ![c] = [req[c] EXCEPT !.st = "notified", !.ok = ok]]
    BY Zenon, <1>3, <2>1 DEF Notify, TypeInv, TypeOK
  <2> QED
    BY ZenonT(30), <1>1, <2>2, <2>3 DEF ClientPart, TypeInv, TypeOK
<1> QED
  BY <1>2, <1>3

LEMMA ApplyCommandType ==
    ASSUME NEW kv \in Store, NEW cmd \in Command
    PROVE  ApplyCommand(kv, cmd) \in Store /\ Succeeds(kv, cmd) \in BOOLEAN
<1>1. cmd.key \in Key /\ cmd.value \in Value
  BY DEF Command
<1>2. Delete(kv, cmd.key) \in Store /\ Put(kv, cmd.key, cmd.value) \in Store
  BY <1>1 DEF Delete, Put, Store
<1>3. Succeeds(kv, cmd) \in BOOLEAN
  BY DEF Succeeds
<1> QED
  BY <1>2, <1>3 DEF ApplyCommand

LEMMA ApplyEntryType ==
    ASSUME TypeInv, NEW s \in Server, ApplyEntry(s)
    PROVE  TypeInv'
<1> DEFINE i == lastApplied[s] + 1
           e == raftLog[s].entries[i]
<1>1. i \in Index /\ i \in 0 .. MaxIndex
  BY Zenon, NextToApply DEF ApplyEntry
<1>2. e \in Entry
  <2>1. raftLog[s] \in Log
    BY DEF TypeInv, TypeOK
  <2>2. e # NoEntry
    BY ZenonT(30) DEF ApplyEntry, Has
  <2> HIDE DEF i
  <2> QED
    BY <1>1, <2>1, <2>2 DEF Log
<1>3. e.term \in Term /\ (e.cmd # Noop => e.cmd \in Client)
  BY <1>2, RaftLogAssumption DEF Entry, Term
<1>4. store[s] \in Store /\ (e.cmd # Noop => CmdOf[e.cmd] \in Command)
  BY <1>3, RaftAssumption DEF TypeInv, TypeOK
<1> HIDE DEF i, e
<1>5. /\ \/ /\ e.cmd = Noop
            /\ Notify(s, i, TRUE)
            /\ UNCHANGED <<store, faults>>
         \/ /\ e.cmd # Noop
            /\ store' = [store EXCEPT ![s] = ApplyCommand(store[s], CmdOf[e.cmd])]
            /\ Notify(s, i, Succeeds(store[s], CmdOf[e.cmd]))
            /\ UNCHANGED faults
         \/ /\ DiskFaults(1)
            /\ Notify(s, i, FALSE)
            /\ UNCHANGED store
      /\ lastApplied' = [lastApplied EXCEPT ![s] = i]
      /\ UNCHANGED <<raftLog, snapshotData, meta, termVars>>
  BY Zenon DEF ApplyEntry, i, e
<1>6. DataPart' /\ ClientPart' /\ faults' \in 0 .. MaxFaults
  <2>1. ClientPart'
    <3>1. e.cmd # Noop => Succeeds(store[s], CmdOf[e.cmd]) \in BOOLEAN
      BY <1>4, ApplyCommandType
    <3> QED
      BY Zenon, <1>1, <1>5, <3>1, NotifyType
  <2>2. store' \in [Server -> Store]
    <3>1. e.cmd # Noop => ApplyCommand(store[s], CmdOf[e.cmd]) \in Store
      BY <1>4, ApplyCommandType
    <3> QED
      BY ZenonT(30), <1>5, <3>1 DEF TypeInv, TypeOK
  <2>3. faults' \in 0 .. MaxFaults
    BY ZenonT(30), <1>5, DiskFaultsType DEF TypeInv, TypeOK
  <2> QED
    BY ZenonT(30), <1>5, <2>1, <2>2, <2>3 DEF DataPart, TypeInv, TypeOK
<1>7. TermPart'
  BY Zenon, <1>5, <1>6, TypeInvParts DEF TermPart, termVars, LeaderStateMatches,
     TermsStarted
<1>8. ApplyPart'
  <2>1. [index |-> i, term |-> e.term, data |-> Nil] \in SnapshotRun
    BY <1>1, <1>3 DEF SnapshotRun
  <2>2. snapGo' \in [Server -> SUBSET SnapshotRun]
    <3>1. snapGo' = [snapGo EXCEPT ![s] =
                        IF i - raftLog[s].snapshotIndex >= SnapshotThreshold
                        THEN @ \cup {[index |-> i, term |-> e.term, data |-> Nil]}
                        ELSE @]
      BY Zenon DEF ApplyEntry, i, e
    <3>2. snapGo \in [Server -> SUBSET SnapshotRun]
      BY DEF TypeInv, TypeOK
    <3>3. ASSUME NEW r \in SnapshotRun
          PROVE  [snapGo EXCEPT ![s] = IF i - raftLog[s].snapshotIndex >= SnapshotThreshold
                                       THEN @ \cup {r} ELSE @]
                     \in [Server -> SUBSET SnapshotRun]
      BY <3>2
    <3> QED
      BY <2>1, <3>1, <3>3
  <2>3. applying' \in [Server -> BOOLEAN] /\ UNCHANGED commitIndex
    <3>1. ASSUME NEW b \in BOOLEAN PROVE [applying EXCEPT ![s] = b] \in [Server -> BOOLEAN]
      BY DEF TypeInv, TypeOK
    <3>2. (i < commitIndex[s]) \in BOOLEAN
      OBVIOUS
    <3>3. /\ applying' = [applying EXCEPT ![s] = i < commitIndex[s]]
          /\ UNCHANGED commitIndex
      BY Zenon DEF ApplyEntry, i
    <3> QED
      BY Zenon, <3>1, <3>2, <3>3
  <2>4. lastApplied' \in [Server -> 0 .. MaxIndex]
    BY <1>1, <1>5 DEF TypeInv, TypeOK
  <2>5. applyGo' \in [Server -> Nat]
    BY ZenonT(30), ApplyTurnType DEF ApplyEntry
  <2> QED
    BY <2>2, <2>3, <2>4, <2>5 DEF ApplyPart, TypeInv, TypeOK
<1>9. VotePart' /\ RpcPart' /\ CrashPart' /\ ElectionPart' /\ OtherPart'
  BY Zenon, Unchanged DEF ApplyEntry, netVars
<1> QED
  BY <1>6, <1>7, <1>8, <1>9, TypeInvPartsPrimed

LEMMA ReadSnapshotType ==
    ASSUME TypeInv, NEW s \in Server, NEW g \in snapGo[s], ReadSnapshot(s, g)
    PROVE  TypeInv'
<1>1. g \in SnapshotRun /\ store[s] \in Store
  BY DEF TypeInv, TypeOK
<1>2. [g EXCEPT !.data = store[s]] \in SnapshotRun
  BY <1>1 DEF SnapshotRun
<1>3. ApplyPart'
  <2>1. snapGo \in [Server -> SUBSET SnapshotRun]
    BY DEF TypeInv, TypeOK
  <2>2. ASSUME NEW r \in SnapshotRun
        PROVE  [snapGo EXCEPT ![s] = (@ \ {g}) \cup {r}] \in [Server -> SUBSET SnapshotRun]
    BY <2>1
  <2>3. snapGo' \in [Server -> SUBSET SnapshotRun]
    BY <1>2, <2>2 DEF ReadSnapshot
  <2> QED
    BY <2>3 DEF ReadSnapshot, ApplyPart, TypeInv, TypeOK
<1>4. /\ TermPart' /\ DataPart' /\ VotePart' /\ RpcPart' /\ ClientPart' /\ CrashPart'
      /\ ElectionPart' /\ OtherPart'
  BY Unchanged DEF ReadSnapshot, diskVars, netVars
<1> QED
  BY <1>3, <1>4, TypeInvPartsPrimed

LEMMA TakeSnapshotType ==
    ASSUME TypeInv, NEW s \in Server, NEW g \in snapGo[s], TakeSnapshot(s, g)
    PROVE  TypeInv'
<1>1. /\ g.index \in 0 .. MaxIndex /\ g.term \in Term /\ g.data \in Store \cup {Nil}
      /\ raftLog[s] \in Log
  <2>1. g \in SnapshotRun
    BY DEF TypeInv, TypeOK
  <2> QED
    BY <2>1 DEF SnapshotRun, Index, TypeInv, TypeOK
<1>2. Compact(raftLog[s], g.index, g.term) \in Log
  BY ZenonT(30), <1>1, CompactType
<1>3. DataPart'
  <2>1. \/ /\ raftLog' = [raftLog EXCEPT ![s] = Compact(raftLog[s], g.index, g.term)]
           /\ snapshotData' = [snapshotData EXCEPT ![s] = g.data]
        \/ UNCHANGED <<raftLog, snapshotData>>
    BY DEF TakeSnapshot
  <2>2. UNCHANGED store /\ DataPart
    BY TypeInvParts DEF TakeSnapshot
  <2> QED
    BY <1>1, <1>2, <2>1, <2>2 DEF DataPart
<1>4. faults' \in 0 .. MaxFaults
  BY ZenonT(30), DiskFaultsType DEF TakeSnapshot, TypeInv, TypeOK
<1>5. TermPart'
  BY Zenon, <1>4, TypeInvParts
  DEF TakeSnapshot, TermPart, termVars, LeaderStateMatches, TermsStarted
<1>6. ApplyPart'
  BY DEF TakeSnapshot, ApplyPart, TypeInv, TypeOK
<1>7. VotePart' /\ RpcPart' /\ ClientPart' /\ CrashPart' /\ ElectionPart' /\ OtherPart'
  BY Unchanged DEF TakeSnapshot, netVars
<1> QED
  BY <1>3, <1>5, <1>6, <1>7, TypeInvPartsPrimed

=============================================================================
