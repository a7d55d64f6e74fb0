----------------------------- MODULE RaftProofs -----------------------------
(***************************************************************************)
(* Type correctness and election safety of the cluster, for every set of    *)
(* nodes and every bound.  RaftTypes has the type invariant and the actions *)
(* of an election, RaftHandlerTypes those of replication and applying; here *)
(* are the others and the theorems.  ElectionSteps has the steps of the     *)
(* argument about elections.                                                *)
(***************************************************************************)
EXTENDS RaftHandlerTypes, ElectionSteps

(* InstallSnapshot. *)

LEMMA SnapshotResponseType ==
    ASSUME TypeInv, NEW s \in Server, NEW m, m.from \in Server,
           m.lastIncludedIndex \in Index, NEW success \in BOOLEAN
    PROVE  SnapshotResponse(s, m, success) \in RpcMessage
<1>1. currentTerm[s] \in Term
  BY DEF TypeInv, TypeOK
<1> QED
  BY <1>1 DEF SnapshotResponse, RpcMessage, SnapshotReply

LEMMA RejectSnapshotType ==
    ASSUME TypeInv, NEW s \in Server, NEW m, RejectSnapshot(s, m)
    PROVE  TypeInv'
<1>1. RpcPart'
  BY Zenon, SnapshotRequestFields, SnapshotResponseType, ReplyType DEF RejectSnapshot
<1>2. /\ TermPart' /\ DataPart' /\ ApplyPart' /\ VotePart' /\ ClientPart' /\ CrashPart'
      /\ ElectionPart' /\ OtherPart'
  BY Unchanged DEF RejectSnapshot, diskVars
<1> QED
  BY <1>1, <1>2, TypeInvPartsPrimed

LEMMA InstallSnapshotType ==
    ASSUME TypeInv, NEW s \in Server, NEW m, InstallSnapshot(s, m)
    PROVE  TypeInv'
<1>1. /\ m.term \in Term /\ m.from \in Server /\ m.lastIncludedIndex \in Index
      /\ m.lastIncludedIndex \in 0 .. MaxIndex
      /\ m.lastIncludedTerm \in Term /\ m.data \in Store
  BY SnapshotRequestFields DEF InstallSnapshot
<1>2. RpcPart'
  BY Zenon, <1>1, SnapshotResponseType, ReplyType DEF InstallSnapshot
<1>3. TermPart' /\ leaderID' \in [Server -> Server \cup {Nil}]
  BY <1>1, AcceptLeaderType DEF InstallSnapshot
<1>4. DataPart'
  <2>1. Compact(raftLog[s], m.lastIncludedIndex, m.lastIncludedTerm) \in Log
    BY <1>1, CompactType DEF TypeInv, TypeOK
  <2>2. /\ raftLog' = [raftLog EXCEPT ![s] =
                          Compact(raftLog[s], m.lastIncludedIndex, m.lastIncludedTerm)]
        /\ store' = [store EXCEPT ![s] = m.data]
        /\ snapshotData' = [snapshotData EXCEPT ![s] = m.data]
        /\ DataPart
    BY TypeInvParts DEF InstallSnapshot
  <2> QED
    BY <1>1, <2>1, <2>2 DEF DataPart
<1>5. ApplyPart'
  BY <1>1 DEF InstallSnapshot, ApplyPart, TypeInv, TypeOK
<1>6. OtherPart'
  BY ZenonT(30), <1>3 DEF InstallSnapshot, OtherPart, TypeInv, TypeOK
<1>7. VotePart' /\ ClientPart' /\ CrashPart' /\ ElectionPart'
  BY Unchanged DEF InstallSnapshot
<1> QED
  BY <1>2, <1>3, <1>4, <1>5, <1>6, <1>7, TypeInvPartsPrimed

LEMMA FailSnapshotType ==
    ASSUME TypeInv, NEW s \in Server, NEW m, FailSnapshot(s, m)
    PROVE  TypeInv'
<1>1. /\ m.term \in Term /\ m.from \in Server /\ m.lastIncludedIndex \in Index
      /\ m.data \in Store \cup {Nil}
  BY SnapshotRequestFields DEF FailSnapshot
<1>2. RpcPart'
  BY ZenonT(30), <1>1, SnapshotResponseType, ReplyType DEF FailSnapshot
<1>3. TermPart' /\ leaderID' \in [Server -> Server \cup {Nil}]
  <2>1. AcceptLeader(s, m, 0) \/ AcceptLeader(s, m, 1)
    BY DEF FailSnapshot
  <2> QED
    BY <1>1, <2>1, AcceptLeaderType
<1>4. DataPart'
  <2>1. \/ UNCHANGED store
        \/ m.data # Nil /\ store' = [store EXCEPT ![s] = m.data]
    BY DEF FailSnapshot
  <2>2. UNCHANGED <<raftLog, snapshotData>> /\ DataPart
    BY TypeInvParts DEF FailSnapshot
  <2> QED
    BY <1>1, <2>1, <2>2 DEF DataPart
<1>5. OtherPart'
  BY <1>3 DEF FailSnapshot, OtherPart, TypeInv, TypeOK
<1>6. ApplyPart' /\ VotePart' /\ ClientPart' /\ CrashPart' /\ ElectionPart'
  BY Unchanged DEF FailSnapshot
<1> QED
  BY <1>2, <1>3, <1>4, <1>5, <1>6, TypeInvPartsPrimed

-----------------------------------------------------------------------------
(* Crashes. *)

LEMMA RebootTypeInv ==
    ASSUME TypeInv, NEW s \in Server, NEW md \in Meta, NEW rl \in Log, NEW kv \in Store,
           Reboot(s, md, rl, kv),
           votes' \subseteq votes, conflicted' \in BOOLEAN,
           NEW b, IsRpcBag(b), rpcs' = DropRepliesTo(s, b)
    PROVE  TypeInv'
<1>1. VotePart'
  BY DEF VotePart, TypeInv, TypeOK
<1>2. RpcPart'
  BY DropRepliesToType, RpcPartIsBag
<1>3. /\ TermPart' /\ DataPart' /\ ApplyPart' /\ ClientPart' /\ CrashPart'
      /\ ElectionPart' /\ leaderID' \in [Server -> Server \cup {Nil}]
  BY RebootType
<1>4. OtherPart'
  BY <1>3 DEF OtherPart
<1> QED
  BY <1>1, <1>2, <1>3, <1>4, TypeInvPartsPrimed

LEMMA RestartType ==
    ASSUME TypeInv, NEW s \in Server, Restart(s)
    PROVE  TypeInv'
  BY OnDisk, RebootTypeInv DEF Restart

LEMMA RestartInVoteType ==
    ASSUME TypeInv, NEW s \in Server, NEW m, RestartInVote(s, m)
    PROVE  TypeInv'
<1>1. m.term \in Term
  BY VoteTypes DEF RestartInVote, VoteRequest
<1>2. votes' \subseteq votes
  BY OnDisk DEF RestartInVote
<1> QED
  BY <1>1, <1>2, OnDisk, RebootTypeInv DEF RestartInVote

LEMMA RestartInAppendType ==
    ASSUME TypeInv, NEW s \in Server, NEW m, NEW k \in 0 .. MaxIndex, RestartInAppend(s, m, k)
    PROVE  TypeInv'
<1>1. /\ m.term \in Term /\ m.prevLogIndex \in 0 .. MaxIndex /\ m.entries \in Seq(Entry)
  BY AppendRequestFields DEF RestartInAppend
<1>2. MergeFirst(raftLog[s], m, k) \in Log
  <2>1. k \in Nat /\ k <= Len(m.entries) /\ raftLog[s] \in Log
    BY OnDisk DEF RestartInAppend
  <2> QED
    BY <1>1, <2>1, MergeFirstType
<1>3. votes' \subseteq votes /\ conflicted' \in BOOLEAN
  BY OnDisk DEF RestartInAppend
<1>4. /\ Reboot(s, MetaAfter(s, m), MergeFirst(raftLog[s], m, k), store[s])
      /\ rpcs' = DropRepliesTo(s, BagRemove(rpcs, m))
  BY DEF RestartInAppend
<1> QED
  BY <1>1, <1>2, <1>3, <1>4, OnDisk, RebootTypeInv

LEMMA RestartInInstallType ==
    ASSUME TypeInv, NEW s \in Server, NEW m, RestartInInstall(s, m)
    PROVE  TypeInv'
<1>1. m.term \in Term /\ m.data \in Store
  BY SnapshotRequestFields DEF RestartInInstall
<1>2. votes' \subseteq votes /\ conflicted' \in BOOLEAN
  BY OnDisk DEF RestartInInstall
<1>3. /\ Reboot(s, MetaAfter(s, m), raftLog[s], m.data)
      /\ rpcs' = DropRepliesTo(s, BagRemove(rpcs, m))
  BY DEF RestartInInstall
<1> QED
  BY <1>1, <1>2, <1>3, OnDisk, RebootTypeInv

LEMMA HandleSnapshotReplyType ==
    ASSUME TypeInv, NEW s \in Server, NEW m, HandleSnapshotReply(s, m)
    PROVE  TypeInv'
<1>1. m.term \in Term /\ m.from \in Server /\ m.snapshotIdx \in Index
  <2>1. m \in SnapshotReply
    BY RpcTypes DEF HandleSnapshotReply, Received
  <2> QED
    BY <2>1 DEF SnapshotReply
<1>2. UNCHANGED conflicted
  BY DEF HandleSnapshotReply
<1>3. rpcs' = BagRemove(rpcs, m) => RpcPart'
  BY BagRemoveType, RpcPartIsBag, TypeInvParts
<1>4. CASE /\ BecomeFollower(s, m.term, 0)
           /\ UNCHANGED <<raftLog, store, applyVars, crashVars, leaderID, pending,
                          snapshotData, election, req, elected, votes>>
           /\ rpcs' = BagRemove(rpcs, m)
  <2>1. TermPart'
    BY <1>1, <1>4, BecomeFollowerType
  <2>2. /\ DataPart' /\ ApplyPart' /\ VotePart' /\ ClientPart' /\ CrashPart'
        /\ ElectionPart' /\ OtherPart'
    BY <1>2, <1>4, Unchanged
  <2> QED
    BY <1>3, <1>4, <2>1, <2>2, TypeInvPartsPrimed
<1>5. CASE /\ UNCHANGED <<diskVars, termVars, applyVars, crashVars, leaderID, pending,
                          snapshotData, election, req, faults, elected, votes>>
           /\ rpcs' = BagRemove(rpcs, m)
  <2>1. /\ TermPart' /\ DataPart' /\ ApplyPart' /\ VotePart' /\ ClientPart' /\ CrashPart'
        /\ ElectionPart' /\ OtherPart'
    BY <1>2, <1>5, Unchanged DEF diskVars
  <2> QED
    BY <1>3, <1>5, <2>1, TypeInvPartsPrimed
<1>6. CASE /\ leader[s] # Nil
           /\ leader' = [leader EXCEPT ![s] =
                            [@ EXCEPT !.nextIndex[m.from]  = m.snapshotIdx + 1,
                                      !.matchIndex[m.from] = m.snapshotIdx]]
           /\ UNCHANGED <<diskVars, currentTerm, votedFor, state, applyVars, crashVars,
                          leaderID, pending, snapshotData, election, req, faults,
                          elected, votes>>
           /\ rpcs' = BagRemove(rpcs, m)
  <2> DEFINE ls == leader[s]
             noted == [ls EXCEPT !.nextIndex[m.from]  = m.snapshotIdx + 1,
                                 !.matchIndex[m.from] = m.snapshotIdx]
  <2>1. ls \in LeaderState /\ leader' = [leader EXCEPT ![s] = noted]
    BY <1>6 DEF TypeInv, TypeOK
  <2>2. noted \in LeaderState
    <3>1. m.snapshotIdx \in 0 .. MaxIndex /\ m.snapshotIdx + 1 \in 1 .. MaxIndex + 1
      BY <1>1, RaftLogAssumption DEF Index
    <3> HIDE DEF ls
    <3> QED
      BY ZenonT(30), <1>1, <2>1, <3>1 DEF LeaderState
  <2>3. noted # Nil
    BY ZenonT(30), <2>2, RaftAssumption DEF LeaderState
  <2> HIDE DEF noted
  <2>4. TermPart'
    <3>1. UNCHANGED <<meta, currentTerm, votedFor, state, faults>>
      BY <1>6 DEF diskVars
    <3>2. LeaderStateMatches' /\ TermsStarted'
      BY <1>6, <2>1, <2>3, <3>1 DEF TypeInv, TypeOK, LeaderStateMatches, TermsStarted
    <3> QED
      BY <2>1, <2>2, <3>1, <3>2 DEF TermPart, TypeInv, TypeOK
  <2>5. /\ DataPart' /\ ApplyPart' /\ VotePart' /\ ClientPart' /\ CrashPart'
        /\ ElectionPart' /\ OtherPart'
    BY <1>2, <1>6, Unchanged DEF diskVars
  <2> QED
    BY <1>3, <1>6, <2>4, <2>5, TypeInvPartsPrimed
<1>7. CASE /\ Reboot(s, meta[s], raftLog[s], store[s])
           /\ votes' = DropVotesTo(s)
           /\ rpcs'  = DropRepliesTo(s, rpcs)
  BY <1>2, <1>7, OnDisk, RebootTypeInv
<1> QED
  BY <1>4, <1>5, <1>6, <1>7 DEF HandleSnapshotReply

-----------------------------------------------------------------------------
(* Clients. *)

LEMMA ProposeType ==
    ASSUME TypeInv, NEW c \in Client, NEW s \in Server, Propose(c, s)
    PROVE  TypeInv'
<1> DEFINE i == NextSlot(raftLog[s])
           e == [term |-> currentTerm[s], cmd |-> c]
           waiting == [st |-> "waiting", node |-> s, index |-> i,
                       term |-> currentTerm[s], ok |-> FALSE]
<1>1. i \in Index /\ i \in 0 .. MaxIndex
  BY RaftLogAssumption DEF Propose, Index
<1> HIDE DEF i
<1>2. currentTerm[s] \in 1 .. MaxTerm /\ currentTerm[s] \in Term
  BY RaftLogAssumption DEF Propose, TypeInv, TypeOK, TermsStarted, Term, Follower, Leader
<1>3. /\ \/ /\ raftLog' = [raftLog EXCEPT ![s] = AppendEntry(raftLog[s], i, e)]
            /\ pending' = [pending EXCEPT ![s][i] = c]
            /\ req' = [req EXCEPT ![c] = waiting]
            /\ UNCHANGED faults
         \/ /\ DiskFaults(1)
            /\ req' = [req EXCEPT ![c].st = "failed"]
            /\ UNCHANGED <<raftLog, pending>>
      /\ UNCHANGED <<store, snapshotData, meta, termVars>>
  BY DEF Propose, i
<1>4. DataPart'
  <2>1. e \in Entry
    BY <1>2 DEF Entry
  <2>2. AppendEntry(raftLog[s], i, e) \in Log
    BY <1>1, <2>1, OnDisk, AppendEntryType
  <2>3. DataPart
    BY TypeInvParts
  <2> HIDE DEF e
  <2> QED
    BY <1>3, <2>2, <2>3 DEF DataPart
<1>5. ClientPart'
  <2>1. waiting \in Request
    BY <1>1, <1>2 DEF Request
  <2>2. req[c] \in Request /\ [req[c] EXCEPT !.st = "failed"] \in Request
    BY ZenonT(30), RequestUpdate DEF TypeInv, TypeOK
  <2>3. req' \in [Client -> Request]
    <3> HIDE DEF waiting
    <3> QED
      BY ZenonT(30), <1>3, <2>1, <2>2 DEF TypeInv, TypeOK
  <2>4. pending' \in [Server -> [Index -> Client \cup {Nil}]]
    <3>1. pending \in [Server -> [Index -> Client \cup {Nil}]]
      BY DEF TypeInv, TypeOK
    <3>2. [pending EXCEPT ![s][i] = c] \in [Server -> [Index -> Client \cup {Nil}]]
      BY <1>1, <3>1
    <3> QED
      BY <1>3, <3>1, <3>2
  <2> QED
    BY <2>3, <2>4 DEF ClientPart
<1>6. TermPart'
  <2>1. faults' \in 0 .. MaxFaults
    BY ZenonT(30), <1>3, DiskFaultsType DEF TypeInv, TypeOK
  <2> QED
    BY <1>3, <2>1, TypeInvParts DEF TermPart, termVars, LeaderStateMatches, TermsStarted
<1>7. ApplyPart' /\ VotePart' /\ RpcPart' /\ CrashPart' /\ ElectionPart' /\ OtherPart'
  BY Unchanged DEF Propose, netVars
<1> QED
  BY <1>4, <1>5, <1>6, <1>7, TypeInvPartsPrimed

LEMMA ProposeReturnsType ==
    ASSUME TypeInv, NEW c \in Client, ProposeReturns(c)
    PROVE  TypeInv'
<1>1. req[c] \in Request /\ [req[c] EXCEPT !.st = "done"] \in Request
  BY ZenonT(30), RequestUpdate DEF TypeInv, TypeOK
<1>2. ClientPart'
  BY <1>1 DEF ProposeReturns, ClientPart, TypeInv, TypeOK
<1>3. /\ TermPart' /\ DataPart' /\ ApplyPart' /\ VotePart' /\ RpcPart' /\ CrashPart'
      /\ ElectionPart' /\ OtherPart'
  BY Unchanged DEF ProposeReturns, diskVars, netVars
<1> QED
  BY <1>2, <1>3, TypeInvPartsPrimed

LEMMA ProposeTimeoutType ==
    ASSUME TypeInv, NEW c \in Client, ProposeTimeout(c)
    PROVE  TypeInv'
<1>1. req[c] \in Request /\ [req[c] EXCEPT !.st = "failed"] \in Request
  BY ZenonT(30), RequestUpdate DEF TypeInv, TypeOK
<1>2. req' \in [Client -> Request]
  BY <1>1 DEF ProposeTimeout, TypeInv, TypeOK
<1>3. pending' \in [Server -> [Index -> Client \cup {Nil}]]
  BY ZenonT(30) DEF ProposeTimeout, TypeInv, TypeOK
<1>4. ClientPart'
  BY <1>2, <1>3 DEF ClientPart
<1>5. /\ TermPart' /\ DataPart' /\ ApplyPart' /\ VotePart' /\ RpcPart' /\ CrashPart'
      /\ ElectionPart' /\ OtherPart'
  BY Unchanged DEF ProposeTimeout, diskVars, netVars
<1> QED
  BY <1>4, <1>5, TypeInvPartsPrimed

-----------------------------------------------------------------------------
(* The theorems. *)

LEMMA InitTypeInv == Init => TypeInv
<1> SUFFICES ASSUME Init PROVE TypeInv
  OBVIOUS
<1> USE DEF Init
<1>1. TermPart
  BY RaftLogAssumption, RaftAssumption
  DEF TermPart, Meta, Term, LeaderStateMatches, TermsStarted, Follower, Leader
<1>2. DataPart
  <2>1. EmptyStore \in Store
    BY DEF EmptyStore, Store
  <2> QED
    BY <2>1, EmptyLogType DEF DataPart
<1>3. ApplyPart
  BY RaftLogAssumption DEF ApplyPart
<1>4. VotePart /\ RpcPart
  BY DEF VotePart, RpcPart
<1>5. ClientPart
  <2>1. Idle \in Request
    BY RaftLogAssumption DEF Idle, Request, Term
  <2> QED
    BY <2>1 DEF ClientPart
<1>6. CrashPart
  BY RaftAssumption DEF CrashPart
<1>7. ElectionPart /\ OtherPart
  BY Zenon DEF ElectionPart, OtherPart
<1> QED
  BY <1>1, <1>2, <1>3, <1>4, <1>5, <1>6, <1>7, TypeInvParts

LEMMA StutterTypeInv ==
    ASSUME TypeInv, UNCHANGED vars
    PROVE  TypeInv'
  BY Unchanged, TypeInvPartsPrimed DEF vars, diskVars, netVars

LEMMA NextTypeInv ==
    ASSUME TypeInv, Next
    PROVE  TypeInv'
<1>1. CASE VoteStep
  BY <1>1, StartElectionType, LoseElectionType, WinElectionType, HandleRequestVoteType,
     HandleVoteType DEF VoteStep
<1>2. CASE \E s \in Server, p \in Server : ReplicateToPeer(s, p)
  BY <1>2, ReplicateToPeerType
<1>3. CASE AppendStep
  BY <1>3, RejectAppendType, MismatchAppendType, AcceptAppendType, FailAppendType,
     HandleAppendReplyType DEF AppendStep
<1>4. CASE SnapshotStep
  BY <1>4, ReadSnapshotType, TakeSnapshotType, RejectSnapshotType, InstallSnapshotType,
     FailSnapshotType, HandleSnapshotReplyType DEF SnapshotStep
<1>5. CASE \E m \in DOMAIN rpcs : LoseRpc(m)
  BY <1>5, LoseRpcType
<1>6. CASE ApplyStep
  BY <1>6, ApplyNothingType, ApplyMissingType, ApplyEntryType DEF ApplyStep
<1>7. CASE RestartStep
  BY <1>7, RestartType, RestartInVoteType, RestartInAppendType, RestartInInstallType
  DEF RestartStep
<1>8. CASE ClientStep
  BY <1>8, ProposeType, ProposeReturnsType, ProposeTimeoutType DEF ClientStep
<1> QED
  BY <1>1, <1>2, <1>3, <1>4, <1>5, <1>6, <1>7, <1>8 DEF Next

\* TypeInv is an invariant of the cluster.
THEOREM TypeInvariance == Spec => []TypeInv
<1>1. TypeInv /\ [Next]_vars => TypeInv'
  BY NextTypeInv, StutterTypeInv
<1> QED
  BY <1>1, InitTypeInv, PTL DEF Spec

\* Every variable has its type in every reachable state, whatever crashes, is
\* lost or fails to reach the disk: no handler of raft.go computes an index, a
\* term or a message outside the ranges of the declarations.
THEOREM TypeCorrect == Spec => []TypeOK
<1>1. TypeInv => TypeOK
  BY DEF TypeInv
<1> QED
  BY <1>1, TypeInvariance, PTL

\* n.leader is set exactly while the node leads, for any number of nodes: the
\* handlers that look at n.state before they use n.leader never use nil.
THEOREM LeaderStateCorrect == Spec => []LeaderStateMatches
<1>1. TypeInv => LeaderStateMatches
  BY DEF TypeInv
<1> QED
  BY <1>1, TypeInvariance, PTL

-----------------------------------------------------------------------------
(* Elections. *)

LEMMA NextElectionInv ==
    ASSUME TypeInv, TypeInv', ElectionInv, faults' = 0, [Next]_vars
    PROVE  ElectionInv' /\ KeepsVotes
<1>1. Quiet => ElectionInv' /\ KeepsVotes
  BY QuietKeepsInv, QuietKeepsVotes DEF Quiet
<1>2. CASE VoteStep
  BY <1>1, <1>2, StartElectionKeeps, LoseElectionQuiet, WinElectionKeeps,
     HandleRequestVoteKeeps, HandleVoteKeeps DEF VoteStep
<1>3. CASE \/ \E s \in Server, p \in Server : ReplicateToPeer(s, p)
           \/ AppendStep
           \/ \E m \in DOMAIN rpcs : LoseRpc(m)
  BY <1>1, <1>3, ReplicationQuiet
<1>4. CASE SnapshotStep \/ RestartStep
  <2>1. MetaIsCurrent
    BY DEF ElectionInv
  <2> QED
    BY <1>1, <1>4, <2>1, SnapshotQuiet, RestartQuiet
<1>5. CASE ApplyStep \/ ClientStep
  BY <1>1, <1>5, ApplyQuiet, ClientQuiet
<1>6. CASE UNCHANGED vars
  BY <1>1, <1>6, IdleQuiet DEF vars, diskVars, netVars
<1> QED
  BY <1>2, <1>3, <1>4, <1>5, <1>6 DEF Next

LEMMA InitElectionInv == Init => ElectionInv
<1> SUFFICES ASSUME Init PROVE ElectionInv
  OBVIOUS
<1>1. \A v, c \in Server, t \in Term : ~ Granted(v, t, c)
  BY RaftAssumption DEF Init, Granted
<1> QED
  BY <1>1 DEF Init, ElectionInv, VotesBind, MetaIsCurrent

\* Once a write has failed the invariant says nothing.
LEMMA StepElectionInv == TypeInv /\ TypeInv' /\ ElectionInv /\ [Next]_vars => ElectionInv'
<1>1. (faults # 0)' => ElectionInv'
  BY DEF ElectionInv, VotesBind, MetaIsCurrent
<1> QED
  BY <1>1, NextElectionInv

\* Wherever a vote is still known it binds its voter, and between handlers the
\* file has the term and the vote: for every set of nodes.
THEOREM VotesAreBinding == Spec => [](VotesBind /\ MetaIsCurrent)
<1>1. ElectionInv => VotesBind /\ MetaIsCurrent
  BY DEF ElectionInv
<1> QED
  BY <1>1, InitElectionInv, StepElectionInv, TypeInvariance, PTL DEF Spec

\* No node goes back to an earlier term or takes back a vote while every
\* SaveMeta reaches the disk.
THEOREM VotesAreKept == Spec => VotesKept
<1>1. TypeInv /\ TypeInv' /\ ElectionInv /\ [Next]_vars
        => [faults' = 0 => KeepsVotes]_vars
  BY NextElectionInv
<1>2. Spec => []ElectionInv
  BY InitElectionInv, StepElectionInv, TypeInvariance, PTL DEF Spec
<1>3. [faults' = 0 => KeepsVotes]_vars
        => [faults' = 0 => \A s \in Server :
              /\ currentTerm'[s] >= currentTerm[s]
              /\ currentTerm'[s] = currentTerm[s] /\ votedFor[s] # Nil
                    => votedFor'[s] = votedFor[s]]_vars
  BY DEF KeepsVotes
<1> QED
  BY <1>1, <1>2, <1>3, TypeInvariance, PTL DEF Spec, VotesKept

\* The quorum of startElection is a majority when the number of nodes is odd.
LEMMA QuorumsMeet ==
    ASSUME Cardinality(Server) % 2 = 1, NEW a \in Server, NEW b \in Server,
           NEW A \in SUBSET Server, NEW B \in SUBSET Server,
           Cardinality(A) >= ElectionQuorum(a), Cardinality(B) >= ElectionQuorum(b)
    PROVE  A \cap B # {}
<1> DEFINE n == Cardinality(Server)
<1>1. n \in Nat /\ Cardinality(A) \in Nat /\ Cardinality(B) \in Nat
  BY RaftAssumption, FS_Subset, FS_CardinalityType
<1>2. Cardinality(Peers(a)) = n - 1 /\ Cardinality(Peers(b)) = n - 1
  BY ZenonT(30), RaftAssumption, FS_RemoveElement DEF Peers
<1>3. 2 * ((n - 1) \div 2 + 1) > n
  <2> HIDE DEF n
  <2>1. n % 2 = 1
    BY DEF n
  <2> QED
    BY <1>1, <2>1
<1>4. Cardinality(A) + Cardinality(B) > n
  <2>1. Cardinality(A) >= (n - 1) \div 2 + 1 /\ Cardinality(B) >= (n - 1) \div 2 + 1
    BY <1>2 DEF ElectionQuorum
  <2> HIDE DEF n
  <2> QED
    BY <1>1, <1>3, <2>1
<1> QED
  BY <1>4, RaftAssumption, FS_MajoritiesIntersect

\* With an odd number of nodes no term has two leaders, whatever crashes, is
\* lost, late or handled twice, as long as every SaveMeta reaches the disk.
THEOREM ElectionsAreSafe ==
    ASSUME Cardinality(Server) % 2 = 1
    PROVE  Spec => []ElectionSafety
<1>1. TypeInv /\ VotesBind => ElectionSafety
  <2> SUFFICES ASSUME TypeInv, VotesBind, faults = 0, NEW a \in elected, NEW b \in elected,
                      a.term = b.term
               PROVE  a.leader = b.leader
    BY DEF ElectionSafety
  <2>1. /\ a.leader \in Server /\ b.leader \in Server /\ a.term \in Term
        /\ a.voters \in SUBSET Server /\ b.voters \in SUBSET Server
    BY DEF TypeInv, TypeOK
  <2>2. /\ Cardinality(a.voters) >= ElectionQuorum(a.leader)
        /\ Cardinality(b.voters) >= ElectionQuorum(b.leader)
    BY DEF VotesBind
  <2>3. PICK v \in a.voters \cap b.voters : TRUE
    BY <2>1, <2>2, QuorumsMeet
  <2>4. Granted(v, a.term, a.leader) /\ Granted(v, a.term, b.leader)
    BY <2>3 DEF Granted
  <2> QED
    BY <2>1, <2>3, <2>4 DEF VotesBind
<1> QED
  BY <1>1, TypeInvariance, VotesAreBinding, PTL

=============================================================================
