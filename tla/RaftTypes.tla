----------------------------- MODULE RaftTypes ------------------------------
(***************************************************************************)
(* The inductive invariant that carries the types of the cluster, what the *)
(* pieces shared by several handlers do to it, and the actions of an       *)
(* election.                                                               *)
(***************************************************************************)
EXTENDS Raft, RaftLogProofs

\* A node that has become candidate or leader is in a term of at least 1, so
\* the entries it appends have a term that GetTerm never gives for no entry.
TermsStarted == \A s \in Server : state[s] # Follower => currentTerm[s] >= 1

\* TypeOK is not inductive by itself: the no-op of becomeLeader and the entry of
\* Propose need TermsStarted, the uses of n.leader need LeaderStateMatches.
TypeInv == TypeOK /\ LeaderStateMatches /\ TermsStarted

(* The conjuncts of TypeInv, grouped by what the actions change together. *)
TermPart ==
    /\ meta \in [Server -> Meta]
    /\ currentTerm \in [Server -> Term]
    /\ votedFor \in [Server -> Server \cup {Nil}]
    /\ state \in [Server -> {Follower, Candidate, Leader}]
    /\ leader \in [Server -> LeaderState \cup {Nil}]
    /\ faults \in 0 .. MaxFaults
    /\ LeaderStateMatches
    /\ TermsStarted

DataPart ==
    /\ raftLog \in [Server -> Log]
    /\ store \in [Server -> Store]
    /\ snapshotData \in [Server -> Store \cup {Nil}]

ApplyPart ==
    /\ commitIndex \in [Server -> 0 .. MaxIndex]
    /\ lastApplied \in [Server -> 0 .. MaxIndex]
    /\ applyGo \in [Server -> Nat]
    /\ applying \in [Server -> BOOLEAN]
    /\ snapGo \in [Server -> SUBSET SnapshotRun]

VotePart == votes \subseteq VoteRequest \cup VoteReply

RpcPart ==
    /\ DOMAIN rpcs \subseteq RpcMessage
    /\ rpcs \in [DOMAIN rpcs -> Nat \ {0}]

ClientPart ==
    /\ pending \in [Server -> [Index -> Client \cup {Nil}]]
    /\ req \in [Client -> Request]

CrashPart ==
    /\ incarnation \in [Server -> Nat]
    /\ elections \in 0 .. MaxElections
    /\ restarts \in 0 .. MaxRestarts

ElectionPart ==
    /\ election \in [Server -> Election \cup {Nil}]
    /\ elected \subseteq [term : Term, leader : Server, voters : SUBSET Server]

OtherPart ==
    /\ leaderID \in [Server -> Server \cup {Nil}]
    /\ conflicted \in BOOLEAN

LEMMA TypeInvParts ==
    TypeInv <=> /\ TermPart /\ DataPart /\ ApplyPart /\ VotePart /\ RpcPart
                /\ ClientPart /\ CrashPart /\ ElectionPart /\ OtherPart
  BY DEF TypeInv, TypeOK, TermPart, DataPart, ApplyPart, VotePart, RpcPart,
         ClientPart, CrashPart, ElectionPart, OtherPart

LEMMA TypeInvPartsPrimed ==
    TypeInv' <=> /\ TermPart' /\ DataPart' /\ ApplyPart' /\ VotePart' /\ RpcPart'
                 /\ ClientPart' /\ CrashPart' /\ ElectionPart' /\ OtherPart'
  BY DEF TypeInv, TypeOK, TermPart, DataPart, ApplyPart, VotePart, RpcPart,
         ClientPart, CrashPart, ElectionPart, OtherPart

-----------------------------------------------------------------------------
(* What the pieces shared by several actions do to the types. *)

LEMMA DiskFaultsType ==
    ASSUME TypeInv, NEW n \in Nat, DiskFaults(n)
    PROVE  faults' \in 0 .. MaxFaults
  BY RaftAssumption DEF TypeInv, TypeOK, DiskFaults

LEMMA SaveMetaType ==
    ASSUME TypeInv, NEW s \in Server, NEW md \in Meta, NEW earlier \in SUBSET Meta,
           NEW others \in Nat, SaveMeta(s, md, earlier, others)
    PROVE  meta' \in [Server -> Meta] /\ faults' \in 0 .. MaxFaults
<1>1. PICK d \in {md, meta[s]} \cup earlier :
        /\ meta' = [meta EXCEPT ![s] = d]
        /\ DiskFaults(others + IF d = md THEN 0 ELSE 1)
  BY Zenon DEF SaveMeta
<1>2. d \in Meta
  BY <1>1 DEF TypeInv, TypeOK
<1>3. (others + IF d = md THEN 0 ELSE 1) \in Nat
  OBVIOUS
<1> QED
  BY <1>1, <1>2, <1>3, DiskFaultsType DEF TypeInv, TypeOK

LEMMA BecomeFollowerType ==
    ASSUME TypeInv, NEW s \in Server, NEW t \in Term, NEW others \in Nat,
           BecomeFollower(s, t, others)
    PROVE  TermPart'
<1>1. [term |-> t, votedFor |-> Nil] \in Meta
  BY DEF Meta
<1>2. meta' \in [Server -> Meta] /\ faults' \in 0 .. MaxFaults
  BY <1>1, SaveMetaType DEF BecomeFollower
<1>3. LeaderStateMatches' /\ TermsStarted'
  BY DEF BecomeFollower, TypeInv, TypeOK, LeaderStateMatches, TermsStarted, Follower, Leader
<1> QED
  BY Zenon, <1>2, <1>3 DEF BecomeFollower, TermPart, TypeInv, TypeOK

LEMMA AcceptLeaderType ==
    ASSUME TypeInv, NEW s \in Server, NEW m, m.term \in Term, m.from \in Server,
           NEW others \in Nat, AcceptLeader(s, m, others)
    PROVE  TermPart' /\ leaderID' \in [Server -> Server \cup {Nil}]
<1>1. leaderID' \in [Server -> Server \cup {Nil}]
  BY DEF AcceptLeader, TypeInv, TypeOK
<1>2. CASE m.term > currentTerm[s]
  BY <1>1, <1>2, BecomeFollowerType DEF AcceptLeader
<1>3. CASE ~ (m.term > currentTerm[s])
  <2>1. UNCHANGED <<termVars, meta>> /\ DiskFaults(others)
    BY <1>3 DEF AcceptLeader
  <2>2. TermPart
    BY TypeInvParts
  <2> QED
    BY <1>1, <2>1, <2>2, DiskFaultsType
    DEF TermPart, termVars, LeaderStateMatches, TermsStarted
<1> QED
  BY <1>2, <1>3

\* A bag of RPCs stays one when an RPC is added or taken away.
IsRpcBag(b) == DOMAIN b \subseteq RpcMessage /\ b \in [DOMAIN b -> Nat \ {0}]

LEMMA BagAddType ==
    ASSUME NEW b, IsRpcBag(b), NEW m \in RpcMessage
    PROVE  IsRpcBag(BagAdd(b, m))
<1>1. CASE m \in DOMAIN b
  BY <1>1 DEF BagAdd, IsRpcBag
<1>2. CASE m \notin DOMAIN b
  <2>1. BagAdd(b, m) = [e \in DOMAIN b \cup {m} |-> IF e = m THEN 1 ELSE b[e]]
    BY <1>2 DEF BagAdd
  <2> QED
    BY <2>1 DEF IsRpcBag
<1> QED
  BY <1>1, <1>2

LEMMA BagRemoveType ==
    ASSUME NEW b, IsRpcBag(b), NEW m
    PROVE  IsRpcBag(BagRemove(b, m))
<1>1. CASE m \in DOMAIN b /\ b[m] = 1
  <2>1. BagRemove(b, m) = [e \in DOMAIN b \ {m} |-> b[e]]
    BY <1>1 DEF BagRemove
  <2> QED
    BY <2>1 DEF IsRpcBag
<1>2. CASE m \in DOMAIN b /\ b[m] # 1
  <2>1. BagRemove(b, m) = [b EXCEPT ![m] = @ - 1]
    BY <1>2 DEF BagRemove
  <2>2. b[m] - 1 \in Nat \ {0}
    BY <1>2 DEF IsRpcBag
  <2> QED
    BY Zenon, <2>1, <2>2 DEF IsRpcBag
<1>3. CASE m \notin DOMAIN b
  BY <1>3 DEF BagRemove
<1> QED
  BY <1>1, <1>2, <1>3

LEMMA RpcPartIsBag == (RpcPart <=> IsRpcBag(rpcs)) /\ (RpcPart' <=> IsRpcBag(rpcs'))
  BY DEF RpcPart, IsRpcBag

LEMMA ReplyType ==
    ASSUME TypeInv, NEW m, NEW resp \in RpcMessage, Reply(m, resp)
    PROVE  RpcPart'
<1>1. IsRpcBag(BagRemove(rpcs, m))
  BY TypeInvParts, RpcPartIsBag, BagRemoveType
<1>2. IsRpcBag(BagAdd(BagRemove(rpcs, m), resp))
  BY <1>1, BagAddType
<1> QED
  BY <1>1, <1>2, RpcPartIsBag DEF Reply

LEMMA DropRepliesToType ==
    ASSUME NEW b, IsRpcBag(b), NEW s
    PROVE  IsRpcBag(DropRepliesTo(s, b))
  BY DEF DropRepliesTo, IsRpcBag

\* The messages in flight, by the type that their handlers look at.
LEMMA RpcTypes ==
    ASSUME TypeInv, NEW m \in DOMAIN rpcs
    PROVE  /\ m.type = "AppendEntries" => m \in AppendRequest
           /\ m.type = "AppendReply" => m \in AppendReply
           /\ m.type = "InstallSnapshot" => m \in SnapshotRequest
           /\ m.type = "SnapshotReply" => m \in SnapshotReply
<1>1. m \in AppendRequest \cup AppendReply \cup SnapshotRequest \cup SnapshotReply
  BY DEF TypeInv, TypeOK, RpcMessage
<1>2. m \in AppendRequest => m.type = "AppendEntries"
  BY DEF AppendRequest
<1>3. m \in AppendReply => m.type = "AppendReply"
  BY DEF AppendReply
<1>4. m \in SnapshotRequest => m.type = "InstallSnapshot"
  BY DEF SnapshotRequest
<1>5. m \in SnapshotReply => m.type = "SnapshotReply"
  BY DEF SnapshotReply
<1> QED
  BY <1>1, <1>2, <1>3, <1>4, <1>5

LEMMA VoteTypes ==
    ASSUME TypeInv, NEW m \in votes
    PROVE  /\ m.type = "RequestVote" => m \in VoteRequest
           /\ m.type = "Vote" => m \in VoteReply
  BY DEF TypeInv, TypeOK, VoteRequest, VoteReply

LEMMA AppendRequestFields ==
    ASSUME TypeInv, NEW s, NEW m, Received(s, m, "AppendEntries")
    PROVE  /\ m.term \in Term /\ m.from \in Server /\ m.prevLogIndex \in 0 .. MaxIndex
           /\ m.entries \in Seq(Entry) /\ m.leaderCommit \in 0 .. MaxIndex
<1>1. m \in AppendRequest
  BY RpcTypes DEF Received
<1> QED
  BY <1>1 DEF AppendRequest

LEMMA SnapshotRequestFields ==
    ASSUME TypeInv, NEW s, NEW m, Received(s, m, "InstallSnapshot")
    PROVE  /\ m.term \in Term /\ m.from \in Server /\ m.lastIncludedIndex \in Index
           /\ m.lastIncludedIndex \in 0 .. MaxIndex
           /\ m.lastIncludedTerm \in Term /\ m.data \in Store \cup {Nil}
<1>1. m \in SnapshotRequest
  BY RpcTypes DEF Received
<1> QED
  BY <1>1, RaftLogAssumption DEF SnapshotRequest, Index

LEMMA RequestUpdate ==
    ASSUME NEW r \in Request, NEW ok \in BOOLEAN,
           NEW st \in {"idle", "waiting", "notified", "done", "failed"}
    PROVE  /\ [r EXCEPT !.st = st] \in Request
           /\ [r EXCEPT !.st = st, !.ok = ok] \in Request
  BY ZenonT(30) DEF Request

\* NewRaftNode starts from the files: everything but the network is set.
LEMMA RebootType ==
    ASSUME TypeInv, NEW s \in Server, NEW md \in Meta, NEW rl \in Log, NEW kv \in Store,
           Reboot(s, md, rl, kv)
    PROVE  /\ TermPart' /\ DataPart' /\ ApplyPart' /\ ClientPart' /\ CrashPart'
           /\ ElectionPart' /\ leaderID' \in [Server -> Server \cup {Nil}]
<1> USE DEF Reboot, TypeInv, TypeOK
<1>1. TermPart'
  BY DEF TermPart, Meta, LeaderStateMatches, TermsStarted, Follower, Leader
<1>2. DataPart'
  <2>1. Reopen(rl) \in Log
    BY ReopenType
  <2>2. (IF DurableStore THEN kv ELSE EmptyStore) \in Store
    BY DEF EmptyStore, Store
  <2> QED
    BY <2>1, <2>2 DEF DataPart
<1>3. ApplyPart'
  BY RaftLogAssumption DEF ApplyPart
<1>4. ClientPart'
  <2>1. pending' \in [Server -> [Index -> Client \cup {Nil}]]
    OBVIOUS
  <2>2. ASSUME NEW c \in Client PROVE [req[c] EXCEPT !.st = "failed"] \in Request
    BY ZenonT(30), RequestUpdate
  <2> QED
    BY <2>1, <2>2 DEF ClientPart
<1>5. CrashPart'
  BY RaftAssumption DEF CrashPart
<1>6. ElectionPart'
  BY DEF ElectionPart
<1> QED
  BY <1>1, <1>2, <1>3, <1>4, <1>5, <1>6

\* What a step leaves alone keeps its type.
LEMMA Unchanged ==
    ASSUME TypeInv
    PROVE  /\ UNCHANGED <<termVars, meta, faults>> => TermPart'
           /\ UNCHANGED <<raftLog, store, snapshotData>> => DataPart'
           /\ UNCHANGED applyVars => ApplyPart'
           /\ UNCHANGED votes => VotePart'
           /\ UNCHANGED rpcs => RpcPart'
           /\ UNCHANGED <<pending, req>> => ClientPart'
           /\ UNCHANGED crashVars => CrashPart'
           /\ UNCHANGED <<election, elected>> => ElectionPart'
           /\ UNCHANGED <<leaderID, conflicted>> => OtherPart'
<1>1. UNCHANGED <<termVars, meta, faults>> => TermPart'
  BY TypeInvParts DEF TermPart, termVars, LeaderStateMatches, TermsStarted
<1>2. UNCHANGED <<raftLog, store, snapshotData>> => DataPart'
  BY TypeInvParts DEF DataPart
<1>3. UNCHANGED applyVars => ApplyPart'
  BY TypeInvParts DEF ApplyPart, applyVars
<1>4. UNCHANGED votes => VotePart'
  BY TypeInvParts DEF VotePart
<1>5. UNCHANGED rpcs => RpcPart'
  BY TypeInvParts DEF RpcPart
<1>6. UNCHANGED <<pending, req>> => ClientPart'
  BY TypeInvParts DEF ClientPart
<1>7. UNCHANGED crashVars => CrashPart'
  BY TypeInvParts DEF CrashPart, crashVars
<1>8. UNCHANGED <<election, elected>> => ElectionPart'
  BY TypeInvParts DEF ElectionPart
<1>9. UNCHANGED <<leaderID, conflicted>> => OtherPart'
  BY TypeInvParts DEF OtherPart
<1> QED
  BY <1>1, <1>2, <1>3, <1>4, <1>5, <1>6, <1>7, <1>8, <1>9

LEMMA DropVotesToType ==
    ASSUME TypeInv, NEW s
    PROVE  DropVotesTo(s) \subseteq VoteRequest \cup VoteReply
  BY DEF DropVotesTo, TypeInv, TypeOK

\* What a restart finds, and what is left of the network.
LEMMA OnDisk ==
    ASSUME TypeInv, NEW s \in Server
    PROVE  /\ meta[s] \in Meta /\ raftLog[s] \in Log /\ store[s] \in Store
           /\ IsRpcBag(rpcs) /\ DropVotesTo(s) \subseteq votes /\ conflicted \in BOOLEAN
           /\ \A m : m.term \in Term => MetaAfter(s, m) \in Meta
           /\ \A m : IsRpcBag(BagRemove(rpcs, m))
<1>1. IsRpcBag(rpcs)
  BY TypeInvParts, RpcPartIsBag
<1>2. /\ meta[s] \in Meta /\ raftLog[s] \in Log /\ store[s] \in Store
      /\ conflicted \in BOOLEAN
  BY DEF TypeInv, TypeOK
<1>3. \A m : m.term \in Term => MetaAfter(s, m) \in Meta
  BY <1>2 DEF MetaAfter, Meta
<1>4. \A m : IsRpcBag(BagRemove(rpcs, m))
  BY <1>1, BagRemoveType
<1>5. DropVotesTo(s) \subseteq votes
  BY DEF DropVotesTo
<1> QED
  BY <1>1, <1>2, <1>3, <1>4, <1>5

-----------------------------------------------------------------------------
(* Elections. *)

LEMMA StartElectionType ==
    ASSUME TypeInv, NEW s \in Server, StartElection(s)
    PROVE  TypeInv'
<1> DEFINE t == currentTerm[s] + 1
           asked == {[type |-> "RequestVote", term |-> t, from |-> s, to |-> p,
                      lastLogIndex |-> LastIndex(raftLog[s]),
                      lastLogTerm |-> LastTerm(raftLog[s]),
                      inc |-> incarnation[s]] : p \in Peers(s)}
<1>1. t \in Term /\ t >= 1 /\ raftLog[s] \in Log /\ incarnation[s] \in Nat
  BY RaftLogAssumption DEF StartElection, TypeInv, TypeOK, Term
<1>2. TermPart'
  <2>1. [term |-> t, votedFor |-> s] \in Meta
    BY <1>1 DEF Meta
  <2>2. meta' \in [Server -> Meta] /\ faults' \in 0 .. MaxFaults
    BY ZenonT(30), <2>1, SaveMetaType DEF StartElection
  <2>3. LeaderStateMatches' /\ TermsStarted'
    BY <1>1 DEF StartElection, TypeInv, TypeOK, LeaderStateMatches, TermsStarted,
                Follower, Candidate, Leader
  <2> QED
    BY Zenon, <1>1, <2>2, <2>3 DEF StartElection, TermPart, TypeInv, TypeOK
<1>3. VotePart'
  <2>1. LastIndex(raftLog[s]) \in 0 .. MaxIndex /\ LastTerm(raftLog[s]) \in Term
    BY <1>1, LastIndexType, LastTermType
  <2>2. asked \subseteq VoteRequest
    BY <1>1, <2>1 DEF VoteRequest, Peers
  <2> QED
    BY <2>2 DEF StartElection, VotePart, TypeInv, TypeOK
<1>4. ElectionPart'
  <2>1. [term |-> t, granted |-> {}] \in Election
    BY <1>1 DEF Election
  <2> QED
    BY <2>1 DEF StartElection, ElectionPart, TypeInv, TypeOK
<1>5. CrashPart'
  BY RaftAssumption DEF StartElection, CrashPart, TypeInv, TypeOK
<1>6. DataPart' /\ ApplyPart' /\ RpcPart' /\ ClientPart' /\ OtherPart'
  BY Unchanged DEF StartElection
<1> QED
  BY <1>2, <1>3, <1>4, <1>5, <1>6, TypeInvPartsPrimed

LEMMA HandleRequestVoteType ==
    ASSUME TypeInv, NEW s \in Server, NEW m, HandleRequestVote(s, m)
    PROVE  TypeInv'
<1> DEFINE newer == m.term > currentTerm[s]
           term  == IF newer THEN m.term ELSE currentTerm[s]
           voted == IF newer THEN Nil ELSE votedFor[s]
           grant == /\ m.term = term
                    /\ CanVote(voted, m.from)
                    /\ UpToDate(m, raftLog[s])
           vote  == IF grant THEN m.from ELSE voted
           reply == [type |-> "Vote", term |-> term, voteGranted |-> grant,
                     from |-> s, to |-> m.from, round |-> m.term]
<1>1. m \in VoteRequest
  BY VoteTypes DEF HandleRequestVote
<1>2. m.term \in Term /\ m.from \in Server
  BY <1>1 DEF VoteRequest
<1>3. term \in Term /\ vote \in Server \cup {Nil} /\ grant \in BOOLEAN
  BY <1>2 DEF TypeInv, TypeOK
<1>4. TermPart'
  <2>1. [term |-> term, votedFor |-> vote] \in Meta
    BY <1>3 DEF Meta
  <2>2. (IF newer THEN {[term |-> term, votedFor |-> Nil]} ELSE {}) \in SUBSET Meta
    BY <1>3 DEF Meta
  <2>5. meta' \in [Server -> Meta] /\ faults' \in 0 .. MaxFaults
    <3>1. \/ SaveMeta(s, [term |-> term, votedFor |-> vote],
                      IF newer THEN {[term |-> term, votedFor |-> Nil]} ELSE {}, 0)
          \/ UNCHANGED <<meta, faults>>
      BY DEF HandleRequestVote
    <3>2. CASE UNCHANGED <<meta, faults>>
      BY <3>2 DEF TypeInv, TypeOK
    <3> HIDE DEF newer, term, vote
    <3>3. CASE SaveMeta(s, [term |-> term, votedFor |-> vote],
                        IF newer THEN {[term |-> term, votedFor |-> Nil]} ELSE {}, 0)
      BY <2>1, <2>2, <3>3, SaveMetaType
    <3> QED
      BY <3>1, <3>2, <3>3
  <2>6. /\ currentTerm' = [currentTerm EXCEPT ![s] = term]
        /\ votedFor'    = [votedFor EXCEPT ![s] = vote]
        /\ state'       = [state EXCEPT ![s] = IF newer THEN Follower ELSE @]
        /\ leader'      = [leader EXCEPT ![s] = IF newer THEN Nil ELSE @]
    BY DEF HandleRequestVote
  <2> HIDE DEF grant, vote
  <2>7. LeaderStateMatches' /\ TermsStarted'
    BY <1>2, <2>6 DEF TypeInv, TypeOK, LeaderStateMatches, TermsStarted, Follower, Leader
  <2> QED
    BY <1>3, <2>5, <2>6, <2>7 DEF TermPart, TypeInv, TypeOK
<1>5. VotePart'
  <2>1. reply \in VoteReply
    BY <1>2, <1>3 DEF VoteReply
  <2>2. votes' \subseteq votes \cup {reply}
    BY DEF HandleRequestVote
  <2> QED
    BY ZenonT(30), <2>1, <2>2 DEF VotePart, TypeInv, TypeOK
<1>6. /\ DataPart' /\ ApplyPart' /\ RpcPart' /\ ClientPart' /\ CrashPart'
      /\ ElectionPart' /\ OtherPart'
  BY Unchanged DEF HandleRequestVote
<1> QED
  BY <1>4, <1>5, <1>6, TypeInvPartsPrimed

LEMMA HandleVoteType ==
    ASSUME TypeInv, NEW s \in Server, NEW m, HandleVote(s, m)
    PROVE  TypeInv'
<1>1. m \in VoteReply
  BY VoteTypes DEF HandleVote
<1>2. m.term \in Term /\ m.from \in Server
  BY <1>1 DEF VoteReply
<1>3. VotePart'
  BY DEF HandleVote, VotePart, TypeInv, TypeOK
<1>4. TermPart' /\ ElectionPart'
  <2>1. CASE BecomeFollower(s, m.term, 0) /\ UNCHANGED election
    BY <1>2, <2>1, BecomeFollowerType, Unchanged DEF HandleVote
  <2>2. CASE /\ election' = [election EXCEPT ![s].granted =
                                IF m.voteGranted THEN @ \cup {m.from} ELSE @]
             /\ UNCHANGED <<termVars, meta, faults>>
    <3>1. election[s] \in Election
      BY DEF HandleVote, TypeInv, TypeOK
    <3>2. [election[s] EXCEPT !.granted = IF m.voteGranted THEN @ \cup {m.from} ELSE @]
              \in Election
      BY <1>2, <3>1 DEF Election
    <3> QED
      BY <2>2, <3>2, Unchanged DEF HandleVote, ElectionPart, TypeInv, TypeOK
  <2> QED
    BY <2>1, <2>2 DEF HandleVote
<1>5. DataPart' /\ ApplyPart' /\ RpcPart' /\ ClientPart' /\ CrashPart' /\ OtherPart'
  BY Unchanged DEF HandleVote
<1> QED
  BY <1>3, <1>4, <1>5, TypeInvPartsPrimed

LEMMA LoseElectionType ==
    ASSUME TypeInv, NEW s \in Server, LoseElection(s)
    PROVE  TypeInv'
<1>1. ElectionPart'
  BY DEF LoseElection, EndElection, ElectionPart, TypeInv, TypeOK
<1>2. VotePart'
  BY DropVotesToType DEF LoseElection, EndElection, VotePart
<1>3. /\ TermPart' /\ DataPart' /\ ApplyPart' /\ RpcPart' /\ ClientPart' /\ CrashPart'
      /\ OtherPart'
  BY Unchanged DEF LoseElection, diskVars
<1> QED
  BY <1>1, <1>2, <1>3, TypeInvPartsPrimed

LEMMA WinElectionType ==
    ASSUME TypeInv, NEW s \in Server, WinElection(s)
    PROVE  TypeInv'
<1> DEFINE last == LastIndex(raftLog[s])
           noop == [term |-> currentTerm[s], cmd |-> Noop]
<1>1. raftLog[s] \in Log /\ last \in 0 .. MaxIndex - 1
  <2>1. raftLog[s] \in Log
    BY DEF TypeInv, TypeOK
  <2>2. last < MaxIndex
    BY DEF WinElection
  <2> QED
    BY <2>1, <2>2, LastIndexType, RaftLogAssumption
<1> HIDE DEF last
<1>2. currentTerm[s] \in 1 .. MaxTerm /\ election[s] \in Election
  BY RaftLogAssumption
  DEF WinElection, EndElection, TypeInv, TypeOK, TermsStarted, Term, Follower, Candidate
<1>3. TermPart'
  <2>1. NewLeaderState(last) \in LeaderState
    BY <1>1, RaftLogAssumption DEF NewLeaderState, LeaderState
  <2>2. NewLeaderState(last) # Nil
    BY <2>1, RaftAssumption DEF LeaderState
  <2>3. leader' = [leader EXCEPT ![s] = NewLeaderState(last)]
    BY DEF WinElection, last
  <2>4. faults' \in 0 .. MaxFaults
    BY ZenonT(30), DiskFaultsType DEF WinElection, TypeInv, TypeOK
  <2>5. LeaderStateMatches' /\ TermsStarted'
    BY <1>2, <2>2, <2>3
    DEF WinElection, TypeInv, TypeOK, LeaderStateMatches, TermsStarted, Follower, Leader
  <2> QED
    BY <2>1, <2>3, <2>4, <2>5 DEF WinElection, TermPart, TypeInv, TypeOK
<1>4. DataPart'
  <2>1. noop \in Entry
    BY <1>2 DEF Entry
  <2>2. AppendEntry(raftLog[s], last + 1, noop) \in Log
    <3>1. last + 1 \in Index
      BY <1>1, RaftLogAssumption DEF Index
    <3> QED
      BY <1>1, <2>1, <3>1, AppendEntryType
  <2>3. raftLog' \in {raftLog, [raftLog EXCEPT ![s] = AppendEntry(raftLog[s], last + 1, noop)]}
    BY DEF WinElection, last
  <2>4. UNCHANGED <<store, snapshotData>> /\ DataPart
    BY TypeInvParts DEF WinElection
  <2> QED
    BY <2>2, <2>3, <2>4 DEF DataPart
<1>5. ElectionPart' /\ VotePart'
  <2>1. VotePart'
    BY ZenonT(30), DropVotesToType DEF WinElection, EndElection, VotePart
  <2>2. [term |-> currentTerm[s], leader |-> s, voters |-> election[s].granted \cup {s}]
            \in [term : Term, leader : Server, voters : SUBSET Server]
    BY <1>2 DEF Election, TypeInv, TypeOK
  <2> QED
    BY <2>1, <2>2 DEF WinElection, EndElection, ElectionPart, TypeInv, TypeOK
<1>6. OtherPart'
  BY DEF WinElection, OtherPart, TypeInv, TypeOK
<1>7. ApplyPart' /\ RpcPart' /\ ClientPart' /\ CrashPart'
  BY Unchanged DEF WinElection
<1> QED
  BY <1>3, <1>4, <1>5, <1>6, <1>7, TypeInvPartsPrimed

=============================================================================
