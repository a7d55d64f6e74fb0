-------------------------------- MODULE Raft --------------------------------
(***************************************************************************)
(* A cluster of RaftNodes (internal/consensus/raft.go, state.go), each     *)
(* with its log, its key-value store and its goroutines, exchanging RPCs.  *)
(*                                                                         *)
(* Every handler runs under the node's mutex, so it is one action.  What   *)
(* the mutex does not cover is split: an election between its lock         *)
(* regions, an RPC into request, handling and reply, applyCommitted entry  *)
(* by entry (takeSnapshot reads the store without the mutex), takeSnapshot *)
(* into its read and its compaction.                                       *)
(***************************************************************************)
EXTENDS RaftLog, KVStore, BagsExt

CONSTANTS
    Server,             \* the nodes of the cluster
    Nil,                \* no node, no election, no leader state, no snapshot
    CmdOf,              \* the command of each client request
    DurableStore,       \* TRUE for the bolt engine, FALSE for the memory engine
    SnapshotThreshold,  \* cfg.Raft.SnapshotThreshold
    MaxElections,       \* bound on elections started
    MaxRestarts,        \* bound on crashes of nodes
    MaxFaults,          \* bound on failing disk writes
    MaxRpcs             \* bound on replication RPCs in flight

ASSUME RaftAssumption ==
    /\ IsFiniteSet(Server)
    /\ Nil \notin Server \cup Client \cup Store
    /\ Nil \notin [nextIndex  : [Server -> 1 .. MaxIndex + 1],
                matchIndex : [Server -> 0 .. MaxIndex]]
    /\ CmdOf \in [Client -> Command]
    /\ DurableStore \in BOOLEAN
    /\ SnapshotThreshold \in Nat \ {0}
    /\ {MaxElections, MaxRestarts, MaxFaults, MaxRpcs} \subseteq Nat

VARIABLES
    \* On disk: raft.db and, for the bolt engine, the store.
    raftLog,        \* the log of each node
    meta,           \* the term and vote that SaveMeta last wrote
    store,          \* the key-value state machine
    \* Fields of RaftNode that a restart loses.
    currentTerm, votedFor, state, commitIndex, lastApplied, leaderID,
    leader,         \* leaderState, or Nil
    pending,        \* log index -> the request whose Propose waits for it, or Nil
    snapshotData,   \* the last snapshot taken or installed, or Nil
    \* Goroutines of each node.
    election,       \* the startElection under way, or Nil
    applyGo,        \* how many applyCommitted goroutines wait for the mutex
    applying,       \* an applyCommitted is in its loop and holds the mutex
    snapGo,         \* the takeSnapshot goroutines
    incarnation,    \* which life of the process this is
    \* The network: RequestVote RPCs (each is sent once) and replication RPCs.
    votes,
    rpcs,
    \* The clients of Propose.
    req,
    \* Budgets, and history that no action reads.
    elections, restarts, faults,
    elected,        \* every election win: term, leader, voters
    conflicted      \* some follower has truncated a conflicting suffix

diskVars   == <<raftLog, meta, store>>
termVars   == <<currentTerm, votedFor, state, leader>>
applyVars  == <<commitIndex, lastApplied, applyGo, applying, snapGo>>
netVars    == <<votes, rpcs>>
crashVars  == <<incarnation, restarts, elections>>
vars == <<diskVars, termVars, applyVars, netVars, crashVars, leaderID, pending,
          snapshotData, election, req, faults, elected, conflicted>>

Peers(s) == Server \ {s}

-----------------------------------------------------------------------------
(* Types. *)

Follower  == "Follower"
Candidate == "Candidate"
Leader    == "Leader"

Meta == [term : Term, votedFor : Server \cup {Nil}]

LeaderState == [nextIndex  : [Server -> 1 .. MaxIndex + 1],
                matchIndex : [Server -> 0 .. MaxIndex]]

\* A startElection in progress: its term and the peers whose vote it has.
Election == [term : Term, granted : SUBSET Server]

\* A takeSnapshot goroutine; data is Nil until it has read the store.
SnapshotRun == [index : Index, term : Term, data : Store \cup {Nil}]

VoteRequest == [type : {"RequestVote"}, term : Term, from : Server, to : Server,
                lastLogIndex : 0 .. MaxIndex, lastLogTerm : Term, inc : Nat]

VoteReply == [type : {"Vote"}, term : Term, voteGranted : BOOLEAN, from : Server,
              to : Server, round : Term]

AppendRequest == [type : {"AppendEntries"}, term : Term, from : Server, to : Server,
                  prevLogIndex : 0 .. MaxIndex, prevLogTerm : Term,
                  entries : Seq(Entry), leaderCommit : 0 .. MaxIndex, inc : Nat]

AppendReply == [type : {"AppendReply"}, term : Term, success : BOOLEAN,
                matchIndex : 0 .. MaxIndex, conflictIndex : 0 .. MaxIndex + 1,
                from : Server, to : Server]

SnapshotRequest == [type : {"InstallSnapshot"}, term : Term, from : Server,
                    to : Server, lastIncludedIndex : Index,
                    lastIncludedTerm : Term, data : Store \cup {Nil}, inc : Nat]

\* The sender keeps snapshotIdx in the goroutine; here the reply carries it.
SnapshotReply == [type : {"SnapshotReply"}, term : Term, success : BOOLEAN,
                  snapshotIdx : Index, from : Server, to : Server]

RpcMessage == AppendRequest \cup AppendReply \cup SnapshotRequest \cup SnapshotReply

\* A client request: where Propose put it, and how it went.
Request == [st : {"idle", "waiting", "notified", "done", "failed"},
            node : Server \cup {Nil}, index : 0 .. MaxIndex, term : Term,
            ok : BOOLEAN]

Idle == [st |-> "idle", node |-> Nil, index |-> 0, term |-> 0, ok |-> FALSE]

-----------------------------------------------------------------------------
Init ==
    /\ raftLog      = [s \in Server |-> EmptyLog]
    /\ meta         = [s \in Server |-> [term |-> 0, votedFor |-> Nil]]
    /\ store        = [s \in Server |-> EmptyStore]
    /\ currentTerm  = [s \in Server |-> 0]
    /\ votedFor     = [s \in Server |-> Nil]
    /\ state        = [s \in Server |-> Follower]
    /\ commitIndex  = [s \in Server |-> 0]
    /\ lastApplied  = [s \in Server |-> 0]
    /\ leaderID     = [s \in Server |-> Nil]
    /\ leader       = [s \in Server |-> Nil]
    /\ pending      = [s \in Server |-> [i \in Index |-> Nil]]
    /\ snapshotData = [s \in Server |-> Nil]
    /\ election     = [s \in Server |-> Nil]
    /\ applyGo      = [s \in Server |-> 0]
    /\ applying     = [s \in Server |-> FALSE]
    /\ snapGo       = [s \in Server |-> {}]
    /\ incarnation  = [s \in Server |-> 0]
    /\ votes        = {}
    /\ rpcs         = [m \in {} |-> 0]
    /\ req          = [c \in Client |-> Idle]
    /\ elections    = 0
    /\ restarts     = 0
    /\ faults       = 0
    /\ elected      = {}
    /\ conflicted   = FALSE

\* n.mu can be taken: only applyCommitted keeps it from one step to the next.
Unlocked(s) == ~ applying[s]

\* n disk writes fail in this step.
DiskFaults(n) == faults' = faults + n /\ faults' <= MaxFaults

\* Mutant of SaveMeta: the term and vote are never written.
SaveMetaNever(s, md, earlier, others) == UNCHANGED meta /\ DiskFaults(others)

\* SaveMeta(s, md) when every caller drops the error: either the write is on
\* disk, or it fails and the disk keeps what was there, or one of the writes
\* that came before it in the same handler; they are charged to the budget of
\* faults as one.  others counts the failures of other writes of the handler.
SaveMeta(s, md, earlier, others) ==
    \E d \in {md, meta[s]} \cup earlier :
        /\ meta' = [meta EXCEPT ![s] = d]
        /\ DiskFaults(others + IF d = md THEN 0 ELSE 1)

\* Mutant of BecomeFollower: n.leader is not reset.
BecomeFollowerStillLeads(s, t, others) ==
    /\ state'       = [state EXCEPT ![s] = Follower]
    /\ currentTerm' = [currentTerm EXCEPT ![s] = t]
    /\ votedFor'    = [votedFor EXCEPT ![s] = Nil]
    /\ SaveMeta(s, [term |-> t, votedFor |-> Nil], {}, others)
    /\ UNCHANGED leader

\* becomeFollower(t)
BecomeFollower(s, t, others) ==
    /\ state'       = [state EXCEPT ![s] = Follower]
    /\ currentTerm' = [currentTerm EXCEPT ![s] = t]
    /\ votedFor'    = [votedFor EXCEPT ![s] = Nil]
    /\ leader'      = [leader EXCEPT ![s] = Nil]
    /\ SaveMeta(s, [term |-> t, votedFor |-> Nil], {}, others)

-----------------------------------------------------------------------------
(* Elections: run, startElection, HandleRequestVote, becomeLeader. *)

\* quorum in startElection: peers does not include the node itself.
ElectionQuorum(s) == Cardinality(Peers(s)) \div 2 + 1

\* wonCh is only written after a grant has been counted.
Won(s) ==
    /\ election[s].granted # {}
    /\ Cardinality(election[s].granted) + 1 >= ElectionQuorum(s)

\* The election timer fires; run() is not inside an earlier startElection.
StartElection(s) ==
    /\ Unlocked(s)
    /\ state[s] # Leader
    /\ election[s] = Nil
    /\ currentTerm[s] < MaxTerm /\ elections < MaxElections
    /\ elections' = elections + 1
    /\ LET t == currentTerm[s] + 1 IN
        /\ state'       = [state EXCEPT ![s] = Candidate]
        /\ currentTerm' = [currentTerm EXCEPT ![s] = t]
        /\ votedFor'    = [votedFor EXCEPT ![s] = s]
        /\ SaveMeta(s, [term |-> t, votedFor |-> s], {}, 0)
        /\ election' = [election EXCEPT ![s] =
                           [term |-> t, granted |-> {}]]
        /\ votes' = votes \cup
              {[type |-> "RequestVote", term |-> t, from |-> s, to |-> p,
                lastLogIndex |-> LastIndex(raftLog[s]),
                lastLogTerm |-> LastTerm(raftLog[s]),
                inc |-> incarnation[s]] : p \in Peers(s)}
    /\ UNCHANGED <<raftLog, store, leader, applyVars, rpcs, incarnation, restarts,
                   leaderID, pending, snapshotData, req, elected, conflicted>>

\* The candidate that sent m still waits for its reply: it has not crashed and
\* its startElection has not ended.
Collecting(m) ==
    /\ incarnation[m.from] = m.inc
    /\ election[m.from] # Nil /\ election[m.from].term = m.term

\* Mutant of CanVote: a node votes for everyone who asks.
CanVoteAgain(voted, candidate) == TRUE

\* The node has not voted for another candidate in this term.
CanVote(voted, candidate) == voted \in {Nil, candidate}

UpToDate(m, rl) ==
    \/ m.lastLogTerm > LastTerm(rl)
    \/ m.lastLogTerm = LastTerm(rl) /\ m.lastLogIndex >= LastIndex(rl)

HandleRequestVote(s, m) ==
    LET newer == m.term > currentTerm[s]
        term  == IF newer THEN m.term ELSE currentTerm[s]
        voted == IF newer THEN Nil ELSE votedFor[s]
        grant == /\ m.term = term
                 /\ CanVote(voted, m.from)
                 /\ UpToDate(m, raftLog[s])
        vote  == IF grant THEN m.from ELSE voted
    IN
    /\ m \in votes /\ m.type = "RequestVote" /\ m.to = s
    /\ Unlocked(s)
    /\ currentTerm' = [currentTerm EXCEPT ![s] = term]
    /\ votedFor'    = [votedFor EXCEPT ![s] = vote]
    /\ state'       = [state EXCEPT ![s] = IF newer THEN Follower ELSE @]
    /\ leader'      = [leader EXCEPT ![s] = IF newer THEN Nil ELSE @]
    /\ IF newer \/ grant
       THEN SaveMeta(s, [term |-> term, votedFor |-> vote],
                     IF newer THEN {[term |-> term, votedFor |-> Nil]} ELSE {}, 0)
       ELSE UNCHANGED <<meta, faults>>
    /\ votes' = (votes \ {m}) \cup
          IF Collecting(m)
          THEN {[type |-> "Vote", term |-> term, voteGranted |-> grant,
                 from |-> s, to |-> m.from, round |-> m.term]}
          ELSE {}
    /\ UNCHANGED <<raftLog, store, applyVars, rpcs, crashVars, leaderID, pending,
                   snapshotData, election, req, elected, conflicted>>

\* A vote goroutine gets its reply.
HandleVote(s, m) ==
    /\ m \in votes /\ m.type = "Vote" /\ m.to = s
    /\ election[s] # Nil /\ election[s].term = m.round
    /\ Unlocked(s)
    /\ votes' = votes \ {m}
    /\ \/ /\ m.term > currentTerm[s]
          /\ BecomeFollower(s, m.term, 0)
          /\ UNCHANGED election
       \/ /\ m.term <= currentTerm[s]
          /\ election' = [election EXCEPT ![s].granted =
                             IF m.voteGranted THEN @ \cup {m.from} ELSE @]
          /\ UNCHANGED <<termVars, meta, faults>>
    /\ UNCHANGED <<raftLog, store, applyVars, rpcs, crashVars, leaderID, pending,
                   snapshotData, req, elected, conflicted>>

\* The votes left when no one waits for replies to s any more.
DropVotesTo(s) == {m \in votes : ~ (m.type = "Vote" /\ m.to = s)}

\* startElection stops waiting: every vote goroutine has had its reply, failed
\* or reached its 200 ms timeout.  Replies still to come find no one; requests
\* still on the way will be handled all the same.
EndElection(s) ==
    /\ election[s] # Nil
    /\ election' = [election EXCEPT ![s] = Nil]
    /\ votes' = DropVotesTo(s)

\* It has not won, or becomeLeader finds that the node has stepped down.
LoseElection(s) ==
    /\ EndElection(s)
    /\ ~ Won(s) \/ (Unlocked(s) /\ state[s] # Candidate)
    /\ UNCHANGED <<diskVars, termVars, applyVars, rpcs, crashVars, leaderID,
                   pending, snapshotData, req, faults, elected, conflicted>>

NewLeaderState(last) == [nextIndex  |-> [p \in Server |-> last + 1],
                         matchIndex |-> [p \in Server |-> 0]]

\* becomeLeader.  nextIndex is set before the no-op is appended; the error of
\* that append is dropped.
WinElection(s) ==
    LET rl   == raftLog[s]
        last == LastIndex(rl)
        noop == [term |-> currentTerm[s], cmd |-> Noop]
    IN
    /\ EndElection(s)
    /\ Won(s)
    /\ Unlocked(s)
    /\ state[s] = Candidate
    /\ last < MaxIndex
    /\ state'    = [state EXCEPT ![s] = Leader]
    /\ leaderID' = [leaderID EXCEPT ![s] = s]
    /\ leader'   = [leader EXCEPT ![s] = NewLeaderState(last)]
    /\ \/ /\ raftLog' = [raftLog EXCEPT ![s] = AppendEntry(rl, last + 1, noop)]
          /\ UNCHANGED faults
       \/ UNCHANGED raftLog /\ DiskFaults(1)
    /\ elected' = elected \cup {[term |-> currentTerm[s], leader |-> s,
                                 voters |-> election[s].granted \cup {s}]}
    /\ UNCHANGED <<meta, store, currentTerm, votedFor, applyVars, rpcs, crashVars,
                   pending, snapshotData, req, conflicted>>

-----------------------------------------------------------------------------
(* Replication: replicateToPeer and the handlers it calls. *)

\* The replication RPCs in flight, requests and replies, equal ones numbered.
InFlight == UNION {{m} \X (1 .. rpcs[m]) : m \in DOMAIN rpcs}

\* One more can be sent.
CanSend == Cardinality(InFlight) < MaxRpcs

Received(s, m, type) == m \in DOMAIN rpcs /\ m.type = type /\ m.to = s

\* The handler of request m returns resp; no one reads it if the sender crashed.
Reply(m, resp) ==
    LET rest == BagRemove(rpcs, m)
    IN  rpcs' = IF incarnation[m.from] = m.inc THEN BagAdd(rest, resp) ELSE rest

\* replicateToPeer up to its call: on every heartbeat and after every Propose
\* the leader starts one for each peer.
ReplicateToPeer(s, p) ==
    LET rl   == raftLog[s]
        next == leader[s].nextIndex[p]
        snapshotRequest ==
            [type |-> "InstallSnapshot", term |-> currentTerm[s], from |-> s, to |-> p,
             lastIncludedIndex |-> rl.snapshotIndex,
             lastIncludedTerm |-> rl.snapshotTerm, data |-> snapshotData[s],
             inc |-> incarnation[s]]
        appendRequest ==
            [type |-> "AppendEntries", term |-> currentTerm[s], from |-> s, to |-> p,
             prevLogIndex |-> next - 1, prevLogTerm |-> TermAt(rl, next - 1),
             entries |-> GetRange(rl, next, LastIndex(rl)),
             leaderCommit |-> commitIndex[s], inc |-> incarnation[s]]
        m == IF next <= rl.snapshotIndex THEN snapshotRequest ELSE appendRequest
    IN
    /\ Unlocked(s)
    /\ state[s] = Leader
    /\ p \in Peers(s)
    /\ CanSend
    /\ rpcs' = BagAdd(rpcs, m)
    /\ UNCHANGED <<diskVars, termVars, applyVars, votes, crashVars, leaderID,
                   pending, snapshotData, election, req, faults, elected, conflicted>>

\* Mutant of AcceptLeader: requests of an earlier term are not refused.
AcceptLeaderStale(s, m, others) ==
    /\ IF m.term > currentTerm[s]
       THEN BecomeFollower(s, m.term, others)
       ELSE UNCHANGED <<termVars, meta>> /\ DiskFaults(others)
    /\ leaderID' = [leaderID EXCEPT ![s] = m.from]

\* The part of both handlers that accepts m.from as the leader of m.term.
AcceptLeader(s, m, others) ==
    /\ m.term >= currentTerm[s]
    /\ IF m.term > currentTerm[s]
       THEN BecomeFollower(s, m.term, others)
       ELSE UNCHANGED <<termVars, meta>> /\ DiskFaults(others)
    /\ leaderID' = [leaderID EXCEPT ![s] = m.from]

AppendResponse(s, m, success, match, conflict) ==
    [type |-> "AppendReply", term |-> m.term, success |-> success,
     matchIndex |-> match, conflictIndex |-> conflict, from |-> s, to |-> m.from]

\* Rule 1: the sender's term is stale.
RejectAppend(s, m) ==
    /\ Received(s, m, "AppendEntries")
    /\ Unlocked(s)
    /\ m.term < currentTerm[s]
    /\ Reply(m, [AppendResponse(s, m, FALSE, 0, 0) EXCEPT !.term = currentTerm[s]])
    /\ UNCHANGED <<diskVars, termVars, applyVars, votes, crashVars, leaderID,
                   pending, snapshotData, election, req, faults, elected, conflicted>>

\* Mutant of HasPrev: no consistency check.
HasPrevUnchecked(rl, m) == TRUE

\* Rule 2: the log has the entry before the new ones.
HasPrev(rl, m) ==
    m.prevLogIndex > 0 =>
        /\ m.prevLogIndex <= LastIndex(rl)
        /\ TermAt(rl, m.prevLogIndex) = m.prevLogTerm

\* Where a follower without that entry tells the leader to go on from.
ConflictIndex(rl, m) ==
    IF m.prevLogIndex > LastIndex(rl) THEN LastIndex(rl) + 1
                                      ELSE FirstOfTerm(rl, m.prevLogIndex)

MismatchAppend(s, m) ==
    /\ Received(s, m, "AppendEntries")
    /\ Unlocked(s)
    /\ AcceptLeader(s, m, 0)
    /\ ~ HasPrev(raftLog[s], m)
    /\ Reply(m, AppendResponse(s, m, FALSE, 0, ConflictIndex(raftLog[s], m)))
    /\ UNCHANGED <<raftLog, store, applyVars, votes, crashVars, pending,
                   snapshotData, election, req, elected, conflicted>>

\* What the loop has done when k of the entries of m are behind it.
MergeFirst(rl, m, k) == MergeEntries(rl, m.prevLogIndex, SubSeq(m.entries, 1, k))

\* Mutant of FollowerCommit: the commit index of the leader is taken as it is.
FollowerCommitAny(s, m) == m.leaderCommit

\* Rule 5: the new commitIndex of s.
FollowerCommit(s, m) ==
    LET lastNew == m.prevLogIndex + Len(m.entries)
        bound   == IF lastNew < m.leaderCommit THEN lastNew ELSE m.leaderCommit
    IN  IF bound > commitIndex[s] THEN bound ELSE commitIndex[s]

\* Mutant of AdvanceCommit: a follower does not start applyCommitted.
AdvanceCommitIdle(s, i) ==
    /\ commitIndex' = [commitIndex EXCEPT ![s] = i]
    /\ applyGo' = [applyGo EXCEPT ![s] =
                      IF i # commitIndex[s] /\ state[s] = Leader THEN @ + 1 ELSE @]

\* Moving commitIndex starts an applyCommitted goroutine.
AdvanceCommit(s, i) ==
    /\ commitIndex' = [commitIndex EXCEPT ![s] = i]
    /\ applyGo' = [applyGo EXCEPT ![s] = IF i # commitIndex[s] THEN @ + 1 ELSE @]

AcceptAppend(s, m) ==
    LET rl == MergeFirst(raftLog[s], m, Len(m.entries)) IN
    /\ Received(s, m, "AppendEntries")
    /\ Unlocked(s)
    /\ AcceptLeader(s, m, 0)
    /\ HasPrev(raftLog[s], m)
    /\ raftLog' = [raftLog EXCEPT ![s] = rl]
    /\ conflicted' = (conflicted \/ Conflicts(raftLog[s], m.prevLogIndex, m.entries) # {})
    /\ AdvanceCommit(s, FollowerCommit(s, m))
    /\ Reply(m, AppendResponse(s, m, TRUE, LastIndex(rl), 0))
    /\ UNCHANGED <<store, lastApplied, applying, snapGo, votes, crashVars, pending,
                   snapshotData, election, req, elected>>

\* A write is due for entry k + 1 and fails: the handler returns what it has so far.
FailAppend(s, m, k) ==
    LET done == MergeFirst(raftLog[s], m, k) IN
    /\ Received(s, m, "AppendEntries")
    /\ Unlocked(s)
    /\ AcceptLeader(s, m, 1)
    /\ HasPrev(raftLog[s], m)
    /\ k < Len(m.entries) /\ TermAt(done, m.prevLogIndex + k + 1) # m.entries[k + 1].term
    /\ raftLog' = [raftLog EXCEPT ![s] = done]
    /\ conflicted' = (conflicted \/
                      Conflicts(raftLog[s], m.prevLogIndex, SubSeq(m.entries, 1, k)) # {})
    /\ Reply(m, AppendResponse(s, m, FALSE, 0, 0))
    /\ UNCHANGED <<store, applyVars, votes, crashVars, pending, snapshotData,
                   election, req, elected>>

\* Mutant of Majority: one node too few.
MajorityLessOne(s) == (Cardinality(Peers(s)) + 1) \div 2

\* commitCandidate: the highest index of the current term on a majority, or 0.
Majority(s) == (Cardinality(Peers(s)) + 1) \div 2 + 1

CommitCandidate(s, match) ==
    LET ready == {n \in commitIndex[s] + 1 .. LastIndex(raftLog[s]) :
                    /\ TermAt(raftLog[s], n) = currentTerm[s]
                    /\ Cardinality({p \in Peers(s) : match[p] >= n}) + 1 >= Majority(s)}
    IN  IF ready = {} THEN 0 ELSE Max(ready)

\* Mutant of BackUp: nextIndex is not kept above 0.
BackUpPast(next, conflict) == IF conflict > 0 THEN conflict ELSE next - 1

\* nextIndex after a refusal: the hint of the follower, or one entry back.
BackUp(next, conflict) ==
    CASE conflict > 0 -> conflict
      [] conflict = 0 -> IF next > 1 THEN next - 1 ELSE next

\* Mutant of NewMatch: what was sent last is taken to be what was accepted.
NewMatchSent(s, m) == LastIndex(raftLog[s])

\* matchIndex of the peer after a success: the reply counts if it tells more.
NewMatch(s, m) ==
    LET old == leader[s].matchIndex[m.from]
    IN  IF m.matchIndex > old THEN m.matchIndex ELSE old

\* replicateToPeer reads the reply to its AppendEntries call.
HandleAppendReply(s, m) ==
    LET ls     == leader[s]
        p      == m.from
        match  == [ls.matchIndex EXCEPT ![p] = NewMatch(s, m)]
        commit == CommitCandidate(s, match)
    IN
    /\ Received(s, m, "AppendReply")
    /\ Unlocked(s)
    /\ rpcs' = BagRemove(rpcs, m)
    /\ \/ /\ state[s] # Leader
          /\ UNCHANGED <<termVars, meta, faults, commitIndex, applyGo>>
       \/ /\ state[s] = Leader /\ m.term > currentTerm[s]
          /\ BecomeFollower(s, m.term, 0)
          /\ UNCHANGED <<commitIndex, applyGo>>
       \/ /\ state[s] = Leader /\ m.term <= currentTerm[s] /\ m.success
          /\ leader' = [leader EXCEPT ![s] =
                           [nextIndex  |-> [ls.nextIndex EXCEPT ![p] = match[p] + 1],
                            matchIndex |-> match]]
          /\ AdvanceCommit(s, IF commit > 0 THEN commit ELSE commitIndex[s])
          /\ UNCHANGED <<currentTerm, votedFor, state, meta, faults>>
       \/ /\ state[s] = Leader /\ m.term <= currentTerm[s] /\ ~ m.success
          /\ leader' = [leader EXCEPT ![s].nextIndex[p] = BackUp(@, m.conflictIndex)]
          /\ UNCHANGED <<currentTerm, votedFor, state, meta, faults, commitIndex, applyGo>>
    /\ UNCHANGED <<raftLog, store, lastApplied, applying, snapGo, votes, crashVars,
                   leaderID, pending, snapshotData, election, req, elected, conflicted>>

\* The call fails or times out: the request or its reply never arrives.
LoseRpc(m) ==
    /\ m \in DOMAIN rpcs
    /\ rpcs' = BagRemove(rpcs, m)
    /\ UNCHANGED <<diskVars, termVars, applyVars, votes, crashVars, leaderID, pending,
                   snapshotData, election, req, faults, elected, conflicted>>

-----------------------------------------------------------------------------
(* Applying and snapshots: applyCommitted, takeSnapshot, InstallSnapshot. *)

\* An applyCommitted goroutine has the mutex, or takes it now.
ApplyTurn(s) ==
    /\ applying[s] \/ applyGo[s] > 0
    /\ applyGo' = [applyGo EXCEPT ![s] = IF applying[s] THEN @ ELSE @ - 1]

\* Nothing is left to apply.
ApplyNothing(s) ==
    /\ ApplyTurn(s)
    /\ lastApplied[s] >= commitIndex[s]
    /\ UNCHANGED <<diskVars, termVars, commitIndex, lastApplied, applying, snapGo,
                   netVars, crashVars, leaderID, pending, snapshotData, election,
                   req, faults, elected, conflicted>>

\* The next entry is not in the log: lastApplied has moved all the same, and
\* the goroutine gives up.
ApplyMissing(s) ==
    /\ ApplyTurn(s)
    /\ lastApplied[s] < commitIndex[s]
    /\ ~ Has(raftLog[s], lastApplied[s] + 1)
    /\ lastApplied' = [lastApplied EXCEPT ![s] = @ + 1]
    /\ applying' = [applying EXCEPT ![s] = FALSE]
    /\ UNCHANGED <<diskVars, termVars, commitIndex, snapGo, netVars, crashVars,
                   leaderID, pending, snapshotData, election, req, faults, elected,
                   conflicted>>

\* Mutant of Notify: the channel stays registered.
NotifyKeeps(s, i, ok) ==
    LET c == pending[s][i] IN
    /\ UNCHANGED pending
    /\ req' = IF c = Nil THEN req
              ELSE [req EXCEPT ![c].st = "notified", ![c].ok = ok]

\* Mutant of Notify: the error of applyCommand is lost.
NotifyOk(s, i, ok) ==
    LET c == pending[s][i] IN
    /\ pending' = [pending EXCEPT ![s][i] = Nil]
    /\ req' = IF c = Nil THEN req
              ELSE [req EXCEPT ![c].st = "notified", ![c].ok = TRUE]

\* Hand the result of entry i to the Propose that waits for index i, if any.
Notify(s, i, ok) ==
    LET c == pending[s][i] IN
    /\ pending' = [pending EXCEPT ![s][i] = Nil]
    /\ req' = IF c = Nil THEN req
              ELSE [req EXCEPT ![c].st = "notified", ![c].ok = ok]

\* The next entry is applied.  A store that fails to write keeps its state; the
\* error goes to the waiting Propose, and the entry counts as applied.
ApplyEntry(s) ==
    LET i == lastApplied[s] + 1
        e == raftLog[s].entries[i]
    IN
    /\ ApplyTurn(s)
    /\ lastApplied[s] < commitIndex[s]
    /\ Has(raftLog[s], i)
    /\ lastApplied' = [lastApplied EXCEPT ![s] = i]
    /\ \/ /\ e.cmd = Noop
          /\ Notify(s, i, TRUE)
          /\ UNCHANGED <<store, faults>>
       \/ /\ e.cmd # Noop
          /\ store' = [store EXCEPT ![s] = ApplyCommand(@, CmdOf[e.cmd])]
          /\ Notify(s, i, Succeeds(store[s], CmdOf[e.cmd]))
          /\ UNCHANGED faults
       \/ /\ e.cmd # Noop /\ DurableStore
          /\ DiskFaults(1)
          /\ Notify(s, i, FALSE)
          /\ UNCHANGED store
    /\ snapGo' = [snapGo EXCEPT ![s] =
                     IF i - raftLog[s].snapshotIndex >= SnapshotThreshold
                     THEN @ \cup {[index |-> i, term |-> e.term, data |-> Nil]}
                     ELSE @]
    /\ applying' = [applying EXCEPT ![s] = i < commitIndex[s]]
    /\ UNCHANGED <<raftLog, meta, termVars, commitIndex, netVars, crashVars, leaderID,
                   snapshotData, election, elected, conflicted>>

\* takeSnapshot(index, term) reads the store, without the mutex of the node.
ReadSnapshot(s, g) ==
    /\ g \in snapGo[s] /\ g.data = Nil
    /\ snapGo' = [snapGo EXCEPT ![s] = (@ \ {g}) \cup {[g EXCEPT !.data = store[s]]}]
    /\ UNCHANGED <<diskVars, termVars, commitIndex, lastApplied, applyGo, applying,
                   netVars, crashVars, leaderID, pending, snapshotData, election,
                   req, faults, elected, conflicted>>

\* It then compacts the log; if that write fails the snapshot is dropped.
TakeSnapshot(s, g) ==
    /\ g \in snapGo[s] /\ g.data # Nil
    /\ Unlocked(s)
    /\ snapGo' = [snapGo EXCEPT ![s] = @ \ {g}]
    /\ \/ /\ raftLog' = [raftLog EXCEPT ![s] = Compact(@, g.index, g.term)]
          /\ snapshotData' = [snapshotData EXCEPT ![s] = g.data]
          /\ UNCHANGED faults
       \/ DiskFaults(1) /\ UNCHANGED <<raftLog, snapshotData>>
    /\ UNCHANGED <<meta, store, termVars, commitIndex, lastApplied, applyGo, applying,
                   netVars, crashVars, leaderID, pending, election, req, elected,
                   conflicted>>

\* The reply carries the term the follower had before the request.
SnapshotResponse(s, m, success) ==
    [type |-> "SnapshotReply", term |-> currentTerm[s], success |-> success,
     snapshotIdx |-> m.lastIncludedIndex, from |-> s, to |-> m.from]

RejectSnapshot(s, m) ==
    /\ Received(s, m, "InstallSnapshot")
    /\ Unlocked(s)
    /\ m.term < currentTerm[s]
    /\ Reply(m, SnapshotResponse(s, m, FALSE))
    /\ UNCHANGED <<diskVars, termVars, applyVars, votes, crashVars, leaderID, pending,
                   snapshotData, election, req, faults, elected, conflicted>>

\* The store takes the snapshot over; commitIndex and lastApplied become its
\* index, whatever they were.
InstallSnapshot(s, m) ==
    /\ Received(s, m, "InstallSnapshot")
    /\ Unlocked(s)
    /\ AcceptLeader(s, m, 0)
    /\ m.data # Nil
    /\ store' = [store EXCEPT ![s] = m.data]
    /\ raftLog' = [raftLog EXCEPT ![s] =
                      Compact(@, m.lastIncludedIndex, m.lastIncludedTerm)]
    /\ commitIndex'  = [commitIndex EXCEPT ![s] = m.lastIncludedIndex]
    /\ lastApplied'  = [lastApplied EXCEPT ![s] = m.lastIncludedIndex]
    /\ snapshotData' = [snapshotData EXCEPT ![s] = m.data]
    /\ Reply(m, SnapshotResponse(s, m, TRUE))
    /\ UNCHANGED <<applyGo, applying, snapGo, votes, crashVars, pending, election, req,
                   elected, conflicted>>

\* RestoreSnapshot fails: it cannot decode empty data, or the write fails; or
\* it succeeds and the write of Compact fails.
FailSnapshot(s, m) ==
    /\ Received(s, m, "InstallSnapshot")
    /\ Unlocked(s)
    /\ \/ /\ m.data = Nil
          /\ AcceptLeader(s, m, 0)
          /\ UNCHANGED store
       \/ /\ m.data # Nil
          /\ AcceptLeader(s, m, 1)
          /\ \/ store' = [store EXCEPT ![s] = m.data]
             \/ DurableStore /\ UNCHANGED store
    /\ Reply(m, SnapshotResponse(s, m, FALSE))
    /\ UNCHANGED <<raftLog, applyVars, votes, crashVars, pending, snapshotData,
                   election, req, elected, conflicted>>

-----------------------------------------------------------------------------
(* Crashes.  The process loses everything but its files, and NewRaftNode    *)
(* reads those back: md, rl and kv are what the disk holds at that moment.  *)

Reboot(s, md, rl, kv) ==
    /\ restarts < MaxRestarts
    /\ restarts'     = restarts + 1
    /\ incarnation'  = [incarnation EXCEPT ![s] = @ + 1]
    /\ meta'         = [meta EXCEPT ![s] = md]
    /\ raftLog'      = [raftLog EXCEPT ![s] = Reopen(rl)]
    /\ store'        = [store EXCEPT ![s] = IF DurableStore THEN kv ELSE EmptyStore]
    /\ currentTerm'  = [currentTerm EXCEPT ![s] = md.term]
    /\ votedFor'     = [votedFor EXCEPT ![s] = md.votedFor]
    /\ state'        = [state EXCEPT ![s] = Follower]
    /\ commitIndex'  = [commitIndex EXCEPT ![s] = 0]
    /\ lastApplied'  = [lastApplied EXCEPT ![s] = 0]
    /\ leaderID'     = [leaderID EXCEPT ![s] = Nil]
    /\ leader'       = [leader EXCEPT ![s] = Nil]
    /\ pending'      = [pending EXCEPT ![s] = [i \in Index |-> Nil]]
    /\ snapshotData' = [snapshotData EXCEPT ![s] = Nil]
    /\ election'     = [election EXCEPT ![s] = Nil]
    /\ applyGo'      = [applyGo EXCEPT ![s] = 0]
    /\ applying'     = [applying EXCEPT ![s] = FALSE]
    /\ snapGo'       = [snapGo EXCEPT ![s] = {}]
    /\ req' = [c \in Client |->
                 IF req[c].node = s /\ req[c].st \in {"waiting", "notified"}
                 THEN [req[c] EXCEPT !.st = "failed"] ELSE req[c]]
    /\ UNCHANGED <<elections, faults, elected>>

\* Replies on the way to s are lost with its connections.
DropRepliesTo(s, b) ==
    [m \in {x \in DOMAIN b : ~ (x.type \in {"AppendReply", "SnapshotReply"} /\ x.to = s)}
        |-> b[m]]

\* The process stops between two handlers, or while it applies entries.
Restart(s) ==
    /\ Reboot(s, meta[s], raftLog[s], store[s])
    /\ votes' = DropVotesTo(s)
    /\ rpcs'  = DropRepliesTo(s, rpcs)
    /\ UNCHANGED conflicted

\* What the disk has of the term once AcceptLeader has run.
MetaAfter(s, m) ==
    IF m.term > currentTerm[s] THEN [term |-> m.term, votedFor |-> Nil] ELSE meta[s]

\* It stops inside HandleRequestVote, between the two writes of the term.
RestartInVote(s, m) ==
    /\ m \in votes /\ m.type = "RequestVote" /\ m.to = s
    /\ Unlocked(s)
    /\ m.term > currentTerm[s]
    /\ Reboot(s, MetaAfter(s, m), raftLog[s], store[s])
    /\ votes' = DropVotesTo(s) \ {m}
    /\ rpcs'  = DropRepliesTo(s, rpcs)
    /\ UNCHANGED conflicted

\* It stops inside HandleAppendEntries, with k entries behind it.
RestartInAppend(s, m, k) ==
    /\ Received(s, m, "AppendEntries")
    /\ Unlocked(s)
    /\ m.term >= currentTerm[s]
    /\ HasPrev(raftLog[s], m) /\ k <= Len(m.entries)
    /\ Reboot(s, MetaAfter(s, m), MergeFirst(raftLog[s], m, k), store[s])
    /\ votes' = DropVotesTo(s)
    /\ rpcs'  = DropRepliesTo(s, BagRemove(rpcs, m))
    /\ conflicted' = (conflicted \/
                      Conflicts(raftLog[s], m.prevLogIndex, SubSeq(m.entries, 1, k)) # {})

\* It stops inside HandleInstallSnapshot, between RestoreSnapshot and Compact.
RestartInInstall(s, m) ==
    /\ Received(s, m, "InstallSnapshot")
    /\ Unlocked(s)
    /\ m.term >= currentTerm[s] /\ m.data # Nil
    /\ Reboot(s, MetaAfter(s, m), raftLog[s], m.data)
    /\ votes' = DropVotesTo(s)
    /\ rpcs'  = DropRepliesTo(s, BagRemove(rpcs, m))
    /\ UNCHANGED conflicted

\* replicateToPeer reads the reply to its InstallSnapshot call.  It does not
\* look at n.state: when the node has stepped down n.leader is nil, and using
\* it stops the process.
HandleSnapshotReply(s, m) ==
    /\ Received(s, m, "SnapshotReply")
    /\ Unlocked(s)
    /\ \/ /\ m.term > currentTerm[s]
          /\ BecomeFollower(s, m.term, 0)
          /\ UNCHANGED <<raftLog, store, applyVars, crashVars, leaderID, pending,
                         snapshotData, election, req, elected, votes>>
          /\ rpcs' = BagRemove(rpcs, m)
       \/ /\ m.term <= currentTerm[s] /\ ~ m.success
          /\ UNCHANGED <<diskVars, termVars, applyVars, crashVars, leaderID, pending,
                         snapshotData, election, req, faults, elected, votes>>
          /\ rpcs' = BagRemove(rpcs, m)
       \/ /\ m.term <= currentTerm[s] /\ m.success /\ leader[s] # Nil
          /\ leader' = [leader EXCEPT ![s] =
                           [@ EXCEPT !.nextIndex[m.from]  = m.snapshotIdx + 1,
                                     !.matchIndex[m.from] = m.snapshotIdx]]
          /\ UNCHANGED <<diskVars, currentTerm, votedFor, state, applyVars, crashVars,
                         leaderID, pending, snapshotData, election, req, faults,
                         elected, votes>>
          /\ rpcs' = BagRemove(rpcs, m)
       \/ /\ m.term <= currentTerm[s] /\ m.success /\ leader[s] = Nil
          /\ Reboot(s, meta[s], raftLog[s], store[s])
          /\ votes' = DropVotesTo(s)
          /\ rpcs'  = DropRepliesTo(s, rpcs)
    /\ UNCHANGED conflicted

-----------------------------------------------------------------------------
(* Propose.  On a node that is not the leader it returns at once and changes *)
(* nothing.                                                                  *)

\* Mutant of NextSlot: the last entry is overwritten.
NextSlotReused(rl) == IF LastIndex(rl) = 0 THEN 1 ELSE LastIndex(rl)

\* The index Propose gives to its entry.
NextSlot(rl) == LastIndex(rl) + 1

Propose(c, s) ==
    LET i == NextSlot(raftLog[s])
        e == [term |-> currentTerm[s], cmd |-> c]
    IN
    /\ req[c].st = "idle"
    /\ Unlocked(s)
    /\ state[s] = Leader
    /\ i \in Index
    /\ \/ /\ raftLog' = [raftLog EXCEPT ![s] = AppendEntry(@, i, e)]
          /\ pending' = [pending EXCEPT ![s][i] = c]
          /\ req' = [req EXCEPT ![c] = [st |-> "waiting", node |-> s, index |-> i,
                                        term |-> currentTerm[s], ok |-> FALSE]]
          /\ UNCHANGED faults
       \/ /\ DiskFaults(1)
          /\ req' = [req EXCEPT ![c].st = "failed"]
          /\ UNCHANGED <<raftLog, pending>>
    /\ UNCHANGED <<meta, store, termVars, applyVars, netVars, crashVars, leaderID,
                   snapshotData, election, elected, conflicted>>

\* Propose reads doneCh and returns.
ProposeReturns(c) ==
    /\ req[c].st = "notified"
    /\ req' = [req EXCEPT ![c].st = "done"]
    /\ UNCHANGED <<diskVars, termVars, applyVars, netVars, crashVars, leaderID,
                   pending, snapshotData, election, faults, elected, conflicted>>

\* The context of the request ends first; the select may prefer that even when
\* the result is there.  Whatever waits at that index is forgotten.
ProposeTimeout(c) ==
    LET s == req[c].node IN
    /\ req[c].st \in {"waiting", "notified"}
    /\ Unlocked(s)
    /\ req' = [req EXCEPT ![c].st = "failed"]
    /\ pending' = [pending EXCEPT ![s][req[c].index] = Nil]
    /\ UNCHANGED <<diskVars, termVars, applyVars, netVars, crashVars, leaderID,
                   snapshotData, election, faults, elected, conflicted>>

-----------------------------------------------------------------------------
VoteStep ==
    \E s \in Server :
        \/ StartElection(s) \/ LoseElection(s) \/ WinElection(s)
        \/ \E m \in votes : HandleRequestVote(s, m) \/ HandleVote(s, m)

AppendStep ==
    \E s \in Server, m \in DOMAIN rpcs :
        \/ RejectAppend(s, m) \/ MismatchAppend(s, m) \/ AcceptAppend(s, m)
        \/ \E k \in 0 .. MaxIndex : FailAppend(s, m, k)
        \/ HandleAppendReply(s, m)

SnapshotStep ==
    \E s \in Server :
        \/ \E g \in snapGo[s] : ReadSnapshot(s, g) \/ TakeSnapshot(s, g)
        \/ \E m \in DOMAIN rpcs :
              \/ RejectSnapshot(s, m) \/ InstallSnapshot(s, m) \/ FailSnapshot(s, m)
              \/ HandleSnapshotReply(s, m)

ApplyStep == \E s \in Server : ApplyNothing(s) \/ ApplyMissing(s) \/ ApplyEntry(s)

RestartStep ==
    \E s \in Server :
        \/ Restart(s)
        \/ \E m \in votes : RestartInVote(s, m)
        \/ \E m \in DOMAIN rpcs :
              \/ \E k \in 0 .. MaxIndex : RestartInAppend(s, m, k)
              \/ RestartInInstall(s, m)

ClientStep ==
    \E c \in Client :
        \/ \E s \in Server : Propose(c, s)
        \/ ProposeReturns(c) \/ ProposeTimeout(c)

Next ==
    \/ VoteStep
    \/ \E s \in Server, p \in Server : ReplicateToPeer(s, p)
    \/ AppendStep
    \/ SnapshotStep
    \/ \E m \in DOMAIN rpcs : LoseRpc(m)
    \/ ApplyStep
    \/ RestartStep
    \/ ClientStep

Spec == Init /\ [][Next]_vars

-----------------------------------------------------------------------------
(* Properties. *)

\* Every variable has the type its declaration says.
TypeOK ==
    /\ raftLog \in [Server -> Log]
    /\ meta \in [Server -> Meta]
    /\ store \in [Server -> Store]
    /\ currentTerm \in [Server -> Term]
    /\ votedFor \in [Server -> Server \cup {Nil}]
    /\ state \in [Server -> {Follower, Candidate, Leader}]
    /\ commitIndex \in [Server -> 0 .. MaxIndex]
    /\ lastApplied \in [Server -> 0 .. MaxIndex]
    /\ leaderID \in [Server -> Server \cup {Nil}]
    /\ leader \in [Server -> LeaderState \cup {Nil}]
    /\ pending \in [Server -> [Index -> Client \cup {Nil}]]
    /\ snapshotData \in [Server -> Store \cup {Nil}]
    /\ election \in [Server -> Election \cup {Nil}]
    /\ applyGo \in [Server -> Nat]
    /\ applying \in [Server -> BOOLEAN]
    /\ snapGo \in [Server -> SUBSET SnapshotRun]
    /\ incarnation \in [Server -> Nat]
    /\ votes \subseteq VoteRequest \cup VoteReply
    /\ DOMAIN rpcs \subseteq RpcMessage
    /\ rpcs \in [DOMAIN rpcs -> Nat \ {0}]
    /\ req \in [Client -> Request]
    /\ elections \in 0 .. MaxElections
    /\ restarts \in 0 .. MaxRestarts
    /\ faults \in 0 .. MaxFaults
    /\ elected \subseteq [term : Term, leader : Server, voters : SUBSET Server]
    /\ conflicted \in BOOLEAN

\* No two nodes win an election of the same term (startElection,
\* HandleRequestVote, becomeLeader), whatever crashes, as long as every SaveMeta
\* has reached the disk.
ElectionSafety ==
    faults = 0 => \A a, b \in elected : a.term = b.term => a.leader = b.leader

\* The vote of v for c in term t is known to someone: to v itself, to a reply on
\* the way, to the election of c, or to the history of elections.
Granted(v, t, c) ==
    \/ currentTerm[v] = t /\ votedFor[v] = c
    \/ \E m \in votes : /\ m.type = "Vote" /\ m.voteGranted
                        /\ m.from = v /\ m.round = t /\ m.to = c
    \/ election[c] # Nil /\ election[c].term = t /\ v \in election[c].granted
    \/ \E e \in elected : e.term = t /\ e.leader = c /\ v \in e.voters

\* Why elections are safe, as an inductive invariant.  Wherever a vote is still
\* known, its voter is bound by it or has gone on to a later term, and no voter
\* is known to have voted for two candidates of a term.  A candidate that still
\* collects votes is in the term it collects them for and has voted for itself;
\* nobody else's vote is counted twice; whoever won had a quorum.
VotesBind ==
    faults = 0 =>
        /\ \A v, c \in Server, t \in Term : Granted(v, t, c) =>
              \/ currentTerm[v] > t
              \/ currentTerm[v] = t /\ votedFor[v] = c
        /\ \A v, c, d \in Server, t \in Term : Granted(v, t, c) /\ Granted(v, t, d) => c = d
        /\ \A s \in Server : election[s] # Nil =>
              /\ s \notin election[s].granted
              /\ state[s] = Candidate => /\ currentTerm[s] = election[s].term
                                         /\ votedFor[s] = s
        /\ \A m \in votes : m.from # m.to
        /\ \A e \in elected : Cardinality(e.voters) >= ElectionQuorum(e.leader)

\* A node never goes back to an earlier term and never takes back the vote it
\* gave in a term, although HandleRequestVote may refuse, becomeFollower resets
\* votedFor, and a restart reads both from the file.
VotesKept ==
    [][faults' = 0 => \A s \in Server :
          /\ currentTerm'[s] >= currentTerm[s]
          /\ currentTerm'[s] = currentTerm[s] /\ votedFor[s] # Nil
                => votedFor'[s] = votedFor[s]
      ]_vars

\* No log was ever compacted, and no disk write ever failed.
Uncompacted == \A s \in Server : raftLog[s].saved.index = 0
Plain       == faults = 0 /\ Uncompacted

\* A leader only ever adds entries to its own log while it leads a term: no
\* HandleAppendEntries truncates the log of a node that is leader.
LeaderAppendOnly ==
    [][\A s \in Server :
          /\ Plain'
          /\ state[s] = Leader /\ state'[s] = Leader
          => \A i \in Slots(raftLog[s]) : raftLog'[s].entries[i] = raftLog[s].entries[i]
      ]_vars

\* One index and one term name one entry in the whole cluster: Propose and
\* becomeLeader never use a slot twice in a term, and replication copies it.
OneEntryPerSlot ==
    Plain => \A s, t \in Server : \A i \in Slots(raftLog[s]) \cap Slots(raftLog[t]) :
                raftLog[s].entries[i].term = raftLog[t].entries[i].term
                    => raftLog[s].entries[i] = raftLog[t].entries[i]

\* Until some follower has truncated a conflicting suffix, what a leader has
\* noted in matchIndex for a peer is on that peer, entry for entry, although the
\* peer answers with its LastIndex and the reply is not tied to a term.
MatchIsReplicated ==
    Plain /\ ~ conflicted =>
        \A s \in Server : leader[s] # Nil =>
            \A p \in Peers(s) : \A i \in 1 .. leader[s].matchIndex[p] :
                /\ Has(raftLog[p], i)
                /\ raftLog[p].entries[i] = raftLog[s].entries[i]

\* Until then, two nodes have the same entry at every index both have
\* committed, and the leader of the highest term has every committed entry.
CommittedAgree ==
    Plain /\ ~ conflicted =>
        \A s, t \in Server :
            /\ \A i \in 1 .. commitIndex[s] :
                  /\ Has(raftLog[s], i)
                  /\ i <= commitIndex[t] => raftLog[s].entries[i] = raftLog[t].entries[i]
            /\ state[t] = Leader /\ currentTerm[t] >= currentTerm[s]
                  => \A i \in 1 .. commitIndex[s] :
                        raftLog[t].entries[i] = raftLog[s].entries[i]

\* Until then, nodes that have applied equally many entries have equal stores.
ReplicasAgree ==
    Plain /\ ~ conflicted /\ (DurableStore => restarts = 0) =>
        \A s, t \in Server : lastApplied[s] = lastApplied[t] => store[s] = store[t]

\* Every channel in pending belongs to a Propose that waits on that node for
\* that index, so no channel is sent a second result, which would block
\* applyCommitted with the mutex held; and until a suffix is truncated, every
\* Propose that waits is still registered, so that applyCommitted will find it.
PendingMatchesWaiting ==
    /\ \A s \in Server, i \in Index, c \in Client :
          pending[s][i] = c => req[c].st = "waiting" /\ req[c].node = s /\ req[c].index = i
    /\ Plain /\ ~ conflicted =>
          \A c \in Client : req[c].st = "waiting" => pending[req[c].node][req[c].index] = c

\* A Propose that returned nil has its value in the store of the node that
\* answered, although a failing write of the store is only reported to it: as
\* long as nobody else writes the key, no suffix was truncated, no log was
\* compacted, and the store has survived.
AckedIsStored ==
    Uncompacted /\ ~ conflicted =>
        \A c \in Client :
            /\ req[c].st \in {"notified", "done"} /\ req[c].ok
            /\ DurableStore \/ incarnation[req[c].node] = 0
            /\ CmdOf[c].op = "PUT"
            /\ \A d \in Client \ {c} : CmdOf[d].key # CmdOf[c].key
            => store[req[c].node][CmdOf[c].key] = CmdOf[c].value

\* A Propose that was told its command is applied has its entry, of the term in
\* which it was proposed, on a majority of the logs.
AckedByQuorum ==
    \A c \in Client :
        req[c].st \in {"notified", "done"} /\ req[c].ok =>
            2 * Cardinality({s \in Server : raftLog[s].entries[req[c].index] =
                                               [term |-> req[c].term, cmd |-> c]})
                > Cardinality(Server)

\* Until a suffix is truncated, no Propose is acknowledged for another's entry
\* or for one that a majority does not have.
AckedUnlessConflict == Plain /\ ~ conflicted => AckedByQuorum

\* What SaveMeta promises to keep is what the node acts on: between handlers the
\* file has the current term and vote, so a restart changes neither.
MetaIsCurrent ==
    faults = 0 => \A s \in Server :
        meta[s] = [term |-> currentTerm[s], votedFor |-> votedFor[s]]

\* n.leader is set exactly while the node leads: the AppendEntries path, which
\* looks at n.state, never uses a nil leaderState.
LeaderStateMatches == \A s \in Server : leader[s] # Nil <=> state[s] = Leader

\* Nothing is applied before it is committed, even when InstallSnapshot moves
\* both indexes back.
AppliedWithinCommit == \A s \in Server : lastApplied[s] <= commitIndex[s]

\* No process has restarted.
FirstLife == \A s \in Server : incarnation[s] = 0

\* While no node has restarted, the Compact of a takeSnapshot goroutine never
\* takes away a committed entry that applyCommitted has still to read, in
\* whatever order those goroutines get the mutex and whichever writes fail.
UnappliedKept ==
    ~ conflicted /\ FirstLife =>
        \A s \in Server : \A i \in lastApplied[s] + 1 .. commitIndex[s] : Has(raftLog[s], i)

\* Nor does a committed entry wait for ever: while no node has restarted, some
\* applyCommitted goroutine is on its way whenever there is something to apply.
ApplyScheduled ==
    ~ conflicted /\ FirstLife =>
        \A s \in Server : lastApplied[s] < commitIndex[s] => applying[s] \/ applyGo[s] > 0

\* At most one leader is elected in a term.
OneLeaderPerTerm == \A a, b \in elected : a.term = b.term => a.leader = b.leader

\* The end of the log is never before the snapshot boundary.
LastIndexCoversBoundary ==
    \A s \in Server : LastIndex(raftLog[s]) >= raftLog[s].saved.index

\* Every entry up to lastApplied was there to be applied.
AppliedInOrder ==
    \A s \in Server : \A i \in 1 .. lastApplied[s] : Has(raftLog[s], i)

\* leaderState is only used while this node is Leader: a reply to InstallSnapshot
\* that replicateToPeer will act on finds it.
ReplyMeetsLeader ==
    \A m \in DOMAIN rpcs :
        m.type = "SnapshotReply" /\ m.success /\ m.term <= currentTerm[m.to]
            => leader[m.to] # Nil

=============================================================================
