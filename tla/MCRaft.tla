------------------------------- MODULE MCRaft -------------------------------
(* Values for the constants of Raft that a configuration file cannot write. *)
EXTENDS Raft, TLC

CONSTANTS k1, v1, v2, c1, c2, s1, s2, s3

\* Two writers of one key.  The CAS of c2 succeeds after the PUT of c1 and fails
\* before it, so the order shows in the store, and so does a second application
\* of the PUT.
MCCmdOf ==
    [c \in Client |->
        IF c = c1 THEN [op |-> "PUT", key |-> k1, value |-> v1, prev |-> Empty]
                  ELSE [op |-> "CAS", key |-> k1, value |-> v2, prev |-> v1]]

NoopOf(t) == [term |-> t, cmd |-> Noop]

\* A state that Spec reaches: s1 has won the first election with every vote and
\* has the log rl, of which it has replicated nothing.  The budgets in spent are
\* used up; a failed write is one of an append to the follower.
Elected(rl, rq, spent) ==
    /\ raftLog      = [s \in Server |-> IF s = s1 THEN rl ELSE EmptyLog]
    /\ meta         = [s \in Server |-> [term |-> 1, votedFor |-> s1]]
    /\ store        = [s \in Server |-> EmptyStore]
    /\ currentTerm  = [s \in Server |-> 1]
    /\ votedFor     = [s \in Server |-> s1]
    /\ state        = [s \in Server |-> IF s = s1 THEN Leader ELSE Follower]
    /\ commitIndex  = [s \in Server |-> 0]
    /\ lastApplied  = [s \in Server |-> 0]
    /\ leaderID     = [s \in Server |-> IF s = s1 \/ spent.faults > 0 THEN s1 ELSE Nil]
    /\ leader       = [s \in Server |->
                         IF s = s1 THEN NewLeaderState(0) ELSE Nil]
    /\ pending      = [s \in Server |-> [i \in Index |-> Nil]]
    /\ snapshotData = [s \in Server |-> Nil]
    /\ election     = [s \in Server |-> Nil]
    /\ applyGo      = [s \in Server |-> 0]
    /\ applying     = [s \in Server |-> FALSE]
    /\ snapGo       = [s \in Server |-> {}]
    /\ incarnation  = [s \in Server |-> 0]
    /\ votes        = {}
    /\ rpcs         = [m \in {} |-> 0]
    /\ req          = [c \in Client |-> rq]
    /\ elections    = spent.elections
    /\ restarts     = spent.restarts
    /\ faults       = spent.faults
    /\ elected      = {[term |-> 1, leader |-> s1, voters |-> Server]}
    /\ conflicted   = FALSE

\* Its log then has its no-op.
FirstLog == AppendEntry(EmptyLog, 1, NoopOf(1))

InitElected == Elected(FirstLog, Idle, [elections |-> 1, restarts |-> 0, faults |-> 0])

SpecElected == InitElected /\ [][Next]_vars

\* The two nodes that have not been singled out are interchangeable.
FollowerSymmetry == Permutations(Server \ {s1})

\* A state that Spec reaches with two nodes, a client and a threshold of 1.  s1
\* led term 1 and committed its no-op, took a snapshot, compacted its log and
\* restarted: it has read the boundary 1 back.  It then led term 2; both nodes
\* have committed, applied and compacted away its no-op and the command of c1.
InitCompacted ==
    /\ raftLog      = [s \in Server |->
                         IF s = s1 THEN Compact(Reopen(Compact(EmptyLog, 1, 1)), 3, 2)
                                   ELSE Compact(EmptyLog, 3, 2)]
    /\ meta         = [s \in Server |-> [term |-> 2, votedFor |-> s1]]
    /\ store        = [s \in Server |-> ApplyCommand(EmptyStore, CmdOf[c1])]
    /\ currentTerm  = [s \in Server |-> 2]
    /\ votedFor     = [s \in Server |-> s1]
    /\ state        = [s \in Server |-> IF s = s1 THEN Leader ELSE Follower]
    /\ commitIndex  = [s \in Server |-> 3]
    /\ lastApplied  = [s \in Server |-> 3]
    /\ leaderID     = [s \in Server |-> s1]
    /\ leader       = [s \in Server |->
                         IF s = s1 THEN [nextIndex  |-> [p \in Server |-> IF p = s1 THEN 2 ELSE 4],
                                         matchIndex |-> [p \in Server |-> IF p = s1 THEN 0 ELSE 3]]
                                   ELSE Nil]
    /\ pending      = [s \in Server |-> [i \in Index |-> Nil]]
    /\ snapshotData = store
    /\ election     = [s \in Server |-> Nil]
    /\ applyGo      = [s \in Server |-> 0]
    /\ applying     = [s \in Server |-> FALSE]
    /\ snapGo       = [s \in Server |-> {}]
    /\ incarnation  = [s \in Server |-> IF s = s1 THEN 1 ELSE 0]
    /\ votes        = {}
    /\ rpcs         = [m \in {} |-> 0]
    /\ req          = [c \in Client |-> IF c = c1 THEN [st |-> "done", node |-> s1, index |-> 3,
                                                        term |-> 2, ok |-> TRUE]
                                        ELSE Idle]
    /\ elections    = 2
    /\ restarts     = 1
    /\ faults       = 0
    /\ elected      = {[term |-> t, leader |-> s1, voters |-> Server] : t \in 1 .. 2}
    /\ conflicted   = FALSE

SpecCompacted == InitCompacted /\ [][Next]_vars

\* The first leader again, within the bounds that InitCompacted needs: one more
\* restart and one failing write, but no election.
InitFaulty ==
    Elected(FirstLog, Idle,
            [elections |-> MaxElections, restarts |-> MaxRestarts - 1, faults |-> 0])

\* Or one more election, after c1 has proposed and its context has ended.
InitAbandoned ==
    Elected(AppendEntry(FirstLog, 2, [term |-> 1, cmd |-> c1]),
            [st |-> "failed", node |-> s1, index |-> 2, term |-> 1, ok |-> FALSE],
            [elections |-> MaxElections - 1, restarts |-> MaxRestarts, faults |-> MaxFaults])

SpecStorage == (InitCompacted \/ InitFaulty \/ InitAbandoned) /\ [][Next]_vars

\* A state that Spec reaches with three nodes, a client and two RPCs in flight.
\* s1 led term 1 and replicated its no-op; the reply of s3 is still under way.
\* s2 leads term 2 and has sent its no-op to s3; that request is under way too,
\* and meanwhile c1 has proposed.
InitOvertaken ==
    /\ raftLog      = [s \in Server |->
                         IF s = s2 THEN AppendEntry(AppendEntry(FirstLog, 2, NoopOf(2)), 3,
                                                    [term |-> 2, cmd |-> c1])
                                   ELSE FirstLog]
    /\ meta         = [s \in Server |-> [term |-> 2, votedFor |-> s2]]
    /\ store        = [s \in Server |-> EmptyStore]
    /\ currentTerm  = [s \in Server |-> 2]
    /\ votedFor     = [s \in Server |-> s2]
    /\ state        = [s \in Server |-> IF s = s2 THEN Leader ELSE Follower]
    /\ commitIndex  = [s \in Server |-> 0]
    /\ lastApplied  = [s \in Server |-> 0]
    /\ leaderID     = [s \in Server |-> IF s = s2 THEN s2 ELSE s1]
    /\ leader       = [s \in Server |-> IF s = s2 THEN NewLeaderState(1) ELSE Nil]
    /\ pending      = [s \in Server |-> [i \in Index |-> IF s = s2 /\ i = 3 THEN c1 ELSE Nil]]
    /\ snapshotData = [s \in Server |-> Nil]
    /\ election     = [s \in Server |-> Nil]
    /\ applyGo      = [s \in Server |-> 0]
    /\ applying     = [s \in Server |-> FALSE]
    /\ snapGo       = [s \in Server |-> {}]
    /\ incarnation  = [s \in Server |-> 0]
    /\ votes        = {}
    /\ rpcs         = [m \in {[type |-> "AppendReply", term |-> 1, success |-> TRUE,
                               matchIndex |-> 1, conflictIndex |-> 0, from |-> s3, to |-> s1],
                              [type |-> "AppendEntries", term |-> 2, from |-> s2, to |-> s3,
                               prevLogIndex |-> 1, prevLogTerm |-> 1, entries |-> <<NoopOf(2)>>,
                               leaderCommit |-> 0, inc |-> 0]} |-> 1]
    /\ req          = [c \in Client |-> [st |-> "waiting", node |-> s2, index |-> 3,
                                         term |-> 2, ok |-> FALSE]]
    /\ elections    = 2
    /\ restarts     = 0
    /\ faults       = 0
    /\ elected      = {[term |-> 1, leader |-> s1, voters |-> Server],
                       [term |-> 2, leader |-> s2, voters |-> Server]}
    /\ conflicted   = FALSE

\* Steps that say nothing about matchIndex and commitIndex are not scheduled:
\* applyCommitted, and the end of a Propose.
LogsOnly == UNCHANGED <<lastApplied, applying>> /\ \A c \in Client : req'[c].st # "failed"

SpecOvertaken == InitOvertaken /\ [][Next /\ LogsOnly /\ ~ conflicted]_vars

Symmetry == Permutations(Server)

=============================================================================
