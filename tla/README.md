# RaftrixDB in TLA+

RaftrixDB is a replicated key-value store: an HTTP server in front of a Raft
node, which keeps a log in a BoltDB file and drives a storage engine. This
directory holds TLA+ models of it, the TLC configurations that check them on
small instances, and TLAPS proofs of what holds for every instance. All
definitions are translated from the Go code; `PROJECT.json` gives the lines.

To check one run: `tlc -config election.cfg MCRaft` (`LogLoops` for
`log_loops.cfg`). To check the proofs: `tlapm RaftProofs.tla`, and likewise for
the other five proof modules.

## 1. The system

| Part | Source | State | Operations |
|---|---|---|---|
| Raft node | `internal/consensus/raft.go`, `state.go`, `snapshot.go` | term, vote, role, commit and apply indexes, `leaderState`, `pending` channels, last snapshot; one mutex | `run`, `startElection`, `becomeFollower`, `becomeLeader`, `replicateToPeer`, three RPC handlers, `applyCommitted`, `takeSnapshot`, `Propose`, `Stop` |
| Raft log | `internal/consensus/log.go` | a bucket of entries, term and vote, a snapshot boundary on disk and one in memory | `Append`, `Get`, `GetRange`, `TruncateFrom`, `LastIndex`, `LastTerm`, `TermAt`, `Compact`, `SaveMeta`, `LoadMeta` |
| State machine | `internal/storage/*.go` | a map from keys to bytes, in memory or in a Bolt file | `Put`, `Delete`, `Get`, `Scan`, snapshot and restore |
| Transport | `internal/cluster/discovery.go` | none of its own | one HTTP call per RPC, with a timeout |
| Peer health | `internal/cluster/member.go`, `heartbeat.go` | missed calls per peer | success, failure, a periodic log line |
| HTTP API | `pkg/api/v1/kvstore.go` | none | keys, scan, CAS, transactions, RPC endpoints |
| Transactions | `internal/transaction/*.go` | operations collected so far | `Commit` proposes them one by one |
| Process, configuration | `cmd/keystore/main.go`, `config/config.go` | none | wiring, defaults, shutdown |
| Metrics, protobuf | `internal/metrics/*.go`, `*.proto` | | nothing calls them |

How they meet. A client's write becomes `Propose` on the leader, which appends
to its log, registers a channel under the entry's index and waits. On each
heartbeat and after each `Propose` the leader starts one goroutine per peer; it
reads the log under the mutex, lets go of the mutex for the call, and takes it
again for the reply. Moving `commitIndex` starts an `applyCommitted` goroutine,
which writes to the engine and wakes the `Propose` waiting at that index; every
`SnapshotThreshold` entries it starts a `takeSnapshot` goroutine, which reads
the engine without the mutex and then compacts the log.

What is hard to get right here:

- state used after the mutex was given up: votes, replies, snapshots;
- replies that are late, lost, or answer a question nobody asks any more;
- a process that stops between two writes of one handler, and write errors that
  most callers drop;
- two values of one fact: the term in memory and on disk, the snapshot boundary
  in memory and on disk;
- arithmetic at the ends: an empty log, a log compacted to its last entry, an
  even number of nodes, a cluster of one.

`PROJECT.json` lists these one by one under `hazards`, with the properties that
watch them.

## 2. The modules

| Module | Models |
|---|---|
| `RaftLog` | the log as a value and its operations; the loop of `HandleAppendEntries` and its conflict scan in closed form |
| `KVStore` | the engine as `applyCommand` uses it |
| `Raft` | the cluster: nodes, goroutines, network, disk, clients. It composes the two above |
| `MCRaft` | values for constants, reachable starting states, symmetry |
| `LogLoops` | the same loops step by step, compared with the closed forms of `RaftLog` |
| `RaftLogProofs` | lemmas on the log operations |
| `RaftTypes`, `RaftHandlerTypes` | the inductive type invariant, and that each action keeps it |
| `ElectionQuiet`, `ElectionSteps` | the election invariant, and that each action keeps it: the quiet ones, and those of an election |
| `RaftProofs` | the remaining actions and the theorems |

### Correspondence of state

A variable of `Raft` that is named like a field of `RaftNode` is that field, for
each node. The others:

- `raftLog[s]`: `entries` and `saved` are in the file; `snapshotIndex` and
  `snapshotTerm` are the fields of the open `RaftLog`, which only `newRaftLog`
  sets (`Reopen`).
- `meta[s]`: the term and vote `SaveMeta` wrote last.
- `election[s]`, `applyGo[s]`, `applying[s]`, `snapGo[s]`: the goroutines.
  `applying` is an `applyCommitted` between two entries; it holds the mutex, so
  nothing that needs the mutex may happen (`Unlocked`). `takeSnapshot` reads the
  engine without it, which is why the loop is split at all. `snapGo` is a set:
  two `takeSnapshot` calls with the same arguments and data would be one
  element.
- `votes`, `rpcs`: calls under way, first as a request, then as a reply. A
  request outlives its sender; `inc` tells whether the goroutine that would read
  the reply still exists.
- `req[c]`: one `Propose`, from its call to its return.
- `elections`, `restarts`, `faults` are budgets. `elected` and `conflicted` are
  history: every election won, and whether a follower ever truncated a
  conflicting suffix.

### Correspondence of actions

| Actions | Code |
|---|---|
| `StartElection`, `HandleVote`, `LoseElection`, `WinElection` | the lock regions of `startElection`, and `becomeLeader` |
| `HandleRequestVote` | the handler; both of its `SaveMeta` calls |
| `ReplicateToPeer`, `HandleAppendReply`, `HandleSnapshotReply` | the lock regions of `replicateToPeer`, with `commitCandidate` |
| `RejectAppend`, `MismatchAppend`, `AcceptAppend`, `FailAppend` | the ways `HandleAppendEntries` returns |
| `RejectSnapshot`, `InstallSnapshot`, `FailSnapshot` | the ways `HandleInstallSnapshot` returns |
| `ApplyNothing`, `ApplyMissing`, `ApplyEntry` | `applyCommitted`, entry by entry |
| `ReadSnapshot`, `TakeSnapshot` | `takeSnapshot`, outside and inside the mutex |
| `Propose`, `ProposeReturns`, `ProposeTimeout` | `Propose`, its append and the branches of its `select` |
| `LoseRpc` | a call that fails or times out |
| `Restart`, `RestartInVote`, `RestartInAppend`, `RestartInInstall` | the process stops, between handlers or between two writes of one, and `NewRaftNode` reads its files |

Every disk write may fail where the budget `MaxFaults` allows, and the handler
goes on the way the code does. A vote request that is lost is one that is never
handled; the candidate's `LoseElection` is its timeout.

### Abstractions

- An entry is its term and its client; the command is `CmdOf[client]`. A message
  carries the fields that the receiver reads.
- Timers are replaced by choice: an election timeout or a heartbeat may happen
  at any time. No property depends on durations.
- Bolt is external. A transaction is atomic, and a cursor that deletes while it
  iterates is taken to visit every key.
- At this revision `raft.go` uses package `bytes` without importing it. The
  model takes the import as given.

## 3. The runs

None of the runs assumes fairness: all properties so far are safety properties.
Deadlock is not checked in the runs of `Raft`, because a behaviour ends when a
budget is used up; the system itself may also stay idle.

### Runs that pass

| Run | Instance | What it shows |
|---|---|---|
| `election` | 3 nodes, 3 terms, 3 elections, 2 crashes | `ElectionSafety`: no term has two leaders. `VotesBind`: the inductive invariant behind it. `MetaIsCurrent`: the file has the term and vote the node acts on. `VotesKept`: no step, a restart included, takes back a term or a vote |
| `replication` | 3 nodes, 2 terms, 2 entries, 1 client, 1 RPC in flight, from the first leader on | `LeaderAppendOnly`, `OneEntryPerSlot`; and until a follower truncates a conflicting suffix: `CommittedAgree`, `PendingMatchesWaiting`, `AckedUnlessConflict` |
| `overtaken` | 3 nodes, 3 terms of which one node may lead two, 4 entries, 1 client, 2 RPCs in flight | `MatchIsReplicated` and `CommittedAgree`, until a follower truncates a conflicting suffix: requests overtake each other, and a reply reaches a leader that asked for it two terms ago |
| `applying` | 2 nodes, 2 terms, 4 entries, a PUT and a CAS of one key, 1 restart, memory engine | `ReplicasAgree`: equally many entries applied, equal data, whatever the order of the commands and however many `applyCommitted` goroutines there are. `PendingMatchesWaiting` with two calls waiting, `AppliedWithinCommit` |
| `storage` | 2 nodes with the Bolt engine, a snapshot after every entry, 1 client, one failing write, crashes inside handlers, from empty and from compacted logs | `UnappliedKept`: until a node restarts, compaction does not take away what is still to be applied. `ApplyScheduled`: nor does it wait for a goroutine that nobody starts. `AckedIsStored`: a failing engine write reaches the caller. `TypeOK`, `LeaderStateMatches`, `PendingMatchesWaiting`, `AppliedWithinCommit` on the error paths, and when snapshots are sent, refused, installed and interrupted |
| `log_loops` | logs of 4 entries, 3 terms, 2 reopenings | `MergeIsLoop`, `ScanFindsFirst`: the closed forms used in `Raft` are what the loops compute |

### Runs that find a violation

Each of these states what a comment, a test or the README of the repository
says, and TLC shows a behaviour of the code that contradicts it. `findings` in
`PROJECT.json` quotes the line.

| Run | Property | What happens |
|---|---|---|
| `four_nodes` | `OneLeaderPerTerm` | the quorum is computed from the peers, without the node; of four nodes two votes win |
| `lost_vote` | `OneLeaderPerTerm` | `SaveMeta` fails, the vote is granted all the same, and a crash forgets it |
| `skipped_entry` | `AppliedInOrder` | the entry in conflict is truncated and its replacement is not appended; `commitIndex` moves past the slot, and `applyCommitted` counts the missing entry as applied |
| `wrong_ack` | `AckedByQuorum` | a deposed leader's `Propose` is answered by another entry at its index |
| `compaction` | `LastIndexCoversBoundary` | `Compact` does not update the boundary in memory, so `LastIndex` falls behind it |
| `nil_leader` | `ReplyMeetsLeader` | the reply to `InstallSnapshot` uses `n.leader` without looking at the role |

`skipped_entry` is why several properties hold only until the first
truncated conflict: after it the code breaks them. The condition is the variable
`conflicted`, and the behaviours up to that point still include deposed leaders,
late replies and second elections.

### Bounds, and why they are enough

| Bound | Meaning | Chosen so that |
|---|---|---|
| `MaxTerm`, `MaxElections` | terms, elections started | two candidates compete in one term and a third comes later (`election`); one leader deposes another (`replication`); a node leads, is deposed and leads again (`overtaken`) |
| `MaxIndex` | log length | a no-op and one more entry, so that logs can conflict; a command behind each of two no-ops (`overtaken`), two commands between them (`applying`) |
| `MaxRestarts` | crashes | a vote can be asked for again after a crash of the voter, and of the candidate |
| `MaxFaults` | failing writes | one is enough to take every error path |
| `MaxRpcs` | replication RPCs in flight, requests and replies, equal ones counted apart | two in `overtaken`: one can pass the other, or arrive in a later term. Elsewhere one, which may still be lost or handled arbitrarily late, after elections and restarts |
| `SnapshotThreshold` | entries between snapshots | 1 makes every entry take one; 10 means never |
| `MaxReopens` | reopenings of the log in `LogLoops` | a boundary can be read back, moved on disk, and read back again |

Four runs start late to reach deep states within these bounds. `InitElected` (a
first leader with every vote) is reached from `Init` in 6 steps, `InitOvertaken`
(the start of `overtaken`) in 19, and `InitCompacted` (both nodes have compacted
away everything, one after a restart) in 42; `InitAbandoned` is 5 steps after
`InitElected`. All were confirmed by searching for them with TLC. `storage` has
three starts, `InitCompacted`, `InitFaulty` and `InitAbandoned`, which use up
different parts of the same budgets.

`overtaken` leaves `applyCommitted` and the end of a `Propose` unscheduled
(`LogsOnly`) and stops at the first truncated conflict: its two properties read
nothing that those steps change, and say nothing after it. `applying` has two
nodes, so logs never conflict there: a winner needs the vote of the only other
node. With a threshold of 10 nothing is compacted, which `ReplicasAgree` requires.

Symmetry
is over nodes that no definition singles out, and no run with symmetry checks
liveness.

## 4. The proofs

Proved for every set of nodes, every client set and every value of the bounds:

| Theorem (in `RaftProofs`) | States |
|---|---|
| `TypeCorrect` | `Spec => []TypeOK` |
| `LeaderStateCorrect` | `Spec => []LeaderStateMatches` |
| `VotesAreBinding` | `Spec => [](VotesBind /\ MetaIsCurrent)` |
| `VotesAreKept` | `Spec => VotesKept` |
| `ElectionsAreSafe` | `Spec => []ElectionSafety`, if the number of nodes is odd |

Assumptions. `RaftLogAssumption`, `KVAssumption` and `RaftAssumption` say that
the set of nodes is finite, the bounds are natural numbers, and the marker
values (`Nil`, `NoEntry`, `NoValue`) are not among the values they stand beside.
TLC evaluates all three in every run.

Types. `TypeOK` alone is not inductive: a handler that uses `leader[s]` after
looking at `state[s]` needs `LeaderStateMatches`, and an entry appended by a
leader or candidate has a term of at least 1 only because `TermsStarted` says
that such a node has started a term. `TypeInv` is the conjunction of the three.
Since an action leaves most variables alone, `TypeInv` is cut into parts by
variable (`TermPart`, `DataPart`, ...), and the proof of an action treats the
parts it changes.

Elections. `ElectionSafety` speaks of history and is far from inductive. The
invariant is `ElectionInv`, that is `VotesBind` with `MetaIsCurrent`:

1. `Granted(v, t, c)` collects the places where a vote can still be known: the
   voter's own state, a reply on the way, the candidate's count, the history.
   `VotesBind` says that such a vote binds `v` until it leaves term `t`, and that
   two of them for one term agree.
2. Most steps are *quiet*: they keep every node's term and vote, or raise one
   node's term and clear its vote, and they make no vote known. Quiet steps keep
   the invariant (`QuietKeepsInv`). A restart is quiet only because of
   `MetaIsCurrent`, which is why that is part of the invariant.
3. The other steps are starting an election, handling a request, counting a vote
   and winning. Each has its own lemma in `ElectionSteps`.
4. Two winners of a term each had a quorum. For an odd number of nodes two
   quorums meet (`QuorumsMeet`), and the voter in both voted for one candidate.

The hypothesis on the number of nodes is needed: `four_nodes` is the
counterexample without it. The guard `faults = 0` is needed too: `lost_vote`.

Only model-checked: the log, commit, apply and client properties of
`replication`, `overtaken`, `applying` and `storage`. What the recursive loops
of `LogLoops` compute is checked over bounded inputs only, since it would need
induction over data; the proof modules do not use that module.

## 5. Not modelled

- `Stop` and the shutdown order in `main.go`; timer durations; accessors that
  change nothing.
- `AppendBatch` of the log, which nothing calls.
- `Scan`, and the JSON form of snapshots and messages.
- Peer health, transactions, the read paths and redirects of the HTTP API,
  configuration defaults: parts of the plan below.
- Metrics and protobuf declarations: unused by the program.

## 6. Plan

1. An abstract log and leader-per-term specification that `Raft` implements
   (`INSTANCE ... WITH`), first for elections, then for the log up to the first
   conflict.
2. Liveness under weak fairness of the goroutines: whether committed entries are
   applied although `applyCommitted` may return early; whether a node that
   rejoins is brought up to date, as `README.md:23` of the repository promises;
   whether a cluster of one elects a leader.
3. Runs with CAS commands replayed on a durable store after a restart.
4. Modules for transactions and the HTTP API on the abstract log, for the two
   storage engines, for peer health, for configuration, and for shutdown.
5. Proofs: `AppliedWithinCommit`, `PendingMatchesWaiting`, `OneEntryPerSlot`, then
   log matching up to the first conflict, and the refinement of step 1.
