---------------------------- MODULE ElectionQuiet ----------------------------
(***************************************************************************)
(* Why no term has two leaders: VotesBind and MetaIsCurrent are inductive   *)
(* together, as long as SaveMeta reaches the disk.                          *)
(*                                                                          *)
(* Most actions are quiet: they give no vote, count none and elect no one,  *)
(* and the term and the vote of a node stay or the term moves on with no    *)
(* vote.  They are here; the actions of an election are in ElectionSteps,   *)
(* the theorems in RaftProofs.                                              *)
(***************************************************************************)
EXTENDS RaftTypes

\* What an action may do to the term and the vote of node s when it gives no vote.
TermKept(s) ==
    /\ currentTerm'[s] = currentTerm[s] /\ votedFor'[s] = votedFor[s]
    /\ meta'[s] = meta[s]
    /\ state'[s] = Candidate => state[s] = Candidate

TermRaised(s) ==
    /\ currentTerm'[s] > currentTerm[s] /\ votedFor'[s] = Nil
    /\ meta'[s] = [term |-> currentTerm'[s], votedFor |-> Nil]
    /\ state'[s] = Follower

\* No write fails, and every node keeps its term or raises it.
TermsKept == \A s \in Server : TermKept(s) \/ TermRaised(s)

Quiet ==
    /\ faults = 0
    /\ TermsKept
    /\ votes' \subseteq votes
    /\ elected' = elected
    /\ \A s \in Server : election'[s] = election[s] \/ election'[s] = Nil

ElectionInv == VotesBind /\ MetaIsCurrent

-----------------------------------------------------------------------------
(* The argument, apart from the single actions. *)

\* The condition of VotesKept, of one step.
KeepsVotes ==
    \A s \in Server :
        /\ currentTerm'[s] >= currentTerm[s]
        /\ currentTerm'[s] = currentTerm[s] /\ votedFor[s] # Nil
              => votedFor'[s] = votedFor[s]

\* A vote becomes known only when it is given.
NoVoteFromNowhere ==
    \A v, c \in Server, t \in Term :
        Granted(v, t, c)' => Granted(v, t, c) \/ (currentTerm'[v] = t /\ votedFor'[v] = c)

\* The two facts about votes are kept by a step that has both.
LEMMA VotesStayBinding ==
    ASSUME TypeInv, TypeInv', KeepsVotes, NoVoteFromNowhere,
           \A v, c \in Server, t \in Term : Granted(v, t, c) =>
              \/ currentTerm[v] > t
              \/ currentTerm[v] = t /\ votedFor[v] = c,
           \A v, c, d \in Server, t \in Term : Granted(v, t, c) /\ Granted(v, t, d) => c = d
    PROVE  /\ \A v, c \in Server, t \in Term : Granted(v, t, c)' =>
              \/ currentTerm'[v] > t
              \/ currentTerm'[v] = t /\ votedFor'[v] = c
           /\ \A v, c, d \in Server, t \in Term :
                 Granted(v, t, c)' /\ Granted(v, t, d)' => c = d
<1>1. \A v \in Server : currentTerm[v] \in Int /\ currentTerm'[v] \in Int
  BY RaftLogAssumption DEF TypeInv, TypeOK, Term
<1>2. \A v, c \in Server, t \in Term :
        Granted(v, t, c) => \/ currentTerm'[v] > t
                            \/ currentTerm'[v] = t /\ votedFor'[v] = c
  <2> SUFFICES ASSUME NEW v \in Server, NEW c \in Server, NEW t \in Term, Granted(v, t, c)
               PROVE  \/ currentTerm'[v] > t
                      \/ currentTerm'[v] = t /\ votedFor'[v] = c
    OBVIOUS
  <2>1. t \in Int /\ c # Nil
    BY RaftLogAssumption, RaftAssumption DEF Term
  <2>2. CASE currentTerm[v] > t
    BY <1>1, <2>1, <2>2 DEF KeepsVotes
  <2>3. CASE currentTerm[v] = t /\ votedFor[v] = c
    BY <1>1, <2>1, <2>3 DEF KeepsVotes
  <2> QED
    BY <2>2, <2>3
<1>3. \A t \in Term : t \in Int
  BY RaftLogAssumption DEF Term
<1>4. ASSUME NEW v \in Server, NEW c \in Server, NEW d \in Server, NEW t \in Term,
             Granted(v, t, c), currentTerm'[v] = t, votedFor'[v] = d
      PROVE  c = d
  <2>1. \/ currentTerm'[v] > t
        \/ currentTerm'[v] = t /\ votedFor'[v] = c
    BY <1>2, <1>4
  <2> QED
    BY <1>1, <1>3, <1>4, <2>1
<1>5. \A v, c, d \in Server, t \in Term : Granted(v, t, c)' /\ Granted(v, t, d)' => c = d
  <2> SUFFICES ASSUME NEW v \in Server, NEW c \in Server, NEW d \in Server, NEW t \in Term,
                      Granted(v, t, c)', Granted(v, t, d)'
               PROVE  c = d
    OBVIOUS
  <2>1. Granted(v, t, c) \/ (currentTerm'[v] = t /\ votedFor'[v] = c)
    BY DEF NoVoteFromNowhere
  <2>2. Granted(v, t, d) \/ (currentTerm'[v] = t /\ votedFor'[v] = d)
    BY DEF NoVoteFromNowhere
  <2> QED
    BY <1>4, <2>1, <2>2
<1> QED
  BY <1>2, <1>5 DEF NoVoteFromNowhere

\* Quiet steps keep votes.
LEMMA QuietKeepsVotes ==
    ASSUME TypeInv, TypeInv', TermsKept
    PROVE  KeepsVotes
<1>1. \A v \in Server : currentTerm[v] \in Int /\ currentTerm'[v] \in Int
  BY RaftLogAssumption DEF TypeInv, TypeOK, Term
<1>2. ASSUME NEW s \in Server
      PROVE  /\ currentTerm'[s] >= currentTerm[s]
             /\ currentTerm'[s] = currentTerm[s] /\ votedFor[s] # Nil
                   => votedFor'[s] = votedFor[s]
  <2>1. CASE TermKept(s)
    BY <1>1, <2>1 DEF TermKept
  <2>2. CASE TermRaised(s)
    BY <1>1, <2>2 DEF TermRaised
  <2> QED
    BY <2>1, <2>2 DEF TermsKept
<1> QED
  BY <1>2 DEF KeepsVotes

LEMMA QuietKeepsMeta ==
    ASSUME TypeInv, TypeInv', TermsKept, faults = 0, MetaIsCurrent
    PROVE  MetaIsCurrent'
  BY Zenon DEF TermsKept, TermKept, TermRaised, MetaIsCurrent

LEMMA QuietKeepsInv ==
    ASSUME TypeInv, TypeInv', ElectionInv, Quiet
    PROVE  ElectionInv'
<1>1. KeepsVotes /\ MetaIsCurrent'
  BY QuietKeepsVotes, QuietKeepsMeta DEF Quiet, ElectionInv
<1>2. NoVoteFromNowhere
  <2> SUFFICES ASSUME NEW v \in Server, NEW c \in Server, NEW t \in Term, Granted(v, t, c)'
               PROVE  Granted(v, t, c) \/ (currentTerm'[v] = t /\ votedFor'[v] = c)
    BY DEF NoVoteFromNowhere
  <2>1. CASE \E m \in votes' : /\ m.type = "Vote" /\ m.voteGranted
                               /\ m.from = v /\ m.round = t /\ m.to = c
    BY <2>1 DEF Granted, Quiet
  <2>2. CASE election'[c] # Nil /\ election'[c].term = t /\ v \in election'[c].granted
    <3>1. election'[c] = election[c]
      BY <2>2 DEF Quiet
    <3> QED
      BY <2>2, <3>1 DEF Granted
  <2>3. CASE \E e \in elected' : e.term = t /\ e.leader = c /\ v \in e.voters
    BY <2>3 DEF Granted, Quiet
  <2> QED
    BY <2>1, <2>2, <2>3 DEF Granted
<1>3. /\ \A s \in Server : election'[s] # Nil =>
            /\ s \notin election'[s].granted
            /\ state'[s] = Candidate => /\ currentTerm'[s] = election'[s].term
                                        /\ votedFor'[s] = s
      /\ \A m \in votes' : m.from # m.to
      /\ \A e \in elected' : Cardinality(e.voters) >= ElectionQuorum(e.leader)
  BY ZenonT(30) DEF Quiet, ElectionInv, VotesBind, TermsKept, TermKept, TermRaised,
     Candidate, Follower
<1> QED
  BY <1>1, <1>2, <1>3, VotesStayBinding DEF Quiet, ElectionInv, VotesBind, ElectionQuorum

-----------------------------------------------------------------------------
(* The quiet actions. *)

\* faults counts up only: when it is 0 after a step, the step had no failure.
LEMMA NoFaultYet ==
    ASSUME TypeInv, faults' = 0, NEW n \in Nat, DiskFaults(n)
    PROVE  faults = 0 /\ n = 0
<1>1. faults \in Nat
  BY RaftAssumption DEF TypeInv, TypeOK
<1> QED
  BY <1>1 DEF DiskFaults

LEMMA SaveMetaSaves ==
    ASSUME TypeInv, faults' = 0, NEW s \in Server, NEW md, NEW earlier,
           NEW others \in Nat, SaveMeta(s, md, earlier, others)
    PROVE  faults = 0 /\ meta' = [meta EXCEPT ![s] = md]
<1>1. PICK d \in {md, meta[s]} \cup earlier :
        /\ meta' = [meta EXCEPT ![s] = d]
        /\ DiskFaults(others + IF d = md THEN 0 ELSE 1)
  BY Zenon DEF SaveMeta
<1>2. (others + IF d = md THEN 0 ELSE 1) \in Nat
  OBVIOUS
<1>3. faults = 0 /\ (others + IF d = md THEN 0 ELSE 1) = 0
  BY <1>1, <1>2, NoFaultYet
<1>4. d = md
  BY <1>3
<1> QED
  BY <1>1, <1>3, <1>4

LEMMA BecomeFollowerQuiet ==
    ASSUME TypeInv, faults' = 0, NEW s \in Server, NEW t \in Term, t > currentTerm[s],
           NEW others \in Nat, BecomeFollower(s, t, others)
    PROVE  faults = 0 /\ TermsKept
<1>1. faults = 0 /\ meta' = [meta EXCEPT ![s] = [term |-> t, votedFor |-> Nil]]
  BY SaveMetaSaves DEF BecomeFollower
<1>2. TermRaised(s)
  BY <1>1 DEF BecomeFollower, TermRaised, TypeInv, TypeOK
<1>3. \A p \in Server \ {s} : TermKept(p)
  BY <1>1 DEF BecomeFollower, TermKept, TypeInv, TypeOK
<1> QED
  BY <1>1, <1>2, <1>3 DEF TermsKept

LEMMA AcceptLeaderQuiet ==
    ASSUME TypeInv, faults' = 0, NEW s \in Server, NEW m, m.term \in Term,
           NEW others \in Nat, AcceptLeader(s, m, others)
    PROVE  faults = 0 /\ TermsKept
<1>1. CASE m.term > currentTerm[s]
  BY <1>1, BecomeFollowerQuiet DEF AcceptLeader
<1>2. CASE ~ (m.term > currentTerm[s])
  <2>1. UNCHANGED <<termVars, meta>> /\ DiskFaults(others)
    BY <1>2 DEF AcceptLeader
  <2> QED
    BY <2>1, NoFaultYet DEF TermsKept, TermKept, termVars
<1> QED
  BY <1>1, <1>2

LEMMA IdleQuiet ==
    ASSUME TypeInv, faults' = 0, UNCHANGED <<termVars, meta, votes, election, elected>>,
           UNCHANGED faults \/ DiskFaults(1)
    PROVE  Quiet
  BY NoFaultYet DEF Quiet, TermsKept, TermKept, termVars

LEMMA RebootQuiet ==
    ASSUME TypeInv, faults' = 0, MetaIsCurrent, NEW s \in Server, NEW md, NEW rl, NEW kv,
           Reboot(s, md, rl, kv), votes' \subseteq votes,
           \/ md = meta[s]
           \/ \E m : md = MetaAfter(s, m)
    PROVE  Quiet
<1>1. faults = 0 /\ elected' = elected
  BY DEF Reboot
<1>2. \A p \in Server : election'[p] = election[p] \/ election'[p] = Nil
  <2>1. election' = [election EXCEPT ![s] = Nil] /\ election \in [Server -> Election \cup {Nil}]
    BY DEF Reboot, TypeInv, TypeOK
  <2> QED
    BY <2>1
<1>3. \A p \in Server \ {s} : TermKept(p)
  <2>1. /\ currentTerm' = [currentTerm EXCEPT ![s] = md.term]
        /\ votedFor'    = [votedFor EXCEPT ![s] = md.votedFor]
        /\ meta'        = [meta EXCEPT ![s] = md]
        /\ state'       = [state EXCEPT ![s] = Follower]
    BY DEF Reboot
  <2> QED
    BY <2>1 DEF TermKept, TypeInv, TypeOK
<1>4. /\ currentTerm'[s] = md.term /\ votedFor'[s] = md.votedFor
      /\ meta'[s] = md /\ state'[s] = Follower
  BY DEF Reboot, TypeInv, TypeOK
<1>5. meta[s].term = currentTerm[s] /\ meta[s].votedFor = votedFor[s]
  <2>1. meta[s] = [term |-> currentTerm[s], votedFor |-> votedFor[s]]
    BY <1>1 DEF MetaIsCurrent
  <2> QED
    BY <2>1
<1>6. TermKept(s) \/ TermRaised(s)
  <2>1. CASE md = meta[s]
    BY <1>4, <1>5, <2>1 DEF TermKept, Follower, Candidate
  <2>2. ASSUME NEW m, md = MetaAfter(s, m), md # meta[s] PROVE TermRaised(s)
    <3>1. m.term > currentTerm[s] /\ md = [term |-> m.term, votedFor |-> Nil]
      BY <2>2 DEF MetaAfter
    <3> QED
      BY <1>4, <3>1 DEF TermRaised
  <2> QED
    BY <2>1, <2>2
<1> QED
  BY <1>1, <1>2, <1>3, <1>6 DEF Quiet, TermsKept

LEMMA ReplicationQuiet ==
    ASSUME TypeInv, faults' = 0,
           \/ \E s \in Server, p \in Server : ReplicateToPeer(s, p)
           \/ AppendStep
           \/ \E m \in DOMAIN rpcs : LoseRpc(m)
    PROVE  Quiet
<1>1. CASE \E s \in Server, p \in Server : ReplicateToPeer(s, p)
  BY ZenonT(30), <1>1, IdleQuiet DEF ReplicateToPeer, diskVars
<1>2. CASE \E m \in DOMAIN rpcs : LoseRpc(m)
  BY <1>2, IdleQuiet DEF LoseRpc, diskVars
<1>3. CASE AppendStep
  <2>1. PICK s \in Server, m \in DOMAIN rpcs :
            \/ RejectAppend(s, m) \/ MismatchAppend(s, m) \/ AcceptAppend(s, m)
            \/ \E k \in 0 .. MaxIndex : FailAppend(s, m, k)
            \/ HandleAppendReply(s, m)
    BY <1>3 DEF AppendStep
  <2>2. CASE RejectAppend(s, m)
    BY <2>2, IdleQuiet DEF RejectAppend, diskVars
  <2>3. ASSUME NEW others \in Nat, AcceptLeader(s, m, others), Received(s, m, "AppendEntries"),
               UNCHANGED <<votes, election, elected>>
        PROVE  Quiet
    BY <2>3, AppendRequestFields, AcceptLeaderQuiet DEF Quiet
  <2>4. CASE MismatchAppend(s, m)
    BY <2>3, <2>4 DEF MismatchAppend
  <2>5. CASE AcceptAppend(s, m)
    BY <2>3, <2>5 DEF AcceptAppend
  <2>6. CASE \E k \in 0 .. MaxIndex : FailAppend(s, m, k)
    BY <2>3, <2>6 DEF FailAppend
  <2>7. CASE HandleAppendReply(s, m)
    <3>1. UNCHANGED <<votes, election, elected>>
      BY <2>7 DEF HandleAppendReply
    <3>2. \/ UNCHANGED <<currentTerm, votedFor, state, meta, faults>>
          \/ m.term > currentTerm[s] /\ BecomeFollower(s, m.term, 0)
      BY <2>7 DEF HandleAppendReply, termVars
    <3>3. m.term \in Term
      BY <2>7, RpcTypes DEF HandleAppendReply, Received, AppendReply
    <3>4. CASE UNCHANGED <<currentTerm, votedFor, state, meta, faults>>
      BY <3>1, <3>4 DEF Quiet, TermsKept, TermKept
    <3> QED
      BY <3>1, <3>2, <3>3, <3>4, BecomeFollowerQuiet DEF Quiet
  <2> QED
    BY <2>1, <2>2, <2>4, <2>5, <2>6, <2>7
<1> QED
  BY <1>1, <1>2, <1>3

LEMMA SnapshotQuiet ==
    ASSUME TypeInv, faults' = 0, MetaIsCurrent, SnapshotStep
    PROVE  Quiet
<1>1. PICK s \in Server :
        \/ \E g \in snapGo[s] : ReadSnapshot(s, g) \/ TakeSnapshot(s, g)
        \/ \E m \in DOMAIN rpcs :
              \/ RejectSnapshot(s, m) \/ InstallSnapshot(s, m) \/ FailSnapshot(s, m)
              \/ HandleSnapshotReply(s, m)
  BY DEF SnapshotStep
<1>2. CASE \E g \in snapGo[s] : ReadSnapshot(s, g) \/ TakeSnapshot(s, g)
  BY <1>2, IdleQuiet DEF ReadSnapshot, TakeSnapshot, diskVars, netVars
<1>3. ASSUME NEW m \in DOMAIN rpcs, RejectSnapshot(s, m) PROVE Quiet
  BY <1>3, IdleQuiet DEF RejectSnapshot, diskVars
<1>4. ASSUME NEW m \in DOMAIN rpcs, InstallSnapshot(s, m) \/ FailSnapshot(s, m) PROVE Quiet
  <2>1. Received(s, m, "InstallSnapshot") /\ UNCHANGED <<votes, election, elected>>
    BY Zenon, <1>4 DEF InstallSnapshot, FailSnapshot
  <2>2. AcceptLeader(s, m, 0) \/ AcceptLeader(s, m, 1)
    BY ZenonT(30), <1>4 DEF InstallSnapshot, FailSnapshot
  <2> QED
    BY <2>1, <2>2, SnapshotRequestFields, AcceptLeaderQuiet DEF Quiet
<1>5. ASSUME NEW m \in DOMAIN rpcs, HandleSnapshotReply(s, m) PROVE Quiet
  <2>1. \/ /\ m.term > currentTerm[s]
           /\ BecomeFollower(s, m.term, 0)
           /\ UNCHANGED <<election, elected, votes>>
        \/ UNCHANGED <<meta, currentTerm, votedFor, state, election, faults, elected, votes>>
        \/ /\ Reboot(s, meta[s], raftLog[s], store[s])
           /\ votes' = DropVotesTo(s)
    BY <1>5 DEF HandleSnapshotReply, termVars, diskVars
  <2>2. m.term \in Term
    BY <1>5, RpcTypes DEF HandleSnapshotReply, Received, SnapshotReply
  <2>3. CASE /\ m.term > currentTerm[s]
             /\ BecomeFollower(s, m.term, 0)
             /\ UNCHANGED <<election, elected, votes>>
    BY <2>2, <2>3, BecomeFollowerQuiet DEF Quiet
  <2>4. CASE UNCHANGED <<meta, currentTerm, votedFor, state, election, faults, elected, votes>>
    BY <2>4 DEF Quiet, TermsKept, TermKept
  <2>5. CASE /\ Reboot(s, meta[s], raftLog[s], store[s])
             /\ votes' = DropVotesTo(s)
    BY <2>5, OnDisk, RebootQuiet
  <2> QED
    BY <2>1, <2>3, <2>4, <2>5
<1> QED
  BY <1>1, <1>2, <1>3, <1>4, <1>5

LEMMA ApplyQuiet ==
    ASSUME TypeInv, faults' = 0, ApplyStep
    PROVE  Quiet
<1>1. PICK s \in Server : ApplyNothing(s) \/ ApplyMissing(s) \/ ApplyEntry(s)
  BY DEF ApplyStep
<1>2. CASE ApplyNothing(s) \/ ApplyMissing(s)
  BY <1>2, IdleQuiet DEF ApplyNothing, ApplyMissing, diskVars, netVars
<1>3. CASE ApplyEntry(s)
  <2>1. UNCHANGED <<termVars, meta, votes, election, elected>>
    BY ZenonT(30), <1>3 DEF ApplyEntry, netVars
  <2>2. UNCHANGED faults \/ DiskFaults(1)
    BY ZenonT(30), <1>3 DEF ApplyEntry
  <2> QED
    BY <2>1, <2>2, IdleQuiet
<1> QED
  BY <1>1, <1>2, <1>3

LEMMA RestartQuiet ==
    ASSUME TypeInv, faults' = 0, MetaIsCurrent, RestartStep
    PROVE  Quiet
<1>1. PICK s \in Server :
        \/ Restart(s)
        \/ \E m \in votes : RestartInVote(s, m)
        \/ \E m \in DOMAIN rpcs :
              \/ \E k \in 0 .. MaxIndex : RestartInAppend(s, m, k)
              \/ RestartInInstall(s, m)
  BY DEF RestartStep
<1>2. CASE Restart(s)
  BY <1>2, OnDisk, RebootQuiet DEF Restart
<1>3. ASSUME NEW m \in votes, RestartInVote(s, m) PROVE Quiet
  <2>1. votes' \subseteq votes
    BY <1>3, OnDisk DEF RestartInVote
  <2>2. Reboot(s, MetaAfter(s, m), raftLog[s], store[s])
    BY <1>3 DEF RestartInVote
  <2> QED
    BY <2>1, <2>2, RebootQuiet
<1>4. ASSUME NEW m \in DOMAIN rpcs, NEW k \in 0 .. MaxIndex, RestartInAppend(s, m, k)
      PROVE  Quiet
  <2>1. votes' \subseteq votes
    BY ZenonT(30), <1>4, OnDisk DEF RestartInAppend
  <2>2. Reboot(s, MetaAfter(s, m), MergeFirst(raftLog[s], m, k), store[s])
    BY ZenonT(30), <1>4 DEF RestartInAppend
  <2> QED
    BY <2>1, <2>2, RebootQuiet
<1>5. ASSUME NEW m \in DOMAIN rpcs, RestartInInstall(s, m) PROVE Quiet
  <2>1. votes' \subseteq votes
    BY <1>5, OnDisk DEF RestartInInstall
  <2>2. Reboot(s, MetaAfter(s, m), raftLog[s], m.data)
    BY <1>5 DEF RestartInInstall
  <2> QED
    BY <2>1, <2>2, RebootQuiet
<1> QED
  BY <1>1, <1>2, <1>3, <1>4, <1>5

LEMMA ClientQuiet ==
    ASSUME TypeInv, faults' = 0, ClientStep
    PROVE  Quiet
<1>1. PICK c \in Client :
        \/ \E s \in Server : Propose(c, s)
        \/ ProposeReturns(c) \/ ProposeTimeout(c)
  BY DEF ClientStep
<1>2. CASE \E s \in Server : Propose(c, s)
  BY <1>2, IdleQuiet DEF Propose, netVars
<1>3. CASE ProposeReturns(c)
  BY <1>3, IdleQuiet DEF ProposeReturns, diskVars, netVars
<1>4. CASE ProposeTimeout(c)
  BY <1>4, IdleQuiet DEF ProposeTimeout, diskVars, netVars
<1> QED
  BY <1>1, <1>2, <1>3, <1>4

=============================================================================
