---------------------------- MODULE ElectionSteps ----------------------------
(***************************************************************************)
(* The actions that give votes, count them or elect someone keep the       *)
(* invariant of ElectionQuiet.                                             *)
(***************************************************************************)
EXTENDS ElectionQuiet

\* What ElectionInv says once no fault has happened.
LEMMA InvFacts ==
    ASSUME ElectionInv, faults = 0
    PROVE  /\ \A v, c \in Server, t \in Term : Granted(v, t, c) =>
                 \/ currentTerm[v] > t
                 \/ currentTerm[v] = t /\ votedFor[v] = c
           /\ \A v, c, d \in Server, t \in Term : Granted(v, t, c) /\ Granted(v, t, d) => c = d
           /\ \A s \in Server : election[s] # Nil =>
                 /\ s \notin election[s].granted
                 /\ state[s] = Candidate => /\ currentTerm[s] = election[s].term
                                            /\ votedFor[s] = s
           /\ \A m \in votes : m.from # m.to
           /\ \A e \in elected : Cardinality(e.voters) >= ElectionQuorum(e.leader)
           /\ \A s \in Server : meta[s] = [term |-> currentTerm[s], votedFor |-> votedFor[s]]
  BY DEF ElectionInv, VotesBind, MetaIsCurrent

\* A step that gives or counts votes keeps the invariant when it keeps the facts
\* that are not about single votes.
LEMMA InvFromVotes ==
    ASSUME TypeInv, TypeInv', ElectionInv, faults = 0, KeepsVotes, NoVoteFromNowhere,
           \A s \in Server : election'[s] # Nil =>
                 /\ s \notin election'[s].granted
                 /\ state'[s] = Candidate => /\ currentTerm'[s] = election'[s].term
                                             /\ votedFor'[s] = s,
           \A m \in votes' : m.from # m.to,
           \A e \in elected' : Cardinality(e.voters) >= ElectionQuorum(e.leader),
           \A s \in Server : meta'[s] = [term |-> currentTerm'[s], votedFor |-> votedFor'[s]]
    PROVE  ElectionInv'
<1>1. /\ \A v, c \in Server, t \in Term : Granted(v, t, c)' =>
            \/ currentTerm'[v] > t
            \/ currentTerm'[v] = t /\ votedFor'[v] = c
      /\ \A v, c, d \in Server, t \in Term :
            Granted(v, t, c)' /\ Granted(v, t, d)' => c = d
  BY InvFacts, VotesStayBinding
<1> QED
  BY <1>1 DEF ElectionInv, VotesBind, MetaIsCurrent, ElectionQuorum, Peers

\* A candidate sends requests, not votes, and not to itself.
LEMMA AskedAreRequests ==
    ASSUME NEW s, NEW t, NEW last, NEW lastTerm, NEW inc
    PROVE  \A m \in {[type |-> "RequestVote", term |-> t, from |-> s, to |-> p,
                      lastLogIndex |-> last, lastLogTerm |-> lastTerm,
                      inc |-> inc] : p \in Peers(s)} :
              m.from # m.to /\ m.type = "RequestVote"
  BY DEF Peers

LEMMA StartElectionKeeps ==
    ASSUME TypeInv, TypeInv', ElectionInv, faults' = 0, NEW s \in Server, StartElection(s)
    PROVE  ElectionInv' /\ KeepsVotes
<1> DEFINE t == currentTerm[s] + 1
           asked == {[type |-> "RequestVote", term |-> t, from |-> s, to |-> p,
                      lastLogIndex |-> LastIndex(raftLog[s]),
                      lastLogTerm |-> LastTerm(raftLog[s]),
                      inc |-> incarnation[s]] : p \in Peers(s)}
<1>1. faults = 0 /\ meta' = [meta EXCEPT ![s] = [term |-> t, votedFor |-> s]]
  BY SaveMetaSaves DEF StartElection
<1>2. /\ currentTerm' = [currentTerm EXCEPT ![s] = t]
      /\ votedFor' = [votedFor EXCEPT ![s] = s]
      /\ state' = [state EXCEPT ![s] = Candidate]
      /\ election' = [election EXCEPT ![s] = [term |-> t, granted |-> {}]]
      /\ votes' = votes \cup asked
      /\ elected' = elected
  BY DEF StartElection
<1>3. /\ currentTerm \in [Server -> Term] /\ votedFor \in [Server -> Server \cup {Nil}]
      /\ state \in [Server -> {Follower, Candidate, Leader}]
      /\ election \in [Server -> Election \cup {Nil}] /\ meta \in [Server -> Meta]
  BY DEF TypeInv, TypeOK
<1>4. \A v \in Server : currentTerm[v] \in Int /\ currentTerm'[v] \in Int
  BY RaftLogAssumption DEF TypeInv, TypeOK, Term
<1>5. \A m \in asked : m.from # m.to /\ m.type = "RequestVote"
  BY AskedAreRequests
<1> HIDE DEF asked
<1>6. KeepsVotes
  <2>1. currentTerm'[s] > currentTerm[s]
    BY <1>2, <1>3, <1>4
  <2>2. \A p \in Server \ {s} : currentTerm'[p] = currentTerm[p] /\ votedFor'[p] = votedFor[p]
    BY <1>2, <1>3
  <2> QED
    BY <1>4, <2>1, <2>2 DEF KeepsVotes
<1>7. NoVoteFromNowhere
  <2> SUFFICES ASSUME NEW v \in Server, NEW c \in Server, NEW u \in Term, Granted(v, u, c)'
               PROVE  Granted(v, u, c) \/ (currentTerm'[v] = u /\ votedFor'[v] = c)
    BY DEF NoVoteFromNowhere
  <2>1. CASE \E m \in votes' : /\ m.type = "Vote" /\ m.voteGranted
                               /\ m.from = v /\ m.round = u /\ m.to = c
    <3>1. PICK m \in votes' : /\ m.type = "Vote" /\ m.voteGranted
                              /\ m.from = v /\ m.round = u /\ m.to = c
      BY <2>1
    <3>2. m \in votes
      BY <1>2, <1>5, <3>1
    <3> QED
      BY <3>1, <3>2 DEF Granted
  <2>2. CASE election'[c] # Nil /\ election'[c].term = u /\ v \in election'[c].granted
    <3>1. election'[c] = election[c]
      BY <1>2, <1>3, <2>2
    <3> QED
      BY <2>2, <3>1 DEF Granted
  <2>3. CASE \E e \in elected' : e.term = u /\ e.leader = c /\ v \in e.voters
    BY <1>2, <2>3 DEF Granted
  <2> QED
    BY <2>1, <2>2, <2>3 DEF Granted
<1>8. \A p \in Server : election'[p] # Nil =>
        /\ p \notin election'[p].granted
        /\ state'[p] = Candidate => /\ currentTerm'[p] = election'[p].term
                                    /\ votedFor'[p] = p
  BY <1>1, <1>2, <1>3, InvFacts
<1>9. \A m \in votes' : m.from # m.to
  BY <1>1, <1>2, <1>5, InvFacts
<1>10. \A e \in elected' : Cardinality(e.voters) >= ElectionQuorum(e.leader)
  BY <1>1, <1>2, InvFacts
<1>11. \A p \in Server : meta'[p] = [term |-> currentTerm'[p], votedFor |-> votedFor'[p]]
  BY <1>1, <1>2, <1>3, InvFacts
<1> QED
  BY <1>1, <1>6, <1>7, <1>8, <1>9, <1>10, <1>11, InvFromVotes

LEMMA HandleRequestVoteKeeps ==
    ASSUME TypeInv, TypeInv', ElectionInv, faults' = 0, NEW s \in Server, NEW m,
           HandleRequestVote(s, m)
    PROVE  ElectionInv' /\ KeepsVotes
<1> DEFINE newer == m.term > currentTerm[s]
           term  == IF newer THEN m.term ELSE currentTerm[s]
           voted == IF newer THEN Nil ELSE votedFor[s]
           grant == /\ m.term = term
                    /\ CanVote(voted, m.from)
                    /\ UpToDate(m, raftLog[s])
           vote  == IF grant THEN m.from ELSE voted
           reply == [type |-> "Vote", term |-> term, voteGranted |-> grant,
                     from |-> s, to |-> m.from, round |-> m.term]
<1>1. m.term \in Term /\ m.from \in Server /\ m.to = s /\ m \in votes
  BY VoteTypes DEF HandleRequestVote, VoteRequest
<1>2. /\ currentTerm' = [currentTerm EXCEPT ![s] = term]
      /\ votedFor' = [votedFor EXCEPT ![s] = vote]
      /\ state' = [state EXCEPT ![s] = IF newer THEN Follower ELSE @]
      /\ \/ SaveMeta(s, [term |-> term, votedFor |-> vote],
                     IF newer THEN {[term |-> term, votedFor |-> Nil]} ELSE {}, 0)
         \/ ~ newer /\ ~ grant /\ UNCHANGED <<meta, faults>>
      /\ votes' \subseteq votes \cup {reply}
      /\ election' = election /\ elected' = elected
  BY DEF HandleRequestVote
<1>3. /\ currentTerm \in [Server -> Term] /\ votedFor \in [Server -> Server \cup {Nil}]
      /\ state \in [Server -> {Follower, Candidate, Leader}] /\ meta \in [Server -> Meta]
  BY DEF TypeInv, TypeOK
<1>4. /\ \A v \in Server : currentTerm[v] \in Int
      /\ m.term \in Int
  BY <1>1, <1>3, RaftLogAssumption DEF Term
<1>5. /\ grant => m.term = term /\ vote = m.from
      /\ ~ newer => term = currentTerm[s] /\ (votedFor[s] # Nil => vote = votedFor[s])
      /\ newer => term > currentTerm[s]
      /\ ~ newer /\ ~ grant => vote = votedFor[s]
  BY DEF CanVote
<1>6. reply.type = "Vote" /\ reply.voteGranted = grant /\ reply.from = s
      /\ reply.to = m.from /\ reply.round = m.term
  OBVIOUS
<1> HIDE DEF grant, vote, term, reply
<1>7. faults = 0
  BY <1>2, SaveMetaSaves
<1>8. meta' = [meta EXCEPT ![s] = [term |-> term, votedFor |-> vote]]
  <2>1. CASE SaveMeta(s, [term |-> term, votedFor |-> vote],
                      IF newer THEN {[term |-> term, votedFor |-> Nil]} ELSE {}, 0)
    BY <2>1, SaveMetaSaves
  <2>2. CASE ~ newer /\ ~ grant /\ UNCHANGED <<meta, faults>>
    <3>1. meta[s] = [term |-> term, votedFor |-> vote]
      BY <1>5, <1>7, <2>2, InvFacts
    <3> QED
      BY <1>3, <2>2, <3>1
  <2> QED
    BY <1>2, <2>1, <2>2
<1>9. KeepsVotes
  <2> SUFFICES ASSUME NEW p \in Server
               PROVE  /\ currentTerm'[p] >= currentTerm[p]
                      /\ currentTerm'[p] = currentTerm[p] /\ votedFor[p] # Nil
                            => votedFor'[p] = votedFor[p]
    BY DEF KeepsVotes
  <2>1. CASE p # s
    BY <1>2, <1>3, <1>4, <2>1
  <2>2. CASE p = s
    <3>1. currentTerm'[s] = term /\ votedFor'[s] = vote
      BY <1>2, <1>3
    <3>2. CASE newer
      BY <1>4, <1>5, <2>2, <3>1, <3>2 DEF term
    <3>3. CASE ~ newer
      BY <1>4, <1>5, <2>2, <3>1, <3>3
    <3> QED
      BY <3>2, <3>3
  <2> QED
    BY <2>1, <2>2
<1>10. NoVoteFromNowhere
  <2> SUFFICES ASSUME NEW v \in Server, NEW c \in Server, NEW u \in Term, Granted(v, u, c)'
               PROVE  Granted(v, u, c) \/ (currentTerm'[v] = u /\ votedFor'[v] = c)
    BY DEF NoVoteFromNowhere
  <2>1. CASE \E x \in votes' : /\ x.type = "Vote" /\ x.voteGranted
                               /\ x.from = v /\ x.round = u /\ x.to = c
    <3>1. PICK x \in votes' : /\ x.type = "Vote" /\ x.voteGranted
                              /\ x.from = v /\ x.round = u /\ x.to = c
      BY <2>1
    <3>2. CASE x \in votes
      BY <3>1, <3>2 DEF Granted
    <3>3. CASE x = reply
      <4>1. grant /\ v = s /\ u = m.term /\ c = m.from
        BY <1>6, <3>1, <3>3
      <4> QED
        BY <1>2, <1>3, <1>5, <4>1
    <3> QED
      BY <1>2, <3>2, <3>3
  <2>2. CASE election'[c] # Nil /\ election'[c].term = u /\ v \in election'[c].granted
    BY <1>2, <2>2 DEF Granted
  <2>3. CASE \E e \in elected' : e.term = u /\ e.leader = c /\ v \in e.voters
    BY <1>2, <2>3 DEF Granted
  <2> QED
    BY <2>1, <2>2, <2>3 DEF Granted
<1>11. \A p \in Server : election'[p] # Nil =>
        /\ p \notin election'[p].granted
        /\ state'[p] = Candidate => /\ currentTerm'[p] = election'[p].term
                                    /\ votedFor'[p] = p
  <2> SUFFICES ASSUME NEW p \in Server, election'[p] # Nil
               PROVE  /\ p \notin election'[p].granted
                      /\ state'[p] = Candidate => /\ currentTerm'[p] = election'[p].term
                                                  /\ votedFor'[p] = p
    OBVIOUS
  <2>1. /\ p \notin election[p].granted
        /\ state[p] = Candidate => currentTerm[p] = election[p].term /\ votedFor[p] = p
    BY <1>2, <1>7, InvFacts
  <2>2. CASE p # s
    BY <1>2, <1>3, <2>1, <2>2
  <2>3. CASE p = s
    <3>1. p # Nil
      BY RaftAssumption
    <3> QED
      BY <1>2, <1>3, <1>5, <2>1, <2>3, <3>1 DEF Follower, Candidate
  <2> QED
    BY <2>2, <2>3
<1>12. \A x \in votes' : x.from # x.to
  <2>1. \A x \in votes : x.from # x.to
    BY <1>7, InvFacts
  <2>2. reply.from # reply.to
    BY <1>1, <1>6, <2>1
  <2> QED
    BY <1>2, <2>1, <2>2
<1>13. \A e \in elected' : Cardinality(e.voters) >= ElectionQuorum(e.leader)
  BY <1>2, <1>7, InvFacts
<1>14. \A p \in Server : meta'[p] = [term |-> currentTerm'[p], votedFor |-> votedFor'[p]]
  BY <1>2, <1>3, <1>7, <1>8, InvFacts
<1> QED
  BY <1>7, <1>9, <1>10, <1>11, <1>12, <1>13, <1>14, InvFromVotes

LEMMA HandleVoteKeeps ==
    ASSUME TypeInv, TypeInv', ElectionInv, faults' = 0, NEW s \in Server, NEW m,
           HandleVote(s, m)
    PROVE  ElectionInv' /\ KeepsVotes
<1>1. /\ m.term \in Term /\ m.from \in Server /\ m.to = s /\ m \in votes /\ m.type = "Vote"
      /\ m.round \in Term
  BY VoteTypes DEF HandleVote, VoteReply
<1>2. /\ votes' \subseteq votes /\ elected' = elected
      /\ election[s] # Nil /\ election[s].term = m.round
      /\ election \in [Server -> Election \cup {Nil}]
  BY DEF HandleVote, TypeInv, TypeOK
<1>3. CASE /\ m.term > currentTerm[s]
           /\ BecomeFollower(s, m.term, 0)
           /\ UNCHANGED election
  <2>1. Quiet
    BY <1>1, <1>2, <1>3, BecomeFollowerQuiet DEF Quiet
  <2> QED
    BY <2>1, QuietKeepsInv, QuietKeepsVotes DEF Quiet
<1>4. CASE /\ election' = [election EXCEPT ![s].granted =
                              IF m.voteGranted THEN @ \cup {m.from} ELSE @]
           /\ UNCHANGED <<termVars, meta, faults>>
  <2>1. /\ UNCHANGED <<currentTerm, votedFor, state, meta>> /\ faults = 0
    BY <1>4 DEF termVars
  <2>2. /\ \A p \in Server \ {s} : election'[p] = election[p]
        /\ election'[s] = [election[s] EXCEPT !.granted =
                              IF m.voteGranted THEN @ \cup {m.from} ELSE @]
        /\ election[s] \in Election
    BY <1>2, <1>4
  <2>3. /\ election'[s].term = m.round
        /\ \A v \in election'[s].granted :
              v \in election[s].granted \/ (v = m.from /\ m.voteGranted)
    BY <1>2, <2>2 DEF Election
  <2>4. KeepsVotes
    <3>1. \A v \in Server : currentTerm[v] \in Int
      BY RaftLogAssumption DEF TypeInv, TypeOK, Term
    <3> QED
      BY <2>1, <3>1 DEF KeepsVotes
  <2>5. NoVoteFromNowhere
    <3> SUFFICES ASSUME NEW v \in Server, NEW c \in Server, NEW u \in Term, Granted(v, u, c)'
                 PROVE  Granted(v, u, c) \/ (currentTerm'[v] = u /\ votedFor'[v] = c)
      BY DEF NoVoteFromNowhere
    <3>1. CASE \E x \in votes' : /\ x.type = "Vote" /\ x.voteGranted
                                 /\ x.from = v /\ x.round = u /\ x.to = c
      BY <1>2, <3>1 DEF Granted
    <3>2. CASE election'[c] # Nil /\ election'[c].term = u /\ v \in election'[c].granted
      <4>1. CASE c # s
        BY <2>2, <3>2, <4>1 DEF Granted
      <4>2. CASE c = s /\ v \in election[s].granted
        BY <1>2, <2>3, <3>2, <4>2 DEF Granted
      <4>3. CASE c = s /\ v = m.from /\ m.voteGranted
        BY <1>1, <2>3, <3>2, <4>3 DEF Granted
      <4> QED
        BY ZenonT(30), <2>3, <3>2, <4>1, <4>2, <4>3
    <3>3. CASE \E e \in elected' : e.term = u /\ e.leader = c /\ v \in e.voters
      BY <1>2, <3>3 DEF Granted
    <3> QED
      BY <3>1, <3>2, <3>3 DEF Granted
  <2>6. \A p \in Server : election'[p] # Nil =>
          /\ p \notin election'[p].granted
          /\ state'[p] = Candidate => /\ currentTerm'[p] = election'[p].term
                                      /\ votedFor'[p] = p
    <3>1. m.from # s
      BY <1>1, <2>1, InvFacts
    <3>2. ASSUME NEW p \in Server \ {s}, election'[p] # Nil
          PROVE  /\ p \notin election'[p].granted
                 /\ state'[p] = Candidate => /\ currentTerm'[p] = election'[p].term
                                             /\ votedFor'[p] = p
      BY <2>1, <2>2, <3>2, InvFacts
    <3>3. /\ s \notin election'[s].granted
          /\ state'[s] = Candidate => /\ currentTerm'[s] = election'[s].term
                                      /\ votedFor'[s] = s
      BY <1>2, <2>1, <2>3, <3>1, InvFacts
    <3> QED
      BY <3>2, <3>3
  <2>7. \A x \in votes' : x.from # x.to
    BY <1>2, <2>1, InvFacts
  <2>8. \A e \in elected' : Cardinality(e.voters) >= ElectionQuorum(e.leader)
    BY <1>2, <2>1, InvFacts
  <2>9. \A p \in Server : meta'[p] = [term |-> currentTerm'[p], votedFor |-> votedFor'[p]]
    BY <2>1, InvFacts
  <2> QED
    BY <2>1, <2>4, <2>5, <2>6, <2>7, <2>8, <2>9, InvFromVotes
<1> QED
  BY <1>3, <1>4 DEF HandleVote

LEMMA LoseElectionQuiet ==
    ASSUME TypeInv, faults' = 0, NEW s \in Server, LoseElection(s)
    PROVE  Quiet
<1>1. UNCHANGED <<diskVars, termVars, faults, elected>>
  BY DEF LoseElection
<1>2. votes' \subseteq votes
  BY DEF LoseElection, EndElection, DropVotesTo
<1>3. \A p \in Server : election'[p] = election[p] \/ election'[p] = Nil
  BY DEF LoseElection, EndElection, TypeInv, TypeOK
<1> QED
  BY <1>1, <1>2, <1>3 DEF Quiet, TermsKept, TermKept, termVars, diskVars

LEMMA WinElectionKeeps ==
    ASSUME TypeInv, TypeInv', ElectionInv, faults' = 0, NEW s \in Server, WinElection(s)
    PROVE  ElectionInv' /\ KeepsVotes
<1> DEFINE win == [term |-> currentTerm[s], leader |-> s,
                   voters |-> election[s].granted \cup {s}]
<1>1. /\ UNCHANGED <<meta, currentTerm, votedFor>>
      /\ state[s] = Candidate /\ state' = [state EXCEPT ![s] = Leader]
      /\ election[s] # Nil /\ election' = [election EXCEPT ![s] = Nil]
      /\ elected' = elected \cup {win}
      /\ Cardinality(election[s].granted) + 1 >= ElectionQuorum(s)
  BY Zenon DEF WinElection, EndElection, Won
<1>2. votes' \subseteq votes
  BY ZenonT(30) DEF WinElection, EndElection, DropVotesTo
<1>3. faults = 0
  BY ZenonT(30), NoFaultYet DEF WinElection
<1>4. /\ state \in [Server -> {Follower, Candidate, Leader}]
      /\ election \in [Server -> Election \cup {Nil}]
      /\ election[s] \in Election
  BY <1>1 DEF TypeInv, TypeOK
<1>5. /\ s \notin election[s].granted /\ currentTerm[s] = election[s].term /\ votedFor[s] = s
  BY <1>1, <1>3, InvFacts
<1>6. KeepsVotes
  <2>1. \A v \in Server : currentTerm[v] \in Int
    BY RaftLogAssumption DEF TypeInv, TypeOK, Term
  <2> QED
    BY <1>1, <2>1 DEF KeepsVotes
<1>7. NoVoteFromNowhere
  <2> SUFFICES ASSUME NEW v \in Server, NEW c \in Server, NEW u \in Term, Granted(v, u, c)'
               PROVE  Granted(v, u, c) \/ (currentTerm'[v] = u /\ votedFor'[v] = c)
    BY DEF NoVoteFromNowhere
  <2>1. CASE \E x \in votes' : /\ x.type = "Vote" /\ x.voteGranted
                               /\ x.from = v /\ x.round = u /\ x.to = c
    BY ZenonT(30), <1>2, <2>1 DEF Granted
  <2>2. CASE election'[c] # Nil /\ election'[c].term = u /\ v \in election'[c].granted
    <3>1. election'[c] = election[c]
      BY <1>1, <1>4, <2>2
    <3> QED
      BY <2>2, <3>1 DEF Granted
  <2>3. CASE \E e \in elected' : e.term = u /\ e.leader = c /\ v \in e.voters
    <3>1. PICK e \in elected' : e.term = u /\ e.leader = c /\ v \in e.voters
      BY <2>3
    <3>2. CASE e \in elected
      BY <3>1, <3>2 DEF Granted
    <3>3. CASE e = win
      <4>1. u = currentTerm[s] /\ c = s /\ v \in election[s].granted \cup {s}
        BY <3>1, <3>3
      <4>2. CASE v = s
        BY <1>1, <1>5, <4>1, <4>2
      <4>3. CASE v \in election[s].granted
        BY <1>1, <1>5, <4>1, <4>3 DEF Granted
      <4> QED
        BY <4>1, <4>2, <4>3
    <3> QED
      BY <1>1, <3>1, <3>2, <3>3
  <2> QED
    BY <2>1, <2>2, <2>3 DEF Granted
<1>8. \A p \in Server : election'[p] # Nil =>
        /\ p \notin election'[p].granted
        /\ state'[p] = Candidate => /\ currentTerm'[p] = election'[p].term
                                    /\ votedFor'[p] = p
  BY <1>1, <1>3, <1>4, InvFacts
<1>9. \A x \in votes' : x.from # x.to
  BY <1>2, <1>3, InvFacts
<1>10. \A e \in elected' : Cardinality(e.voters) >= ElectionQuorum(e.leader)
  <2>1. IsFiniteSet(election[s].granted)
    BY <1>4, RaftAssumption, FS_Subset DEF Election
  <2>2. Cardinality(election[s].granted \cup {s}) = Cardinality(election[s].granted) + 1
    BY ZenonT(30), <1>5, <2>1, FS_AddElement
  <2>3. Cardinality(win.voters) >= ElectionQuorum(win.leader)
    BY <1>1, <2>2
  <2> HIDE DEF win
  <2> QED
    BY <1>1, <1>3, <2>3, InvFacts
<1>11. \A p \in Server : meta'[p] = [term |-> currentTerm'[p], votedFor |-> votedFor'[p]]
  BY <1>1, <1>3, InvFacts
<1> QED
  BY ZenonT(30), <1>3, <1>6, <1>7, <1>8, <1>9, <1>10, <1>11, InvFromVotes

=============================================================================
