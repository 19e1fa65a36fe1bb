------------------------- MODULE ConnectionsProofs --------------------------
(***************************************************************************)
(* Proofs about Connections: its types for any number of workers, and for  *)
(* one worker (the option -t 1) that the table, the records of the clients *)
(* and the peer's record agree, and that no event is taken for another     *)
(* connection than the one it was posted for.                              *)
(***************************************************************************)
EXTENDS Connections, SequenceTheorems, FiniteSetTheorems, TLAPS

-----------------------------------------------------------------------------
(* The least element, the descriptors and the records *)

LEMMA NatMin ==
  ASSUME NEW T \in SUBSET Nat, T # {}
  PROVE  \E x \in T : \A y \in T : x <= y
<1>1. PICK R : R = {ss \in Nat \X Nat : ss[1] < ss[2]}
  OBVIOUS
<1>2. IsWellFoundedOn(R, Nat)
  BY <1>1, NatLessThanWellFounded, Zenon DEF OpToRel
<1>3. \E x \in T : \A y \in T : ~(<<y, x>> \in R)
  BY <1>2, WFMin, Zenon
<1>4. \A i, j \in Nat : i < j => <<i, j>> \in R
  BY <1>1
<1>5. PICK x \in T : \A y \in T : ~(<<y, x>> \in R)
  BY <1>3
<1>6. \A y \in T : x \in Nat /\ y \in Nat /\ ~(y < x)
  BY <1>4, <1>5
<1> QED
  BY <1>6

LEMMA MinOf ==
  ASSUME NEW T \in SUBSET Nat, T # {}
  PROVE  Min(T) \in T /\ \A y \in T : Min(T) <= y
BY NatMin DEF Min

\* The descriptor that accept() or socket() returns is free, the lower ones are not.
LEMMA LowestFree ==
  ASSUME FreeFDs # {}
  PROVE  /\ Min(FreeFDs) \in FDs /\ sock[Min(FreeFDs)] = Free
         /\ \A g \in FDs : g < Min(FreeFDs) => sock[g] # Free
<1>1. FreeFDs \in SUBSET Nat
  BY ConnectionConstantsOK DEF FreeFDs, FDs
<1>2. Min(FreeFDs) \in FreeFDs /\ \A g \in FreeFDs : Min(FreeFDs) <= g
  BY <1>1, MinOf
<1>3. \A g \in FDs : g < Min(FreeFDs) => g \notin FreeFDs
  BY <1>2, ConnectionConstantsOK DEF FreeFDs, FDs
<1> QED
  BY <1>2, <1>3 DEF FreeFDs

\* The record found is one of the list's, made for the descriptor.
LEMMA FindFacts ==
  ASSUME TypeOK, NEW f, Find(f) # NoRec
  PROVE  Find(f) \in Records /\ Find(f) \in Range(clientList) /\ Find(f).fd = f
<1> DEFINE S == {i \in DOMAIN clientList : clientList[i].fd = f}
<1>1. S # {}
  BY DEF Find
<1>2. S \in SUBSET Nat /\ clientList \in Seq(Records)
  BY DEF TypeOK
<1>3. Min(S) \in S
  BY <1>1, <1>2, MinOf
<1>4. Find(f) = clientList[Min(S)]
  BY <1>1 DEF Find
<1>5. Min(S) \in DOMAIN clientList /\ clientList[Min(S)].fd = f
  BY <1>3
<1>6. clientList[Min(S)] \in Records /\ clientList[Min(S)] \in Range(clientList)
  <2> HIDE DEF S
  <2>1. PICK i \in DOMAIN clientList : i = Min(S)
    BY <1>5
  <2>2. clientList[i] \in Records /\ clientList[i] \in Range(clientList)
    BY <1>2 DEF Range
  <2> QED
    BY <2>1, <2>2
<1> QED
  BY <1>4, <1>5, <1>6

\* A sequence without its k-th element.
LEMMA OneTaken ==
  ASSUME NEW S, NEW s \in Seq(S), NEW n \in Nat, Len(s) = n, NEW k \in 1 .. n
  PROVE  LET t == SubSeq(s, 1, k - 1) \o SubSeq(s, k + 1, n) IN
         /\ t \in Seq(S) /\ Len(t) = n - 1
         /\ \A i \in 1 .. n - 1 : t[i] = IF i < k THEN s[i] ELSE s[i + 1]
<1> DEFINE a == SubSeq(s, 1, k - 1)  b == SubSeq(s, k + 1, n)
<1>1. a \in Seq(S) /\ Len(a) = k - 1 /\ \A i \in 1 .. k - 1 : a[i] = s[i]
  <2>1. \A i \in 1 .. k - 1 : s[i] \in S
    OBVIOUS
  <2>2. /\ a \in Seq(S) /\ Len(a) = IF 1 <= k - 1 THEN k - 1 - 1 + 1 ELSE 0
        /\ \A i \in 1 .. k - 1 - 1 + 1 : a[i] = s[1 + i - 1]
    BY <2>1, SubSeqProperties
  <2> QED
    BY <2>2
<1>2. b \in Seq(S) /\ Len(b) = n - k /\ \A i \in 1 .. n - k : b[i] = s[k + i]
  <2>1. \A i \in k + 1 .. n : s[i] \in S
    OBVIOUS
  <2>2. /\ b \in Seq(S) /\ Len(b) = IF k + 1 <= n THEN n - (k + 1) + 1 ELSE 0
        /\ \A i \in 1 .. n - (k + 1) + 1 : b[i] = s[k + 1 + i - 1]
    BY <2>1, SubSeqProperties
  <2>3. \A i \in 1 .. n - k : i \in 1 .. n - (k + 1) + 1 /\ k + 1 + i - 1 = k + i
    OBVIOUS
  <2> QED
    BY <2>2, <2>3
<1> HIDE DEF a, b
<1>3. /\ a \o b \in Seq(S) /\ Len(a \o b) = Len(a) + Len(b)
      /\ \A i \in 1 .. Len(a) + Len(b) :
           (a \o b)[i] = IF i <= Len(a) THEN a[i] ELSE b[i - Len(a)]
  BY <1>1, <1>2, ConcatProperties
<1>4. ASSUME NEW i \in 1 .. n - 1
      PROVE  (a \o b)[i] = IF i < k THEN s[i] ELSE s[i + 1]
  <2>1. CASE i < k
    BY <1>1, <1>2, <1>3, <2>1
  <2>2. CASE ~(i < k)
    <3>1. PICK j \in 1 .. n - k : j = i - (k - 1)
      BY <2>2
    <3>2. (a \o b)[i] = b[j]
      BY <1>1, <1>2, <1>3, <2>2, <3>1
    <3>3. b[j] = s[k + j] /\ k + j = i + 1
      BY <1>2, <3>1
    <3> QED
      BY <2>2, <3>2, <3>3
  <2> QED
    BY <2>1, <2>2
<1>5. Len(a \o b) = n - 1
  BY <1>1, <1>2, <1>3
<1> QED
  BY <1>3, <1>4, <1>5 DEF a, b

\* A record that is taken out of the list leaves the others, in their order.
LEMMA WithoutFacts ==
  ASSUME TypeOK, NEW r \in Range(clientList)
  PROVE  \E k \in 1 .. Len(clientList) :
           /\ clientList[k] = r
           /\ Without(r) \in Seq(Records) /\ Len(Without(r)) = Len(clientList) - 1
           /\ \A i \in 1 .. Len(Without(r)) :
                Without(r)[i] = IF i < k THEN clientList[i] ELSE clientList[i + 1]
<1> DEFINE S == {i \in DOMAIN clientList : clientList[i] = r}
<1>1. clientList \in Seq(Records)
  BY DEF TypeOK
<1>2. S # {} /\ S \in SUBSET Nat
  BY <1>1 DEF Range
<1>3. PICK k \in S : k = Min(S)
  BY <1>2, MinOf
<1>4. k \in 1 .. Len(clientList) /\ clientList[k] = r
  BY <1>1
<1> DEFINE n == Len(clientList)
           t == SubSeq(clientList, 1, k - 1) \o SubSeq(clientList, k + 1, n)
<1>5. Without(r) = t
  BY <1>2, <1>3 DEF Without, RemoveAt
<1>7. /\ t \in Seq(Records) /\ Len(t) = n - 1
      /\ \A i \in 1 .. n - 1 : t[i] = IF i < k THEN clientList[i] ELSE clientList[i + 1]
  <2>1. n \in Nat /\ k \in 1 .. n
    BY <1>1, <1>4
  <2> QED
    BY <1>1, <2>1, OneTaken
<1> HIDE DEF S, t
<1>6. /\ Without(r) \in Seq(Records) /\ Len(Without(r)) = Len(clientList) - 1
      /\ \A i \in 1 .. Len(Without(r)) :
           Without(r)[i] = IF i < k THEN clientList[i] ELSE clientList[i + 1]
  BY <1>5, <1>7
<1> QED
  BY <1>4, <1>6


-----------------------------------------------------------------------------
(* Types *)

LEMMA InitTyped == Init => TypeOK
<1> SUFFICES ASSUME Init PROVE TypeOK
  OBVIOUS
<1>1. /\ backlog \in [Ports -> Seq(Clients)] /\ sock \in [FDs -> {Free}]
      /\ connections \in [1 .. MaxConn -> 0 .. NFd]
      /\ queue \in Seq(Events)
      /\ clientList \in Seq(Records)
  BY ConnectionConstantsOK DEF Init, FDs
<1>2. Free \in Sockets
  BY DEF Free, Sockets
<1>3. NoJob \in Jobs
  BY DEF NoJob, Ports, Jobs
<1>4. 1 \in 1 .. MaxConn /\ 0 \in 0 .. NFd
  BY ConnectionConstantsOK
<1>5. pc \in [Workers -> Labels] /\ \A w \in Workers : pc[w] = "idle"
  BY DEF Init, Labels
<1> QED
  BY <1>1, <1>2, <1>3, <1>4, <1>5 DEF Init, TypeOK, NoSet

LEMMA OutsideTyped == TypeOK /\ Outside => TypeOK'
<1> SUFFICES ASSUME TypeOK, Outside PROVE TypeOK'
  OBVIOUS
<1>1. CASE \E c \in Clients : ClientConnects(c)
  <2>1. PICK c \in Clients : ClientConnects(c)
    BY <1>1
  <2>2. PortOf(c) \in Ports
    BY DEF PortOf, Ports
  <2>3. Append(backlog[PortOf(c)], c) \in Seq(Clients)
    BY <2>2 DEF TypeOK
  <2> QED
    BY <2>1, <2>2, <2>3 DEF ClientConnects, TypeOK, lists, loop
<1>2. CASE \E f \in FDs : ClientSends(f)
  <2>1. PICK f \in FDs, m \in {"command", "write", "quit"} :
          ClientSends(f) /\ sock' = [sock EXCEPT ![f].data = m]
    BY <1>2 DEF ClientSends, Says
  <2>3. \A s \in Sockets : [s EXCEPT !.data = m] \in Sockets
    BY DEF Sockets
  <2>2. UNCHANGED <<backlog, lists, loop, queue, pc, job, peerUp, exited>>
    BY <2>1 DEF ClientSends
  <2> QED
    BY <2>1, <2>2, <2>3 DEF TypeOK, lists, loop
<1>3. CASE \E f \in FDs : ClientLeaves(f)
  <2>1. PICK f \in FDs : ClientLeaves(f)
    BY <1>3
  <2>2. sock' \in [FDs -> Sockets]
    <3>1. \A s \in Sockets : [s EXCEPT !.eof = TRUE] \in Sockets
      BY DEF Sockets
    <3> QED
      BY <2>1, <3>1 DEF ClientLeaves, TypeOK
  <2>3. UNCHANGED <<backlog, lists, loop, queue, pc, job, others>>
    BY <2>1 DEF ClientLeaves
  <2> QED
    BY <2>2, <2>3 DEF TypeOK, lists, loop, others
<1>4. CASE PeerStops
  <2>1. \A s \in Sockets : [s EXCEPT !.eof = TRUE] \in Sockets
    BY DEF Sockets
  <2>2. sock' \in [FDs -> Sockets]
    BY <1>4, <2>1 DEF PeerStops, TypeOK
  <2>3. UNCHANGED <<backlog, lists, loop, queue, pc, job, exited>> /\ peerUp' \in BOOLEAN
    BY <1>4 DEF PeerStops
  <2> QED
    BY <2>2, <2>3 DEF TypeOK, lists, loop
<1>5. CASE PeerStarts
  BY <1>5 DEF PeerStarts, TypeOK, lists, loop, sockets
<1> QED
  BY <1>1, <1>2, <1>3, <1>4, <1>5 DEF Outside

LEMMA ThreadTyped == TypeOK /\ ConnThread => TypeOK'
<1> SUFFICES ASSUME TypeOK, ConnThread PROVE TypeOK'
  OBVIOUS
<1>1. CASE Select
  BY <1>1 DEF Select, TypeOK, sockets, others, InTable
<1>2. CASE PostAccept
  <2>1. PICK p \in Ports : queue' = Append(queue, EventOf("accept", p, 0))
    BY <1>2 DEF PostAccept, Ports
  <2>2. EventOf("accept", p, 0) \in Events
    BY DEF EventOf, Events
  <2> QED
    BY <1>2, <2>1, <2>2 DEF PostAccept, TypeOK, sockets, others, NoSet
<1>3. CASE PostRecv
  <2> DEFINE f == connections[entry]
  <2>1. \/ queue' = queue
        \/ f \in FDs /\ queue' = Append(queue, EventOf("recv", "user", f))
    <3>1. readSet.fd \in SUBSET FDs
      BY DEF TypeOK
    <3> QED
      BY <1>3, <3>1 DEF PostRecv
  <2>2. f \in FDs => EventOf("recv", "user", f) \in Events
    BY DEF EventOf, Events
  <2>3. queue' \in Seq(Events)
    <3>1. queue \in Seq(Events)
      BY DEF TypeOK
    <3> HIDE DEF f
    <3>2. CASE queue' = queue
      BY <3>1, <3>2
    <3>3. CASE f \in FDs /\ queue' = Append(queue, EventOf("recv", "user", f))
      BY <2>2, <3>1, <3>3
    <3> QED
      BY <2>1, <3>2, <3>3
  <2>4. entry' \in 1 .. MaxConn /\ thread' \in {"select", "check"}
        /\ readSet' \in [port : SUBSET Ports, fd : SUBSET FDs]
    BY <1>3, ConnectionConstantsOK DEF PostRecv, TypeOK, NoSet
  <2> QED
    BY <1>3, <2>3, <2>4 DEF PostRecv, TypeOK, sockets, others
<1> QED
  BY <1>1, <1>2, <1>3 DEF ConnThread


LEMMA TakeTyped == ASSUME TypeOK, NEW w \in Workers, Take(w) PROVE TypeOK'
<1> DEFINE e == Head(queue)
<1>1. queue' \in Seq(Events) /\ e \in Events
  <2>1. queue \in Seq(Events) /\ queue # <<>> /\ queue' = Tail(queue)
    BY DEF Take, TypeOK
  <2> QED
    BY <2>1
<1>2. UNCHANGED <<sockets, lists, loop, others>>
  BY DEF Take
<1>3. CASE e.type = "accept" /\ Move(w, "idle", "accept") /\ Keep(w, [NoJob EXCEPT !.port = e.port])
  <2>1. [NoJob EXCEPT !.port = e.port] \in Jobs
    <3>1. e.port \in Ports
      BY <1>1 DEF Events, Ports
    <3> HIDE DEF e
    <3> QED
      BY <3>1 DEF NoJob, Jobs
  <2>2. /\ pc' \in [Workers -> Labels]
        /\ job' \in [Workers -> Jobs]
    BY <1>3, <2>1 DEF Move, Keep, TypeOK, Labels
  <2>3. \A v \in Workers : pc'[v] \in {"idle", "accept", "sent"} \/ job'[v].rec \in Records
    <3>1. pc'[w] = "accept" /\ \A v \in Workers \ {w} : pc'[v] = pc[v] /\ job'[v] = job[v]
      BY <1>3 DEF Move, Keep, TypeOK
    <3> QED
      BY <3>1 DEF TypeOK
  <2> QED
    BY <1>1, <1>2, <2>2, <2>3 DEF TypeOK, sockets, lists, loop, others
<1>4. CASE /\ e.type = "recv" /\ Find(e.fd) # NoRec /\ Move(w, "idle", "recv")
           /\ Keep(w, [NoJob EXCEPT !.rec = Find(e.fd)])
  <2>1. PICK r \in Records : r = Find(e.fd)
    BY <1>4, FindFacts
  <2>2. [NoJob EXCEPT !.rec = r] \in Jobs
        /\ [NoJob EXCEPT !.rec = r].rec = r
    BY DEF NoJob, Ports, Jobs
  <2>3. /\ pc' \in [Workers -> Labels]
        /\ job' \in [Workers -> Jobs]
    BY <1>4, <2>1, <2>2 DEF Move, Keep, TypeOK, Labels
  <2>4. \A v \in Workers : pc'[v] \in {"idle", "accept", "sent"} \/ job'[v].rec \in Records
    <3>1. job'[w].rec \in Records /\ \A v \in Workers \ {w} : pc'[v] = pc[v] /\ job'[v] = job[v]
      BY <1>4, <2>1, <2>2 DEF Move, Keep, TypeOK
    <3> QED
      BY <3>1 DEF TypeOK
  <2> QED
    BY <1>1, <1>2, <2>3, <2>4 DEF TypeOK, sockets, lists, loop, others
<1>5. CASE UNCHANGED <<pc, job>>
  BY <1>1, <1>2, <1>5 DEF TypeOK, sockets, lists, loop, others
<1> QED
  BY <1>3, <1>4, <1>5 DEF Take


\* A worker goes on with a job.
LEMMA StepTyped ==
  ASSUME TypeOK, NEW w \in Workers, NEW from, NEW to \in Labels, NEW j \in Jobs,
         Move(w, from, to), Keep(w, j), to \in {"idle", "accept", "sent"} \/ j.rec \in Records
  PROVE  /\ pc' \in [Workers -> Labels] /\ job' \in [Workers -> Jobs]
         /\ \A v \in Workers : pc'[v] \in {"idle", "accept", "sent"} \/ job'[v].rec \in Records
<1>1. pc' = [pc EXCEPT ![w] = to] /\ job' = [job EXCEPT ![w] = j]
  BY DEF Move, Keep
<1>2. pc \in [Workers -> Labels] /\ job \in [Workers -> Jobs]
      /\ \A v \in Workers : pc[v] \in {"idle", "accept", "sent"} \/ job[v].rec \in Records
  BY DEF TypeOK
<1>3. pc'[w] = to /\ job'[w] = j
  BY <1>1, <1>2
<1>4. \A v \in Workers \ {w} : pc'[v] = pc[v] /\ job'[v] = job[v]
  BY <1>1, <1>2
<1> QED
  BY <1>1, <1>2, <1>3, <1>4

\* The same job, at another point.
LEMMA SameJob ==
  ASSUME TypeOK, NEW w \in Workers, NEW from, NEW to \in Labels,
         Move(w, from, to), UNCHANGED job, from \notin {"idle", "accept", "sent"}
  PROVE  /\ pc' \in [Workers -> Labels] /\ job' \in [Workers -> Jobs]
         /\ \A v \in Workers : pc'[v] \in {"idle", "accept", "sent"} \/ job'[v].rec \in Records
<1>1. job' = [job EXCEPT ![w] = job[w]] /\ job[w] \in Jobs
  BY DEF TypeOK
<1>2. job[w].rec \in Records
  BY DEF TypeOK, Move
<1> QED
  BY <1>1, <1>2, StepTyped DEF Keep

\* The end of a job.
LEMMA NoJobTyped == NoJob \in Jobs
BY DEF NoJob, Jobs, Ports

\* A job whose record is new.
LEMMA NewRecord ==
  ASSUME NEW j \in Jobs, NEW f \in FDs, NEW e \in Ends
  PROVE  LET k == [j EXCEPT !.rec = [fd |-> f, end |-> e]]
         IN  k \in Jobs /\ k.rec \in Records /\ k.rec = [fd |-> f, end |-> e]
BY DEF Jobs, Records

LEMMA OpenedTyped == \A e \in Ends : Opened(e) \in Sockets
BY DEF Opened, Sockets

LEMMA AcceptTyped == ASSUME TypeOK, NEW w \in Workers, Accept(w) PROVE TypeOK'
<1> DEFINE p == job[w].port  f == Min(FreeFDs)  c == Head(backlog[p])
<1>1. f \in FDs
  BY LowestFree DEF Accept
<1>2. p \in Ports /\ job[w] \in Jobs
  BY DEF TypeOK, Jobs
<1>3. c \in Clients /\ Tail(backlog[p]) \in Seq(Clients)
  <2>1. backlog[p] \in Seq(Clients) /\ backlog[p] # <<>>
    BY <1>2 DEF TypeOK, Accept
  <2> QED
    BY <2>1
<1>4. c \in Ends
  BY <1>3 DEF Ends
<1> DEFINE k == [job[w] EXCEPT !.rec = [fd |-> f, end |-> c]]
<1>5. k \in Jobs /\ k.rec \in Records
  <2> HIDE DEF c, f
  <2> QED
    BY <1>1, <1>2, <1>4, NewRecord
<1>6. Move(w, "accept", "add") /\ Keep(w, k) /\ UNCHANGED <<lists, loop, queue, others>>
      /\ sock' = [sock EXCEPT ![f] = Opened(c)] /\ backlog' = [backlog EXCEPT ![p] = Tail(@)]
  BY DEF Accept
<1> HIDE DEF f, c, k, p
<1>7. /\ pc' \in [Workers -> Labels] /\ job' \in [Workers -> Jobs]
      /\ \A v \in Workers : pc'[v] \in {"idle", "accept", "sent"} \/ job'[v].rec \in Records
  BY <1>5, <1>6, StepTyped DEF Labels
<1>8. sock' \in [FDs -> Sockets] /\ backlog' \in [Ports -> Seq(Clients)]
  BY <1>1, <1>2, <1>3, <1>4, <1>6, OpenedTyped DEF TypeOK
<1> QED
  BY <1>6, <1>7, <1>8 DEF TypeOK, lists, loop, others

LEMMA AcceptFailsTyped == ASSUME TypeOK, NEW w \in Workers, AcceptFails(w) PROVE TypeOK'
<1>1. /\ pc' \in [Workers -> Labels] /\ job' \in [Workers -> Jobs]
      /\ \A v \in Workers : pc'[v] \in {"idle", "accept", "sent"} \/ job'[v].rec \in Records
  BY NoJobTyped, StepTyped DEF AcceptFails, Labels
<1> QED
  BY <1>1 DEF AcceptFails, TypeOK, sockets, lists, loop, others

LEMMA ConnAddTyped == ASSUME TypeOK, NEW w \in Workers, ConnAdd(w) PROVE TypeOK'
<1> DEFINE f == job[w].rec.fd
           empty == {i \in DOMAIN connections : connections[i] = 0}
<1>1. /\ pc' \in [Workers -> Labels] /\ job' \in [Workers -> Jobs]
      /\ \A v \in Workers : pc'[v] \in {"idle", "accept", "sent"} \/ job'[v].rec \in Records
  BY SameJob DEF ConnAdd, Labels
<1>2. f \in FDs
  BY DEF ConnAdd, Move, TypeOK, Records
<1>3. f \in 0 .. NFd
  BY <1>2, ConnectionConstantsOK DEF FDs
<1>4. empty # {} => Min(empty) \in 1 .. MaxConn
  <2>1. empty \in SUBSET Nat /\ empty \subseteq 1 .. MaxConn
    BY ConnectionConstantsOK DEF TypeOK
  <2> HIDE DEF empty
  <2> QED
    BY <2>1, MinOf
<1>5. /\ connections' = connections
         \/ (empty # {} /\ connections' = [connections EXCEPT ![Min(empty)] = f])
      /\ readSet' = readSet \/ readSet' = [readSet EXCEPT !.fd = @ \cup {f}]
      /\ dropped' = dropped \/ dropped' = dropped \cup {f} \/ dropped' = dropped \ {f}
      /\ UNCHANGED <<sockets, clientList, server, strayed, loop, queue, job, others>>
  BY DEF ConnAdd
<1> HIDE DEF empty, f
<1>6. connections' \in [1 .. MaxConn -> 0 .. NFd]
  <2>1. connections \in [1 .. MaxConn -> 0 .. NFd]
    BY DEF TypeOK
  <2> QED
    BY <1>3, <1>4, <1>5, <2>1
<1>7. readSet' \in [port : SUBSET Ports, fd : SUBSET FDs]
  <2>1. \A s \in [port : SUBSET Ports, fd : SUBSET FDs] :
          [s EXCEPT !.fd = @ \cup {f}] \in [port : SUBSET Ports, fd : SUBSET FDs]
    BY <1>2
  <2>2. readSet \in [port : SUBSET Ports, fd : SUBSET FDs]
    BY DEF TypeOK
  <2> QED
    BY <1>5, <2>1, <2>2
<1>8. dropped' \subseteq FDs
  BY <1>2, <1>5 DEF TypeOK
<1> QED
  BY <1>1, <1>5, <1>6, <1>7, <1>8 DEF TypeOK, sockets, loop, others

LEMMA ListAddTyped == ASSUME TypeOK, NEW w \in Workers, ListAdd(w) PROVE TypeOK'
<1>1. job[w] \in Jobs /\ job[w].rec \in Records
  BY DEF ListAdd, Move, TypeOK
<1>2. /\ pc' \in [Workers -> Labels] /\ job' \in [Workers -> Jobs]
      /\ \A v \in Workers : pc'[v] \in {"idle", "accept", "sent"} \/ job'[v].rec \in Records
  <2>1. CASE job[w].rec.end = Peer
    BY <1>1, <2>1, StepTyped DEF ListAdd, Labels
  <2>2. CASE job[w].rec.end # Peer
    BY <2>2, NoJobTyped, StepTyped DEF ListAdd, Labels
  <2> QED
    BY <2>1, <2>2
<1>3. clientList' \in Seq(Records)
  BY <1>1 DEF ListAdd, TypeOK
<1> QED
  BY <1>2, <1>3 DEF ListAdd, TypeOK, sockets, loop, others

LEMMA ConnectTyped == ASSUME TypeOK, NEW w \in Workers, Connect(w) PROVE TypeOK'
<1> DEFINE f == Min(FreeFDs)
           k == [job[w] EXCEPT !.rec = [fd |-> f, end |-> Peer]]
<1>1. UNCHANGED <<backlog, lists, loop, queue, peerUp, used>>
  BY DEF Connect
<1>2. CASE exited' = TRUE /\ UNCHANGED <<pc, job, sock>>
  BY <1>1, <1>2 DEF TypeOK, lists, loop
<1>3. CASE /\ FreeFDs # {} /\ sock' = [sock EXCEPT ![f] = Lost]
           /\ Move(w, "connect", "idle") /\ Keep(w, NoJob) /\ UNCHANGED exited
  <2>1. /\ pc' \in [Workers -> Labels] /\ job' \in [Workers -> Jobs]
        /\ \A v \in Workers : pc'[v] \in {"idle", "accept", "sent"} \/ job'[v].rec \in Records
    BY <1>3, NoJobTyped, StepTyped DEF Labels
  <2>2. f \in FDs /\ Lost \in Sockets
    BY <1>3, LowestFree DEF Lost, Sockets
  <2> HIDE DEF f
  <2>3. sock' \in [FDs -> Sockets]
    BY <1>3, <2>2 DEF TypeOK
  <2> QED
    BY <1>1, <1>3, <2>1, <2>3 DEF TypeOK, lists, loop
<1>4. CASE /\ FreeFDs # {} /\ sock' = [sock EXCEPT ![f] = Opened(Peer)]
           /\ Move(w, "connect", "add") /\ Keep(w, k) /\ UNCHANGED exited
  <2>1. f \in FDs /\ Opened(Peer) \in Sockets /\ Peer \in Ends /\ job[w] \in Jobs
    BY <1>4, LowestFree, OpenedTyped DEF Ends, TypeOK
  <2> HIDE DEF f
  <2>2. k \in Jobs /\ k.rec \in Records
    BY <2>1, NewRecord
  <2> HIDE DEF k
  <2>3. /\ pc' \in [Workers -> Labels] /\ job' \in [Workers -> Jobs]
        /\ \A v \in Workers : pc'[v] \in {"idle", "accept", "sent"} \/ job'[v].rec \in Records
    BY <1>4, <2>2, StepTyped DEF Labels
  <2>4. sock' \in [FDs -> Sockets]
    BY <1>4, <2>1 DEF TypeOK
  <2> QED
    BY <1>1, <1>4, <2>3, <2>4 DEF TypeOK, lists, loop
<1> QED
  BY <1>2, <1>3, <1>4 DEF Connect

LEMMA LinkTyped == ASSUME TypeOK, NEW w \in Workers, Link(w) PROVE TypeOK'
<1>1. /\ pc' \in [Workers -> Labels] /\ job' \in [Workers -> Jobs]
      /\ \A v \in Workers : pc'[v] \in {"idle", "accept", "sent"} \/ job'[v].rec \in Records
  BY NoJobTyped, StepTyped DEF Link, Labels
<1>2. job[w].rec.fd \in 0 .. NFd
  <2>1. job[w].rec \in Records
    BY DEF Link, Move, TypeOK
  <2> QED
    BY <2>1, ConnectionConstantsOK DEF Records, FDs
<1>3. server' \in [connected : BOOLEAN, fd : 0 .. NFd]
  BY <1>2 DEF Link
<1> QED
  BY <1>1, <1>3 DEF Link, TypeOK, sockets, loop, others

LEMMA MulticastTyped == ASSUME TypeOK, NEW w \in Workers, Multicast(w) PROVE TypeOK'
<1>1. pc' \in [Workers -> Labels] /\ job' = job
  BY DEF Multicast, Move, TypeOK, Labels
<1>2. \A v \in Workers : pc'[v] \in {"idle", "accept", "sent"} \/ job'[v].rec \in Records
  <2>1. pc'[w] = "sent" /\ \A v \in Workers \ {w} : pc'[v] = pc[v]
    BY DEF Multicast, Move, TypeOK
  <2> QED
    BY <1>1, <2>1 DEF TypeOK
<1> QED
  BY <1>1, <1>2 DEF Multicast, TypeOK, sockets, lists, loop

LEMMA MarkSentTyped == ASSUME TypeOK, NEW w \in Workers, MarkSent(w) PROVE TypeOK'
<1>1. pc' \in [Workers -> Labels] /\ job' = job
  BY DEF MarkSent, Move, TypeOK, Labels
<1>2. \A v \in Workers : pc'[v] \in {"idle", "accept", "sent"} \/ job'[v].rec \in Records
  <2>1. pc'[w] = "idle" /\ \A v \in Workers \ {w} : pc'[v] = pc[v]
    BY DEF MarkSent, Move, TypeOK
  <2> QED
    BY <1>1, <2>1 DEF TypeOK
<1>3. server' \in [connected : BOOLEAN, fd : 0 .. NFd]
  BY DEF MarkSent, TypeOK
<1>4. strayed' \in BOOLEAN
  BY DEF MarkSent, TypeOK
<1> QED
  BY <1>1, <1>2, <1>3, <1>4 DEF MarkSent, TypeOK, sockets, loop, others

LEMMA RecvTyped == ASSUME TypeOK, NEW w \in Workers, Recv(w) PROVE TypeOK'
<1> DEFINE r == job[w].rec  s == sock[r.fd]
<1>1. r \in Records /\ job[w] \in Jobs
  BY DEF Recv, TypeOK
<1>2. UNCHANGED <<backlog, lists, loop, queue, others>>
  BY DEF Recv
<1>3. CASE s = Free /\ Move(w, "recv", "idle") /\ Keep(w, NoJob) /\ UNCHANGED sock
  <2>1. /\ pc' \in [Workers -> Labels] /\ job' \in [Workers -> Jobs]
        /\ \A v \in Workers : pc'[v] \in {"idle", "accept", "sent"} \/ job'[v].rec \in Records
    BY <1>3, NoJobTyped, StepTyped DEF Labels
  <2> QED
    BY <1>2, <1>3, <2>1 DEF TypeOK, lists, loop, others
<1>4. ASSUME NEW next \in {"close", "connect", "idle"}, Move(w, "recv", next),
             Keep(w, IF next = "idle" THEN NoJob ELSE job[w]),
             sock' = [sock EXCEPT ![r.fd].data = "none"]
      PROVE  TypeOK'
  <2>1. PICK j \in Jobs : /\ j = IF next = "idle" THEN NoJob ELSE job[w]
                          /\ next = "idle" \/ j.rec \in Records
    BY <1>1, NoJobTyped
  <2>2. /\ pc' \in [Workers -> Labels] /\ job' \in [Workers -> Jobs]
        /\ \A v \in Workers : pc'[v] \in {"idle", "accept", "sent"} \/ job'[v].rec \in Records
    BY <1>4, <2>1, StepTyped DEF Labels
  <2>3. \A t \in Sockets : [t EXCEPT !.data = "none"] \in Sockets
    BY DEF Sockets
  <2>4. sock' \in [FDs -> Sockets]
    BY <1>1, <1>4, <2>3 DEF TypeOK, Records
  <2> QED
    BY <1>2, <2>2, <2>4 DEF TypeOK, lists, loop, others
<1>5. CASE Move(w, "recv", "close") /\ UNCHANGED <<sock, job>>
  <2>1. /\ pc' \in [Workers -> Labels] /\ job' \in [Workers -> Jobs]
        /\ \A v \in Workers : pc'[v] \in {"idle", "accept", "sent"} \/ job'[v].rec \in Records
    BY <1>5, SameJob DEF Labels
  <2> QED
    BY <1>2, <1>5, <2>1 DEF TypeOK, lists, loop, others
<1> DEFINE next == CASE s.data = "quit" -> "close"
                     [] s.data = "write" /\ ~server.connected -> "connect"
                     [] OTHER -> "idle"
<1>6. \/ s = Free /\ Move(w, "recv", "idle") /\ Keep(w, NoJob) /\ UNCHANGED sock
      \/ /\ Move(w, "recv", next) /\ Keep(w, IF next = "idle" THEN NoJob ELSE job[w])
         /\ sock' = [sock EXCEPT ![r.fd].data = "none"]
      \/ Move(w, "recv", "close") /\ UNCHANGED <<sock, job>>
  BY DEF Recv
<1>7. next \in {"close", "connect", "idle"}
  OBVIOUS
<1> HIDE DEF next, s, r
<1> QED
  BY <1>3, <1>4, <1>5, <1>6, <1>7 DEF r, s

LEMMA CloseTyped == ASSUME TypeOK, NEW w \in Workers, Close(w) PROVE TypeOK'
<1> DEFINE f == job[w].rec.fd
<1>1. /\ pc' \in [Workers -> Labels] /\ job' \in [Workers -> Jobs]
      /\ \A v \in Workers : pc'[v] \in {"idle", "accept", "sent"} \/ job'[v].rec \in Records
  BY SameJob DEF Close, Labels
<1>2. /\ sock' = sock \/ sock' = [sock EXCEPT ![f] = Free]
      /\ readSet' = readSet \/ readSet' = [readSet EXCEPT !.fd = @ \ {f}]
      /\ UNCHANGED <<backlog, connections, clientList, server, strayed, dropped, loop, queue, others>>
  BY DEF Close
<1>3. sock' \in [FDs -> Sockets]
  <2>1. Free \in Sockets /\ sock \in [FDs -> Sockets]
    BY DEF TypeOK, Free, Sockets
  <2> QED
    BY <1>2, <2>1
<1>4. readSet' \in [port : SUBSET Ports, fd : SUBSET FDs]
  <2>1. \A s \in [port : SUBSET Ports, fd : SUBSET FDs] :
          [s EXCEPT !.fd = @ \ {f}] \in [port : SUBSET Ports, fd : SUBSET FDs]
    OBVIOUS
  <2>2. readSet \in [port : SUBSET Ports, fd : SUBSET FDs]
    BY DEF TypeOK
  <2> QED
    BY <1>2, <2>1, <2>2
<1> QED
  BY <1>1, <1>2, <1>3, <1>4 DEF TypeOK, loop, others

LEMMA ClearTyped == ASSUME TypeOK, NEW w \in Workers, Clear(w) PROVE TypeOK'
<1>1. /\ pc' \in [Workers -> Labels] /\ job' \in [Workers -> Jobs]
      /\ \A v \in Workers : pc'[v] \in {"idle", "accept", "sent"} \/ job'[v].rec \in Records
  BY SameJob DEF Clear, Labels
<1>2. connections' \in [1 .. MaxConn -> 0 .. NFd]
  <2>1. 0 \in 0 .. NFd /\ connections \in [1 .. MaxConn -> 0 .. NFd]
    BY ConnectionConstantsOK DEF TypeOK
  <2> QED
    BY <2>1 DEF Clear
<1> QED
  BY <1>1, <1>2 DEF Clear, TypeOK, sockets, loop, others

LEMMA UnlistTyped == ASSUME TypeOK, NEW w \in Workers, Unlist(w) PROVE TypeOK'
<1>1. /\ pc' \in [Workers -> Labels] /\ job' \in [Workers -> Jobs]
      /\ \A v \in Workers : pc'[v] \in {"idle", "accept", "sent"} \/ job'[v].rec \in Records
  BY NoJobTyped, StepTyped DEF Unlist, Labels
<1>2. clientList' \in Seq(Records)
  <2>1. CASE job[w].rec \in Range(clientList)
    BY <2>1, WithoutFacts DEF Unlist
  <2>2. CASE job[w].rec \notin Range(clientList)
    BY <2>2 DEF Unlist, Without, Range, TypeOK
  <2> QED
    BY <2>1, <2>2
<1>3. server' \in [connected : BOOLEAN, fd : 0 .. NFd]
  BY DEF Unlist, Unlink, TypeOK
<1> QED
  BY <1>1, <1>2, <1>3 DEF Unlist, TypeOK, sockets, loop, others

\* TypeOK: the variables keep their types, and a worker that is past accept() works
\* on the record of a connection, with any number of workers.
THEOREM TypeCorrect == Spec => []TypeOK
<1>1. TypeOK /\ [Next]_vars => TypeOK'
  <2> SUFFICES ASSUME TypeOK, [Next]_vars PROVE TypeOK'
    OBVIOUS
  <2>1. CASE ConnThread
    BY <2>1, ThreadTyped
  <2>2. CASE Outside
    BY <2>2, OutsideTyped
  <2>3. ASSUME NEW w \in Workers, Work(w) PROVE TypeOK'
    BY <2>3, TakeTyped, AcceptTyped, AcceptFailsTyped, ConnAddTyped, ListAddTyped,
       ConnectTyped, LinkTyped, MulticastTyped, MarkSentTyped, RecvTyped, CloseTyped, ClearTyped, UnlistTyped DEF Work
  <2>4. CASE UNCHANGED vars
    BY <2>4 DEF vars, TypeOK
  <2> QED
    BY <2>1, <2>2, <2>3, <2>4 DEF Next
<1> QED
  BY InitTyped, <1>1, PTL DEF Spec


-----------------------------------------------------------------------------
(* One worker: the inductive invariant *)

Peers      == {f \in FDs : sock[f].end = Peer}
Queued     == {queue[i].fd : i \in {j \in 1 .. Len(queue) : queue[j].type = "recv"}}
Counted(f) == {g \in 1 .. f : g \notin dropped /\ sock[g].end # "lost"}

ClosedFree == \A f \in FDs : sock[f].end = "nobody" => sock[f] = Free

\* One record a descriptor.
OneRecord == \A i, j \in 1 .. Len(clientList) : clientList[i].fd = clientList[j].fd => i = j

\* A connection has a record, unless its record is about to be added.
Recorded(w) == \A f \in FDs : sock[f].end \in Ends =>
  \/ pc[w] \in {"add", "list"} /\ f = job[w].rec.fd
  \/ \E i \in 1 .. Len(clientList) : clientList[i].fd = f

\* A record has its connection, unless the record is about to be deleted.
RecordTrue(w) == \A i \in 1 .. Len(clientList) :
  \/ sock[clientList[i].fd].end = clientList[i].end
  \/ pc[w] \in {"clear", "unlist"} /\ clientList[i] = job[w].rec

\* A connection on its way into the table and the list.
Entering(w) ==
  /\ pc[w] \in {"add", "list"} =>
       /\ sock[job[w].rec.fd].end = job[w].rec.end
       /\ \A i \in 1 .. Len(clientList) : clientList[i].fd # job[w].rec.fd
  /\ pc[w] = "add" => /\ job[w].rec.fd \notin InTable \cup dropped
                      /\ \A g \in FDs : g < job[w].rec.fd => sock[g] # Free
  /\ pc[w] = "link" => job[w].rec.end = Peer

\* A connection that is read, or on its way out.
Leaving(w) ==
  /\ pc[w] \in {"recv", "close", "clear", "unlist"} =>
       \E i \in 1 .. Len(clientList) : clientList[i] = job[w].rec
  /\ pc[w] \in {"recv", "close"} => job[w].rec.fd \in InTable
  /\ pc[w] \in {"clear", "unlist"} => sock[job[w].rec.fd] = Free

\* The table's entries are different connections.
Distinct == \A i, j \in 1 .. MaxConn :
  connections[i] = connections[j] /\ connections[i] # 0 => i = j

\* The table holds the connections, but those it had no room for.
Watched(w) ==
  /\ \A f \in InTable : sock[f].end \in Ends \/ (pc[w] = "clear" /\ f = job[w].rec.fd)
  /\ \A f \in FDs : sock[f].end \in Ends =>
       f \in InTable \cup dropped \/ (pc[w] = "add" /\ f = job[w].rec.fd)
  /\ \A f \in dropped : sock[f].end \in Ends /\ f \notin InTable

\* Up to a descriptor in the table, or in an event, there are no more descriptors
\* than entries, the dropped and the lost ones apart: when its connection ends and
\* the descriptor is given out again, the table has an entry for it.
Room == /\ Queued \cap dropped = {}
        /\ \A f \in InTable \cup Queued : Cardinality(Counted(f)) <= MaxConn

\* The peer's record and the peer's connection, also while one of them changes.
Linked(w) ==
  /\ pc[w] = "connect" => ~server.connected
  /\ pc[w] = "sent" => server.fd \in FDs
  /\ strayed => server.connected
  /\ IF pc[w] \in {"add", "list", "link"} /\ job[w].rec.end = Peer
       THEN ~server.connected /\ Peers = {job[w].rec.fd}
     ELSE IF pc[w] \in {"clear", "unlist"} /\ job[w].rec.end = Peer
       THEN server.connected /\ ~strayed /\ server.fd = job[w].rec.fd /\ Peers = {}
     ELSE Peers = IF server.connected /\ ~strayed THEN {server.fd} ELSE {}

IInv(w) ==
  /\ ClosedFree /\ OneRecord /\ Recorded(w) /\ RecordTrue(w) /\ Entering(w) /\ Leaving(w)
  /\ Distinct /\ Watched(w) /\ Room /\ Linked(w)

\* The ends of all connections stay the same.
SameEnds == \A f \in FDs : sock'[f].end = sock[f].end /\ (sock'[f] = Free <=> sock[f] = Free)

LEMMA EndFacts ==
  /\ "nobody" \notin Ends /\ "lost" \notin Ends /\ Peer \in Ends
  /\ Free.end = "nobody" /\ Lost.end = "lost" /\ Lost # Free
  /\ \A e \in Ends : Opened(e).end = e /\ Opened(e) # Free
<1>1. "nobody" \notin Ends /\ "lost" \notin Ends /\ Peer \in Ends
  BY ConnectionConstantsOK DEF Ends
<1>2. Free.end = "nobody" /\ Lost.end = "lost" /\ Lost # Free
  BY DEF Free, Lost
<1>3. \A e \in Ends : Opened(e).end = e
  BY DEF Opened
<1> QED
  BY <1>1, <1>2, <1>3

\* The members of the table and of the events are descriptors.
LEMMA FDFacts ==
  ASSUME TypeOK
  PROVE  /\ InTable \subseteq FDs /\ Queued \subseteq FDs /\ dropped \subseteq FDs
         /\ FDs \subseteq Nat \ {0}
         /\ \A i \in 1 .. Len(queue) : queue[i] \in Events
         /\ \A i \in 1 .. Len(clientList) : clientList[i] \in Records /\ clientList[i].fd \in FDs
<1>1. \A i \in 1 .. Len(queue) : queue[i] \in Events
  BY DEF TypeOK
<1>2. \A i \in 1 .. Len(clientList) : clientList[i] \in Records /\ clientList[i].fd \in FDs
  <2>1. \A i \in 1 .. Len(clientList) : clientList[i] \in Records
    BY DEF TypeOK
  <2> QED
    BY <2>1 DEF Records
<1>3. Queued \subseteq FDs
  BY <1>1 DEF Queued, Events
<1>4. InTable \subseteq FDs /\ dropped \subseteq FDs /\ FDs \subseteq Nat \ {0}
  BY ConnectionConstantsOK DEF InTable, TypeOK, FDs
<1> QED
  BY <1>1, <1>2, <1>3, <1>4

\* A step that only lets the clients or the peer say something.
LEMMA TalkKeeps ==
  ASSUME TypeOK, NEW w \in Workers, IInv(w), SameEnds,
         UNCHANGED <<connections, clientList, server, strayed, dropped, queue, pc, job>>
  PROVE  IInv(w)'
<1>1. /\ Peers' = Peers /\ Queued' = Queued /\ InTable' = InTable
  BY DEF Peers, Queued, InTable, SameEnds
<1>2. \A f \in FDs : Counted(f)' = Counted(f)
  <2>1. \A f \in FDs : 1 .. f \subseteq FDs
    BY ConnectionConstantsOK DEF FDs
  <2> QED
    BY <2>1 DEF Counted, SameEnds
<1>3. InTable \subseteq FDs /\ Queued \subseteq FDs /\ dropped \subseteq FDs
  BY FDFacts
<1>4. \A i \in 1 .. Len(clientList) : clientList[i].fd \in FDs
  BY FDFacts
<1>5. pc[w] \in {"idle", "accept", "sent"} \/ job[w].rec.fd \in FDs
  BY DEF TypeOK, Records
<1>6. (ClosedFree /\ OneRecord /\ Distinct)'
  BY DEF IInv, ClosedFree, OneRecord, Distinct, SameEnds
<1>7. (Recorded(w) /\ RecordTrue(w) /\ Entering(w) /\ Leaving(w))'
  BY <1>1, <1>3, <1>4, <1>5 DEF IInv, Recorded, RecordTrue, Entering, Leaving, SameEnds
<1>8. Watched(w)'
  BY <1>1, <1>3, <1>5 DEF IInv, Watched, SameEnds
<1>9. Room' /\ Linked(w)'
  BY <1>1, <1>2, <1>3 DEF IInv, Room, Linked
<1> QED
  BY <1>6, <1>7, <1>8, <1>9 DEF IInv


LEMMA InitGood == ASSUME Init, NEW w \in Workers PROVE IInv(w)
<1>1. InTable = {} /\ Queued = {} /\ Peers = {} /\ pc[w] = "idle"
  BY EndFacts DEF Init, InTable, FDs, Queued, Peers
<1>2. ClosedFree /\ OneRecord /\ Recorded(w) /\ RecordTrue(w) /\ Entering(w) /\ Leaving(w)
  BY <1>1, EndFacts DEF Init, ClosedFree, OneRecord, Recorded, RecordTrue, Entering, Leaving
<1>3. Distinct /\ Watched(w) /\ Room /\ Linked(w)
  BY <1>1, EndFacts DEF Init, Distinct, Watched, Room, Linked
<1> QED
  BY <1>2, <1>3 DEF IInv

LEMMA OutsideGood ==
  ASSUME TypeOK, NEW w \in Workers, IInv(w), Outside
  PROVE  IInv(w)'
<1>1. UNCHANGED <<connections, clientList, server, strayed, dropped, queue, pc, job>>
  BY DEF Outside, ClientConnects, ClientSends, ClientLeaves, PeerStops, PeerStarts, lists
<1>2. SameEnds
  <2>2. CASE \E f \in FDs : ClientSends(f)
    <3>1. PICK g \in FDs, m \in {"command", "write", "quit"} :
            sock[g].end \in Clients /\ sock' = [sock EXCEPT ![g].data = m]
      BY <2>2 DEF ClientSends, Says
    <3>2. sock'[g].end = sock[g].end /\ \A f \in FDs \ {g} : sock'[f] = sock[f]
      BY <3>1 DEF TypeOK, Sockets
    <3>3. sock[g].end \in Ends
      BY <3>1 DEF Ends
    <3>4. sock[g] # Free /\ sock'[g] # Free
      BY <3>2, <3>3, EndFacts
    <3> QED
      BY <3>2, <3>4 DEF SameEnds
  <2>3. CASE \E f \in FDs : ClientLeaves(f)
    <3>1. PICK g \in FDs :
            sock[g].end \in Clients /\ sock' = [sock EXCEPT ![g].eof = TRUE]
      BY <2>3 DEF ClientLeaves
    <3>2. sock'[g].end = sock[g].end /\ \A f \in FDs \ {g} : sock'[f] = sock[f]
      BY <3>1 DEF TypeOK, Sockets
    <3>3. sock[g].end \in Ends
      BY <3>1 DEF Ends
    <3>4. sock[g] # Free /\ sock'[g] # Free
      BY <3>2, <3>3, EndFacts
    <3> QED
      BY <3>2, <3>4 DEF SameEnds
  <2>4. CASE PeerStops
    <3>1. ASSUME NEW f \in FDs, sock[f].end = Peer PROVE sock'[f].end = Peer
      BY <2>4, <3>1 DEF PeerStops, TypeOK, Sockets
    <3>2. \A f \in FDs : sock[f].end # Peer => sock'[f] = sock[f]
      BY <2>4 DEF PeerStops
    <3> QED
      BY <3>1, <3>2, EndFacts DEF SameEnds
  <2>5. CASE sock' = sock
    BY <2>5 DEF SameEnds
  <2> QED
    BY <2>2, <2>3, <2>4, <2>5
    DEF Outside, ClientConnects, PeerStarts, sockets
<1> QED
  BY <1>1, <1>2, TalkKeeps

\* What is posted is for a connection of the table.
LEMMA ThreadGood ==
  ASSUME TypeOK, NEW w \in Workers, IInv(w), ConnThread
  PROVE  IInv(w)'
<1>1. /\ UNCHANGED <<sock, connections, clientList, server, strayed, dropped, pc, job>>
      /\ \/ UNCHANGED queue
         \/ \E p \in Ports : queue' = Append(queue, EventOf("accept", p, 0))
         \/ \E f \in InTable : queue' = Append(queue, EventOf("recv", "user", f))
  <2>1. CASE Select
    BY <2>1 DEF Select, sockets
  <2>2. CASE PostAccept
    BY <2>2 DEF PostAccept, sockets, Ports
  <2>3. CASE PostRecv
    <3>1. connections[entry] \in readSet.fd => connections[entry] \in InTable
      BY DEF TypeOK, InTable
    <3> QED
      BY <2>3, <3>1 DEF PostRecv, sockets
  <2> QED
    BY <2>1, <2>2, <2>3 DEF ConnThread
<1>2. Queued' \subseteq Queued \cup InTable
  <2>1. CASE UNCHANGED queue
    BY <2>1 DEF Queued
  <2>2. ASSUME NEW e, queue' = Append(queue, e), e.type = "recv" => e.fd \in InTable
        PROVE  Queued' \subseteq Queued \cup InTable
    <3>1. queue \in Seq(Events)
      BY DEF TypeOK
    <3>2. Len(queue') = Len(queue) + 1 /\ queue'[Len(queue) + 1] = e
          /\ \A i \in 1 .. Len(queue) : queue'[i] = queue[i]
      BY <2>2, <3>1
    <3>3. ASSUME NEW i \in 1 .. Len(queue'), queue'[i].type = "recv"
          PROVE  queue'[i].fd \in Queued \cup InTable
      <4>1. CASE i \in 1 .. Len(queue)
        BY <3>2, <3>3, <4>1 DEF Queued
      <4>2. CASE i = Len(queue) + 1
        BY <2>2, <3>2, <3>3, <4>2
      <4> QED
        BY <3>1, <3>2, <4>1, <4>2
    <3> QED
      BY <3>3 DEF Queued
  <2>3. \A t, p, f : EventOf(t, p, f).type = t /\ EventOf(t, p, f).fd = f
    BY DEF EventOf
  <2> QED
    BY <1>1, <2>1, <2>2, <2>3
<1>3. InTable' = InTable /\ Peers' = Peers /\ \A f : Counted(f)' = Counted(f)
  BY <1>1 DEF InTable, Peers, Counted
<1>4. InTable \cap dropped = {}
  BY DEF IInv, Watched
<1>5. Room'
  BY <1>1, <1>2, <1>3, <1>4 DEF IInv, Room
<1>6. (ClosedFree /\ OneRecord /\ Recorded(w) /\ RecordTrue(w) /\ Entering(w) /\ Leaving(w))'
  BY <1>1, <1>3 DEF IInv, ClosedFree, OneRecord, Recorded, RecordTrue, Entering, Leaving
<1>7. (Distinct /\ Watched(w) /\ Linked(w))'
  BY <1>1, <1>3 DEF IInv, Distinct, Watched, Linked
<1> QED
  BY <1>5, <1>6, <1>7 DEF IInv


-----------------------------------------------------------------------------
(* Counting descriptors *)

LEMMA CountedFinite ==
  ASSUME NEW f \in FDs
  PROVE  IsFiniteSet(Counted(f)) /\ Cardinality(Counted(f)) \in Nat
<1>1. f \in Int /\ Counted(f) \in SUBSET (1 .. f)
  BY ConnectionConstantsOK DEF Counted, FDs
<1>2. IsFiniteSet(Counted(f))
  BY <1>1, FS_Interval, FS_Subset
<1> QED
  BY <1>2, FS_CardinalityType

\* The greatest of a set of descriptors.
LEMMA NatMax ==
  ASSUME NEW T \in SUBSET FDs, T # {}
  PROVE  \E x \in T : \A y \in T : y <= x
<1> DEFINE U == {NFd - x : x \in T}
<1>1. \A x \in T : x \in Nat /\ x <= NFd /\ NFd - x \in Nat
  BY ConnectionConstantsOK DEF FDs
<1>2. U \in SUBSET Nat /\ U # {}
  BY <1>1
<1>3. PICK u \in U : \A y \in U : u <= y
  <2> HIDE DEF U
  <2> QED
    BY <1>2, NatMin
<1>4. PICK m \in T : u = NFd - m
  OBVIOUS
<1>5. \A y \in T : NFd - m <= NFd - y
  BY <1>3, <1>4
<1>6. \A y \in T : y <= m
  BY <1>1, <1>5, ConnectionConstantsOK
<1> QED
  BY <1>6

\* A table without an empty entry holds MaxConn descriptors.
LEMMA FullTable ==
  ASSUME TypeOK, Distinct, \A i \in 1 .. MaxConn : connections[i] # 0
  PROVE  IsFiniteSet(InTable) /\ Cardinality(InTable) = MaxConn
<1>1. IsFiniteSet(1 .. MaxConn) /\ Cardinality(1 .. MaxConn) = MaxConn
  <2>1. 1 \in Int /\ MaxConn \in Int /\ ~(1 > MaxConn) /\ MaxConn - 1 + 1 = MaxConn
    BY ConnectionConstantsOK
  <2> QED
    BY <2>1, FS_Interval
<1>2. connections \in [1 .. MaxConn -> InTable]
  BY DEF TypeOK, InTable, FDs
<1>3. connections \in Surjection(1 .. MaxConn, InTable)
  BY <1>2 DEF Surjection, InTable
<1>4. connections \in Injection(1 .. MaxConn, InTable)
  BY <1>2 DEF Injection, IsInjective, Distinct
<1> QED
  BY <1>1, <1>3, <1>4, FS_Surjection

\* When the table is full, no event waits for a descriptor that is not in it.
LEMMA NoneQueued ==
  ASSUME TypeOK, NEW w \in Workers, IInv(w), pc[w] = "add",
         \A i \in 1 .. MaxConn : connections[i] # 0
  PROVE  job[w].rec.fd \notin Queued
<1> DEFINE f == job[w].rec.fd  T == InTable \cup {f}
<1>1. SUFFICES ASSUME f \in Queued PROVE FALSE
  OBVIOUS
<1>2. T \in SUBSET FDs /\ FDs \subseteq Nat \ {0}
  BY <1>1, FDFacts
<1>3. PICK m \in T : \A y \in T : y <= m
  <2> HIDE DEF T
  <2>1. T # {}
    BY DEF T
  <2> QED
    BY <1>2, <2>1, NatMax
<1>4. ASSUME NEW y \in T PROVE y \notin dropped /\ sock[y].end # "lost"
  <2>1. f \notin dropped /\ sock[f].end = job[w].rec.end /\ job[w].rec \in Records
    BY DEF IInv, Entering, TypeOK
  <2>2. sock[f].end \in Ends
    BY <2>1 DEF Records
  <2>3. y \in InTable => y \notin dropped /\ sock[y].end \in Ends
    BY DEF IInv, Watched
  <2> QED
    BY <2>1, <2>2, <2>3, EndFacts
<1>5. T \subseteq Counted(m)
  <2>1. ASSUME NEW y \in T PROVE y \in 1 .. m
    <3>1. y \in Nat \ {0} /\ m \in Nat \ {0} /\ y <= m
      BY <1>2, <1>3
    <3> QED
      BY <3>1
  <2> HIDE DEF T
  <2> QED
    BY <1>4, <2>1 DEF Counted
<1>6. m \in FDs /\ Cardinality(Counted(m)) <= MaxConn
  BY <1>1, <1>2, <1>3 DEF IInv, Room
<1>7. f \notin InTable
  BY DEF IInv, Entering
<1>8. IsFiniteSet(InTable) /\ Cardinality(InTable) = MaxConn
  BY FullTable DEF IInv
<1>9. Cardinality(T) = MaxConn + 1
  BY <1>7, <1>8, FS_AddElement
<1>10. Cardinality(T) <= Cardinality(Counted(m))
  BY <1>5, <1>6, CountedFinite, FS_Subset
<1> HIDE DEF T
<1>11. PICK n \in Nat : n = Cardinality(Counted(m))
  BY <1>6, CountedFinite
<1> QED
  BY <1>6, <1>9, <1>10, <1>11, ConnectionConstantsOK

\* A descriptor that was the lowest free one, in the table, has no more below it
\* than the table has entries.
LEMMA FitsTable ==
  ASSUME NEW f \in FDs, NEW C \in SUBSET FDs, f \in C,
         NEW t \in [1 .. MaxConn -> 0 .. NFd], \A g \in C : \E i \in 1 .. MaxConn : t[i] = g
  PROVE  Cardinality(C) <= MaxConn
<1> DEFINE s == [i \in 1 .. MaxConn |-> IF t[i] \in C THEN t[i] ELSE f]
<1>1. s \in [1 .. MaxConn -> C]
  OBVIOUS
<1>2. \A g \in C : \E i \in 1 .. MaxConn : s[i] = g
  OBVIOUS
<1>3. s \in Surjection(1 .. MaxConn, C)
  BY <1>1, <1>2 DEF Surjection
<1>4. ExistsSurjection(1 .. MaxConn, C)
  BY <1>3 DEF ExistsSurjection
<1> QED
  BY <1>4, FS_SurjCardinalityBound, ConnectionConstantsOK

\* Below the descriptor that enters there is none that is free, so all but the
\* dropped and the lost ones are in the table.
LEMMA CountedInTable ==
  ASSUME TypeOK, NEW w \in Workers, IInv(w), pc[w] = "add"
  PROVE  Counted(job[w].rec.fd) \subseteq InTable \cup {job[w].rec.fd}
<1> DEFINE f == job[w].rec.fd
<1>1. f \in FDs /\ f \in Nat
  <2>1. job[w].rec \in Records
    BY DEF TypeOK
  <2> QED
    BY <2>1, FDFacts DEF Records
<1>2. ASSUME NEW g \in Counted(f), g # f PROVE g \in InTable
  <2>1. g \in FDs /\ g < f /\ g \notin dropped /\ sock[g].end # "lost"
    BY <1>1, <1>2, ConnectionConstantsOK DEF Counted, FDs
  <2>2. sock[g].end # "nobody"
    BY <2>1 DEF IInv, Entering, ClosedFree
  <2>3. sock[g].end \in Ends
    BY <2>1, <2>2 DEF TypeOK, Sockets
  <2> QED
    BY <1>2, <2>1, <2>3 DEF IInv, Watched
<1> QED
  BY <1>2


-----------------------------------------------------------------------------
(* One worker: the steps *)

Calm == {"idle", "accept", "recv", "connect", "close", "sent"}

\* A step that touches neither the table nor the lists.
LEMMA CalmKeeps ==
  ASSUME TypeOK, NEW w \in Workers, IInv(w), SameEnds, pc[w] \in Calm, pc'[w] \in Calm,
         UNCHANGED <<connections, clientList, server, strayed, dropped>>,
         Queued' \subseteq Queued, Leaving(w)', pc'[w] = "connect" => ~server.connected,
         pc'[w] = "sent" => server.fd \in FDs
  PROVE  IInv(w)'
<1>1. /\ Peers' = Peers /\ InTable' = InTable
  BY DEF Peers, InTable, SameEnds
<1>2. \A f \in FDs : Counted(f)' = Counted(f)
  <2>1. \A f \in FDs : 1 .. f \subseteq FDs
    BY ConnectionConstantsOK DEF FDs
  <2> QED
    BY <2>1 DEF Counted, SameEnds
<1>3. InTable \subseteq FDs /\ Queued \subseteq FDs /\ dropped \subseteq FDs
      /\ \A i \in 1 .. Len(clientList) : clientList[i].fd \in FDs
  BY FDFacts
<1>4. (ClosedFree /\ OneRecord /\ Distinct)'
  BY DEF IInv, ClosedFree, OneRecord, Distinct, SameEnds
<1>5. (Recorded(w) /\ RecordTrue(w) /\ Entering(w))'
  BY <1>3 DEF IInv, Recorded, RecordTrue, Entering, SameEnds, Calm
<1>6. Watched(w)'
  BY <1>1, <1>3 DEF IInv, Watched, SameEnds, Calm
<1>7. Room'
  BY <1>1, <1>2, <1>3 DEF IInv, Room
<1>8. Linked(w)'
  BY <1>1 DEF IInv, Linked, Calm
<1> QED
  BY <1>4, <1>5, <1>6, <1>7, <1>8 DEF IInv

LEMMA TakeGood ==
  ASSUME TypeOK, NEW w \in Workers, IInv(w), Take(w)
  PROVE  IInv(w)'
<1> DEFINE e == Head(queue)
<1>1. queue \in Seq(Events) /\ queue # <<>> /\ queue' = Tail(queue)
  BY DEF Take, TypeOK
<1>2. UNCHANGED <<sock, connections, clientList, server, strayed, dropped>>
  BY DEF Take, sockets, lists
<1>3. Queued' \subseteq Queued
  <2>1. ASSUME NEW i \in 1 .. Len(queue') PROVE \E j \in 1 .. Len(queue) : queue'[i] = queue[j]
    <3>1. i + 1 \in 1 .. Len(queue) /\ queue'[i] = queue[i + 1]
      BY <1>1
    <3> QED
      BY <3>1
  <2> QED
    BY <2>1 DEF Queued
<1>4. pc[w] = "idle" /\ SameEnds
  BY <1>2 DEF Take, Move, SameEnds
<1>5. CASE Move(w, "idle", "accept")
  <2>1. pc'[w] = "accept"
    BY <1>5 DEF Move, TypeOK
  <2> QED
    BY <1>2, <1>3, <1>4, <2>1, CalmKeeps DEF Calm, Leaving
<1>6. CASE /\ e.type = "recv" /\ Find(e.fd) # NoRec /\ Move(w, "idle", "recv")
           /\ Keep(w, [NoJob EXCEPT !.rec = Find(e.fd)])
  <2>0. Find(e.fd) \in Range(clientList)
    BY <1>6, FindFacts
  <2>1. PICK i \in 1 .. Len(clientList) : clientList[i] = Find(e.fd)
    <3>1. DOMAIN clientList = 1 .. Len(clientList)
      BY DEF TypeOK
    <3> QED
      BY <2>0, <3>1 DEF Range
  <2>2. clientList[i].fd = e.fd /\ clientList[i] \in Records
    BY <1>6, <2>1, FindFacts
  <2>3. pc'[w] = "recv" /\ job'[w].rec = clientList[i]
    BY <1>6, <2>1 DEF Move, Keep, TypeOK, NoJob
  <2>4. e.fd \in Queued
    BY <1>1, <1>6 DEF Queued
  <2>5. e.fd \notin dropped
    BY <2>4 DEF IInv, Room
  <2>6. sock[e.fd].end \in Ends /\ e.fd \in FDs
    <3>1. sock[clientList[i].fd].end = clientList[i].end
      BY <1>4 DEF IInv, RecordTrue
    <3>2. clientList[i].end \in Ends /\ clientList[i].fd \in FDs
      BY <2>2 DEF Records
    <3> QED
      BY <2>2, <3>1, <3>2
  <2>7. clientList[i].fd \in InTable
    BY <1>4, <2>2, <2>5, <2>6 DEF IInv, Watched
  <2>8. Leaving(w)'
    BY <1>2, <2>3, <2>7 DEF Leaving, InTable
  <2> QED
    BY <1>2, <1>3, <1>4, <2>3, <2>8, CalmKeeps DEF Calm
<1>7. CASE UNCHANGED <<pc, job>>
  BY <1>2, <1>3, <1>4, <1>7, CalmKeeps DEF Calm, Leaving
<1> QED
  BY <1>5, <1>6, <1>7 DEF Take

\* A descriptor is given out, by accept() or by socket().
LEMMA OpenGood ==
  ASSUME TypeOK, NEW w \in Workers, IInv(w), NEW f \in FDs, NEW e \in Ends,
         sock[f] = Free, \A g \in FDs : g < f => sock[g] # Free,
         sock' = [sock EXCEPT ![f] = Opened(e)],
         pc[w] \in {"accept", "connect"}, pc'[w] = "add", e = Peer => pc[w] = "connect",
         job'[w].rec = [fd |-> f, end |-> e],
         UNCHANGED <<connections, clientList, server, strayed, dropped, queue>>
  PROVE  IInv(w)'
<1>1. sock'[f].end = e /\ sock'[f] # Free /\ \A g \in FDs \ {f} : sock'[g] = sock[g]
  BY EndFacts DEF TypeOK
<1>2. job'[w].rec.fd = f /\ job'[w].rec.end = e
  OBVIOUS
<1>3. InTable' = InTable /\ Queued' = Queued
  BY DEF InTable, Queued
<1>4. InTable \subseteq FDs /\ Queued \subseteq FDs /\ dropped \subseteq FDs
      /\ \A i \in 1 .. Len(clientList) : clientList[i] \in Records /\ clientList[i].fd \in FDs
  BY FDFacts
<1>5. \A i \in 1 .. Len(clientList) : sock[clientList[i].fd].end \in Ends
  BY <1>4 DEF IInv, RecordTrue, Records
<1>6. \A g \in InTable \cup dropped : sock[g].end \in Ends
  BY DEF IInv, Watched
<1>7. sock[f].end = "nobody" /\ "nobody" \notin Ends /\ "lost" \notin Ends
  BY EndFacts
<1>8. (ClosedFree /\ OneRecord /\ Distinct)'
  BY <1>1, <1>7 DEF IInv, ClosedFree, OneRecord, Distinct
<1>9. (Recorded(w) /\ RecordTrue(w))'
  BY <1>1, <1>2, <1>4, <1>5, <1>7 DEF IInv, Recorded, RecordTrue
<1>10. \A i \in 1 .. Len(clientList) : clientList[i].fd # f
  BY <1>5, <1>7
<1>11. f \notin InTable \cup dropped
  BY <1>6, <1>7
<1>12. \A g \in FDs : g < f => sock'[g] # Free
  BY <1>1
<1>13. (Entering(w) /\ Leaving(w))'
  BY <1>1, <1>2, <1>3, <1>10, <1>11, <1>12 DEF Entering, Leaving
<1>14. Watched(w)'
  BY <1>1, <1>2, <1>3, <1>4, <1>6, <1>7, <1>11 DEF IInv, Watched
<1>15. \A g \in FDs : Counted(g)' = Counted(g)
  <2>1. \A g \in FDs : 1 .. g \subseteq FDs
    BY ConnectionConstantsOK DEF FDs
  <2>2. \A g \in FDs : sock'[g].end = "lost" <=> sock[g].end = "lost"
    BY <1>1, <1>7
  <2> QED
    BY <2>1, <2>2 DEF Counted
<1>16. Room'
  BY <1>3, <1>4, <1>15 DEF IInv, Room
<1>17. Linked(w)'
  <2>1. CASE e = Peer
    <3>1. Peers = {} /\ ~server.connected /\ ~strayed
      BY <2>1 DEF IInv, Linked, TypeOK
    <3>2. Peers' = {f}
      BY <1>1, <2>1, <3>1 DEF Peers
    <3> QED
      BY <1>2, <2>1, <3>1, <3>2 DEF Linked
  <2>2. CASE e # Peer
    <3>1. Peers' = Peers
      BY <1>1, <1>7, <2>2, EndFacts DEF Peers
    <3> QED
      BY <1>2, <2>2, <3>1 DEF IInv, Linked
  <2> QED
    BY <2>1, <2>2
<1> QED
  BY <1>8, <1>9, <1>13, <1>14, <1>16, <1>17 DEF IInv


LEMMA AcceptGood ==
  ASSUME TypeOK, NEW w \in Workers, IInv(w), Accept(w)
  PROVE  IInv(w)'
<1> DEFINE p == job[w].port  f == Min(FreeFDs)  c == Head(backlog[p])
<1>1. f \in FDs /\ sock[f] = Free /\ \A g \in FDs : g < f => sock[g] # Free
  BY LowestFree DEF Accept
<1>2. p \in Ports /\ job[w] \in Jobs
  BY DEF TypeOK, Jobs
<1>3. c \in Clients
  <2>1. backlog[p] \in Seq(Clients) /\ backlog[p] # <<>>
    BY <1>2 DEF TypeOK, Accept
  <2> QED
    BY <2>1
<1>4. c \in Ends /\ c # Peer
  BY <1>3, ConnectionConstantsOK DEF Ends
<1>5. /\ pc[w] = "accept" /\ pc'[w] = "add"
      /\ job'[w] = [job[w] EXCEPT !.rec = [fd |-> f, end |-> c]]
      /\ sock' = [sock EXCEPT ![f] = Opened(c)]
      /\ UNCHANGED <<connections, clientList, server, strayed, dropped, queue>>
  BY DEF Accept, Move, Keep, TypeOK, lists
<1>6. job'[w].rec = [fd |-> f, end |-> c]
  BY <1>2, <1>5 DEF Jobs
<1> HIDE DEF c, f
<1> QED
  BY <1>1, <1>4, <1>5, <1>6, OpenGood

LEMMA AcceptFailsGood ==
  ASSUME TypeOK, NEW w \in Workers, IInv(w), AcceptFails(w)
  PROVE  IInv(w)'
<1>1. /\ pc[w] = "accept" /\ pc'[w] = "idle"
      /\ UNCHANGED <<sock, connections, clientList, server, strayed, dropped, queue>>
  BY DEF AcceptFails, Move, TypeOK, sockets, lists
<1>2. SameEnds /\ Queued' = Queued
  BY <1>1 DEF SameEnds, Queued
<1> QED
  BY <1>1, <1>2, CalmKeeps DEF Calm, Leaving

\* A descriptor that is never closed counts no more.
LEMMA LostGood ==
  ASSUME TypeOK, NEW w \in Workers, IInv(w), NEW f \in FDs, sock[f] = Free,
         sock' = [sock EXCEPT ![f] = Lost], pc[w] = "connect", pc'[w] = "idle",
         UNCHANGED <<connections, clientList, server, strayed, dropped, queue>>
  PROVE  IInv(w)'
<1>1. sock'[f].end = "lost" /\ \A g \in FDs \ {f} : sock'[g] = sock[g]
  BY EndFacts DEF TypeOK
<1>2. InTable' = InTable /\ Queued' = Queued
  BY DEF InTable, Queued
<1>3. InTable \subseteq FDs /\ Queued \subseteq FDs /\ dropped \subseteq FDs
      /\ \A i \in 1 .. Len(clientList) : clientList[i] \in Records /\ clientList[i].fd \in FDs
  BY FDFacts
<1>4. \A i \in 1 .. Len(clientList) : sock[clientList[i].fd].end \in Ends
  BY <1>3 DEF IInv, RecordTrue, Records
<1>5. sock[f].end = "nobody" /\ "nobody" \notin Ends /\ "lost" \notin Ends /\ Peer \in Ends
  BY EndFacts
<1>6. (ClosedFree /\ OneRecord /\ Distinct)'
  BY <1>1, <1>5 DEF IInv, ClosedFree, OneRecord, Distinct
<1>7. (Recorded(w) /\ RecordTrue(w) /\ Entering(w) /\ Leaving(w))'
  BY <1>1, <1>3, <1>4, <1>5 DEF IInv, Recorded, RecordTrue, Entering, Leaving
<1>8. Watched(w)'
  BY <1>1, <1>2, <1>3, <1>5 DEF IInv, Watched
<1>9. \A g \in FDs : Counted(g)' \subseteq Counted(g)
  <2>1. \A g \in FDs : 1 .. g \subseteq FDs
    BY ConnectionConstantsOK DEF FDs
  <2>2. \A g \in FDs : sock[g].end = "lost" => sock'[g].end = "lost"
    BY <1>1, <1>5
  <2> QED
    BY <2>1, <2>2 DEF Counted
<1>10. \A g \in FDs : Cardinality(Counted(g)) <= MaxConn => Cardinality(Counted(g)') <= MaxConn
  <2> TAKE g \in FDs
  <2>1. Cardinality(Counted(g)') <= Cardinality(Counted(g))
    BY <1>9, CountedFinite, FS_Subset
  <2>2. Cardinality(Counted(g)) \in Nat /\ Cardinality(Counted(g)') \in Nat
    BY <1>9, CountedFinite, FS_Subset, FS_CardinalityType
  <2> QED
    BY <2>1, <2>2, ConnectionConstantsOK
<1>11. Room'
  BY <1>2, <1>3, <1>10 DEF IInv, Room
<1>12. Linked(w)'
  <2>1. Peers' = Peers
    BY <1>1, <1>5 DEF Peers
  <2> QED
    BY <2>1 DEF IInv, Linked
<1> QED
  BY <1>6, <1>7, <1>8, <1>11, <1>12 DEF IInv

LEMMA ConnectGood ==
  ASSUME TypeOK, NEW w \in Workers, IInv(w), Connect(w)
  PROVE  IInv(w)'
<1> DEFINE f == Min(FreeFDs)
<1>1. pc[w] = "connect" /\ UNCHANGED <<connections, clientList, server, strayed, dropped, queue>>
  BY DEF Connect, lists
<1>2. CASE UNCHANGED <<pc, job, sock>>
  BY <1>1, <1>2, TalkKeeps DEF SameEnds
<1>3. CASE /\ FreeFDs # {} /\ sock' = [sock EXCEPT ![f] = Lost]
           /\ Move(w, "connect", "idle") /\ Keep(w, NoJob)
  <2>1. f \in FDs /\ sock[f] = Free
    BY <1>3, LowestFree
  <2>2. pc'[w] = "idle"
    BY <1>3 DEF Move, TypeOK
  <2> HIDE DEF f
  <2> QED
    BY <1>1, <1>3, <2>1, <2>2, LostGood
<1>4. CASE /\ FreeFDs # {} /\ sock' = [sock EXCEPT ![f] = Opened(Peer)]
           /\ Move(w, "connect", "add")
           /\ Keep(w, [job[w] EXCEPT !.rec = [fd |-> f, end |-> Peer]])
  <2>1. f \in FDs /\ sock[f] = Free /\ \A g \in FDs : g < f => sock[g] # Free
    BY <1>4, LowestFree
  <2>2. job[w] \in Jobs
    BY DEF TypeOK
  <2>3. pc'[w] = "add" /\ job'[w] = [job[w] EXCEPT !.rec = [fd |-> f, end |-> Peer]]
    BY <1>4 DEF Move, Keep, TypeOK
  <2>4. job'[w].rec = [fd |-> f, end |-> Peer]
    BY <2>2, <2>3 DEF Jobs
  <2>5. Peer \in Ends
    BY EndFacts
  <2> HIDE DEF f
  <2> QED
    BY <1>1, <1>4, <2>1, <2>3, <2>4, <2>5, OpenGood
<1> QED
  BY <1>2, <1>3, <1>4 DEF Connect


\* conn_add() with a full table: no event is for the descriptor.
LEMMA DropGood ==
  ASSUME TypeOK, NEW w \in Workers, IInv(w), pc[w] = "add", pc'[w] = "list",
         \A i \in 1 .. MaxConn : connections[i] # 0, dropped' = dropped \cup {job[w].rec.fd},
         UNCHANGED <<sock, connections, clientList, server, strayed, queue, job>>
  PROVE  IInv(w)'
<1> DEFINE f == job[w].rec.fd
<1>1. InTable' = InTable /\ Queued' = Queued /\ Peers' = Peers
  BY DEF InTable, Queued, Peers
<1>2. f \notin Queued
  BY NoneQueued
<1>3. InTable \subseteq FDs /\ Queued \subseteq FDs /\ job[w].rec \in Records
  BY FDFacts DEF TypeOK
<1>4. sock[f].end \in Ends /\ f \notin InTable
  BY <1>3 DEF IInv, Entering, Records
<1>5. \A g \in FDs : Counted(g)' \subseteq Counted(g)
  BY DEF Counted
<1>6. \A g \in FDs : Cardinality(Counted(g)) <= MaxConn => Cardinality(Counted(g)') <= MaxConn
  <2> TAKE g \in FDs
  <2>1. Cardinality(Counted(g)') <= Cardinality(Counted(g))
    BY <1>5, CountedFinite, FS_Subset
  <2>2. Cardinality(Counted(g)) \in Nat /\ Cardinality(Counted(g)') \in Nat
    BY <1>5, CountedFinite, FS_Subset, FS_CardinalityType
  <2> QED
    BY <2>1, <2>2, ConnectionConstantsOK
<1>7. Room'
  <2>1. Queued' \cap dropped' = {}
    BY <1>1, <1>2 DEF IInv, Room
  <2>2. \A g \in (InTable \cup Queued)' : Cardinality(Counted(g)') <= MaxConn
    BY <1>1, <1>3, <1>6 DEF IInv, Room
  <2> QED
    BY <2>1, <2>2 DEF Room
<1>8. (ClosedFree /\ OneRecord /\ Recorded(w) /\ RecordTrue(w) /\ Entering(w) /\ Leaving(w))'
  BY DEF IInv, ClosedFree, OneRecord, Recorded, RecordTrue, Entering, Leaving
<1>9. (Distinct /\ Watched(w) /\ Linked(w))'
  BY <1>1, <1>4 DEF IInv, Distinct, Watched, Linked
<1> QED
  BY <1>7, <1>8, <1>9 DEF IInv

\* conn_add() with an empty entry.
LEMMA EntryGood ==
  ASSUME TypeOK, NEW w \in Workers, IInv(w), pc[w] = "add", pc'[w] = "list",
         NEW k \in 1 .. MaxConn, connections[k] = 0,
         connections' = [connections EXCEPT ![k] = job[w].rec.fd],
         UNCHANGED <<sock, dropped, clientList, server, strayed, queue, job>>
  PROVE  IInv(w)'
<1> DEFINE f == job[w].rec.fd
<1>1. InTable \subseteq FDs /\ Queued \subseteq FDs /\ job[w].rec \in Records
      /\ FDs \subseteq Nat \ {0} /\ connections \in [1 .. MaxConn -> 0 .. NFd]
  BY FDFacts DEF TypeOK
<1>2. f \in FDs /\ f # 0 /\ f \in 0 .. NFd /\ sock[f].end \in Ends /\ f \notin InTable \cup dropped
  <2>1. f \in FDs
    BY <1>1 DEF Records
  <2>2. f \in 0 .. NFd /\ f # 0
    BY <2>1, ConnectionConstantsOK DEF FDs
  <2> QED
    BY <1>1, <2>1, <2>2 DEF IInv, Entering, Records
<1>3. connections'[k] = f /\ connections' \in [1 .. MaxConn -> 0 .. NFd]
      /\ \A i \in 1 .. MaxConn : i # k => connections'[i] = connections[i]
  BY <1>1, <1>2
<1>4. InTable' = InTable \cup {f}
  BY <1>1, <1>2, <1>3 DEF InTable
<1>5. Queued' = Queued /\ Peers' = Peers /\ \A g : Counted(g)' = Counted(g)
  BY DEF Queued, Peers, Counted
<1>6. \A i \in 1 .. MaxConn : connections[i] # f
  BY <1>1, <1>2 DEF InTable
<1>7. Distinct'
  BY <1>2, <1>3, <1>6 DEF IInv, Distinct
<1>8. Cardinality(Counted(f)) <= MaxConn
  <2>1. Counted(f) \subseteq InTable \cup {f}
    BY CountedInTable
  <2>2. Counted(f) \in SUBSET FDs
    BY <1>1, <1>2, <2>1
  <2>3. f \in Counted(f)
    <3>1. f \in 1 .. f
      BY <1>1, <1>2
    <3> QED
      BY <1>2, <3>1, EndFacts DEF Counted
  <2>4. \A g \in Counted(f) : \E i \in 1 .. MaxConn : connections'[i] = g
    <3>1. \A g \in InTable' : \E i \in 1 .. MaxConn : connections'[i] = g
      BY <1>3 DEF InTable
    <3> QED
      BY <1>4, <2>1, <3>1
  <2> QED
    BY <1>2, <1>3, <2>2, <2>3, <2>4, FitsTable
<1>9. Room'
  BY <1>4, <1>5, <1>8 DEF IInv, Room
<1>10. (ClosedFree /\ OneRecord /\ Recorded(w) /\ RecordTrue(w) /\ Entering(w) /\ Leaving(w))'
  BY DEF IInv, ClosedFree, OneRecord, Recorded, RecordTrue, Entering, Leaving
<1>11. (Watched(w) /\ Linked(w))'
  BY <1>2, <1>4, <1>5 DEF IInv, Watched, Linked
<1> QED
  BY <1>7, <1>9, <1>10, <1>11 DEF IInv

LEMMA ConnAddGood ==
  ASSUME TypeOK, NEW w \in Workers, IInv(w), ConnAdd(w)
  PROVE  IInv(w)'
<1> DEFINE f == job[w].rec.fd
           empty == {i \in DOMAIN connections : connections[i] = 0}
<1>1. pc[w] = "add" /\ pc'[w] = "list" /\ UNCHANGED <<sock, clientList, server, strayed, queue, job>>
  BY DEF ConnAdd, Move, TypeOK, sockets
<1>2. f \notin InTable /\ f \notin dropped
  BY <1>1 DEF IInv, Entering
<1>3. DOMAIN connections = 1 .. MaxConn
  BY DEF TypeOK
<1>4. CASE empty = {}
  <2>1. \A i \in 1 .. MaxConn : connections[i] # 0
    BY <1>3, <1>4
  <2>2. dropped' = dropped \cup {f} /\ UNCHANGED connections
    BY <1>2, <1>4 DEF ConnAdd
  <2> QED
    BY <1>1, <2>1, <2>2, DropGood
<1>5. CASE empty # {}
  <2>1. empty \in SUBSET Nat
    BY <1>3
  <2>2. PICK k \in empty : k = Min(empty)
    BY <1>5, <2>1, MinOf
  <2>3. connections' = [connections EXCEPT ![k] = f] /\ dropped' = dropped
    BY <1>2, <1>5, <2>2 DEF ConnAdd
  <2>4. k \in 1 .. MaxConn /\ connections[k] = 0
    BY <1>3
  <2> QED
    BY <1>1, <2>3, <2>4, EntryGood
<1> QED
  BY <1>4, <1>5

LEMMA ListAddGood ==
  ASSUME TypeOK, NEW w \in Workers, IInv(w), ListAdd(w)
  PROVE  IInv(w)'
<1> DEFINE r == job[w].rec
<1>1. pc[w] = "list" /\ UNCHANGED <<sock, connections, server, strayed, dropped, queue>>
  BY DEF ListAdd, Move, sockets
<1>2. /\ pc'[w] = IF r.end = Peer THEN "link" ELSE "idle"
      /\ r.end = Peer => job'[w] = job[w]
  BY DEF ListAdd, Move, Keep, TypeOK
<1>3. clientList \in Seq(Records) /\ r \in Records
  BY <1>1 DEF TypeOK
<1>4. /\ Len(clientList') = Len(clientList) + 1 /\ clientList'[1] = r
      /\ \A i \in 1 .. Len(clientList) : clientList'[i + 1] = clientList[i]
      /\ \A i \in 1 .. Len(clientList') : i = 1 \/ (i - 1 \in 1 .. Len(clientList)
                                                     /\ clientList'[i] = clientList[i - 1])
  BY <1>3 DEF ListAdd
<1>5. Len(clientList) \in Nat
  BY <1>3
<1>6. sock[r.fd].end = r.end /\ r.fd \in FDs /\ \A i \in 1 .. Len(clientList) : clientList[i].fd # r.fd
  BY <1>1, <1>3 DEF IInv, Entering, Records
<1>7. OneRecord'
  <2> SUFFICES ASSUME NEW i \in 1 .. Len(clientList'), NEW j \in 1 .. Len(clientList'),
                      clientList'[i].fd = clientList'[j].fd
               PROVE  i = j
    BY DEF OneRecord
  <2>1. CASE i = 1 \/ j = 1
    BY <1>4, <1>6, <2>1
  <2>2. CASE i # 1 /\ j # 1
    <3>1. i - 1 = j - 1
      BY <1>4, <2>2 DEF IInv, OneRecord
    <3> QED
      BY <1>4, <1>5, <3>1
  <2> QED
    BY <2>1, <2>2
<1>8. RecordTrue(w)'
  BY <1>1, <1>4, <1>6 DEF IInv, RecordTrue
<1>9. Recorded(w)'
  <2> SUFFICES ASSUME NEW f \in FDs, sock[f].end \in Ends
               PROVE  \E i \in 1 .. Len(clientList') : clientList'[i].fd = f
    BY <1>1 DEF Recorded
  <2>1. CASE f = r.fd
    BY <1>4, <1>5, <2>1
  <2>2. CASE f # r.fd
    <3>1. PICK i \in 1 .. Len(clientList) : clientList[i].fd = f
      BY <2>2 DEF IInv, Recorded
    <3>2. i + 1 \in 1 .. Len(clientList')
      BY <1>4, <1>5
    <3> QED
      BY <1>4, <3>1, <3>2
  <2> QED
    BY <2>1, <2>2
<1>10. InTable' = InTable /\ Queued' = Queued /\ Peers' = Peers /\ \A g : Counted(g)' = Counted(g)
  BY <1>1 DEF InTable, Queued, Peers, Counted
<1>11. (Entering(w) /\ Leaving(w))'
  BY <1>2 DEF Entering, Leaving
<1>12. (ClosedFree /\ Distinct /\ Watched(w) /\ Room)'
  BY <1>1, <1>2, <1>10 DEF IInv, ClosedFree, Distinct, Watched, Room
<1>13. Linked(w)'
  BY <1>1, <1>2, <1>10 DEF IInv, Linked
<1> QED
  BY <1>7, <1>8, <1>9, <1>11, <1>12, <1>13 DEF IInv


LEMMA LinkGood ==
  ASSUME TypeOK, NEW w \in Workers, IInv(w), Link(w)
  PROVE  IInv(w)'
<1>1. /\ pc[w] = "link" /\ pc'[w] = "idle"
      /\ server' = [connected |-> TRUE, fd |-> job[w].rec.fd]
      /\ UNCHANGED <<sock, connections, clientList, strayed, dropped, queue>>
  BY DEF Link, Move, TypeOK, sockets
<1>2. InTable' = InTable /\ Queued' = Queued /\ Peers' = Peers /\ \A g : Counted(g)' = Counted(g)
  BY <1>1 DEF InTable, Queued, Peers, Counted
<1>3. Peers = {job[w].rec.fd} /\ ~strayed
  BY <1>1 DEF IInv, Linked, Entering
<1>4. (ClosedFree /\ OneRecord /\ Recorded(w) /\ RecordTrue(w) /\ Entering(w) /\ Leaving(w))'
  BY <1>1 DEF IInv, ClosedFree, OneRecord, Recorded, RecordTrue, Entering, Leaving
<1>5. (Distinct /\ Watched(w) /\ Room)'
  BY <1>1, <1>2 DEF IInv, Distinct, Watched, Room
<1>6. Linked(w)'
  BY <1>1, <1>2, <1>3 DEF Linked
<1> QED
  BY <1>4, <1>5, <1>6 DEF IInv

LEMMA MulticastGood ==
  ASSUME TypeOK, NEW w \in Workers, IInv(w), Multicast(w)
  PROVE  IInv(w)'
<1>1. /\ pc[w] = "idle" /\ pc'[w] = "sent"
      /\ UNCHANGED <<sock, connections, clientList, server, strayed, dropped, queue>>
  BY DEF Multicast, Move, TypeOK, sockets, lists
<1>2. SameEnds /\ Queued' = Queued
  BY <1>1 DEF SameEnds, Queued
<1>3. server.fd \in FDs
  BY ConnectionConstantsOK DEF Multicast, TypeOK, FDs
<1>4. Leaving(w)'
  BY <1>1 DEF Leaving
<1> QED
  BY <1>1, <1>2, <1>3, <1>4, CalmKeeps DEF Calm

\* The record is connected afterwards; it was so if the message went to the peer.
LEMMA MarkSentGood ==
  ASSUME TypeOK, NEW w \in Workers, IInv(w), MarkSent(w)
  PROVE  IInv(w)'
<1>1. /\ pc[w] = "sent" /\ pc'[w] = "idle"
      /\ UNCHANGED <<sock, connections, clientList, dropped, queue, job>>
  BY DEF MarkSent, Move, TypeOK, sockets
<1>2. InTable' = InTable /\ Queued' = Queued /\ Peers' = Peers /\ \A g : Counted(g)' = Counted(g)
  BY <1>1 DEF InTable, Queued, Peers, Counted
<1>3. (ClosedFree /\ OneRecord /\ Recorded(w) /\ RecordTrue(w) /\ Entering(w) /\ Leaving(w))'
  BY <1>1 DEF IInv, ClosedFree, OneRecord, Recorded, RecordTrue, Entering, Leaving
<1>4. (Distinct /\ Watched(w) /\ Room)'
  BY <1>1, <1>2 DEF IInv, Distinct, Watched, Room
<1>5. /\ server'.connected /\ server'.fd = server.fd
      /\ strayed' = (strayed \/ sock[server.fd].end # Peer)
  BY DEF MarkSent, TypeOK
<1>6. /\ server.fd \in FDs /\ strayed \in BOOLEAN
      /\ Peers = IF server.connected /\ ~strayed THEN {server.fd} ELSE {}
  BY <1>1 DEF IInv, Linked, TypeOK
<1>7. Peers = IF ~strayed' THEN {server.fd} ELSE {}
  <2>1. CASE sock[server.fd].end = Peer
    <3>1. server.fd \in Peers
      BY <1>6, <2>1 DEF Peers
    <3> QED
      BY <1>5, <1>6, <2>1, <3>1
  <2>2. CASE sock[server.fd].end # Peer
    <3>1. server.fd \notin Peers
      BY <2>2 DEF Peers
    <3> QED
      BY <1>5, <1>6, <2>2, <3>1
  <2> QED
    BY <2>1, <2>2
<1>8. Linked(w)'
  BY <1>1, <1>2, <1>5, <1>7 DEF Linked
<1> QED
  BY <1>3, <1>4, <1>8 DEF IInv

\* A connection that is read or closed is open, and its record's.
LEMMA ReadOpen ==
  ASSUME TypeOK, NEW w \in Workers, IInv(w), pc[w] \in {"recv", "close"}
  PROVE  /\ job[w].rec \in Records /\ job[w].rec.fd \in FDs
         /\ sock[job[w].rec.fd].end = job[w].rec.end /\ job[w].rec.end \in Ends
<1>1. job[w].rec \in Records
  BY DEF TypeOK
<1>2. PICK i \in 1 .. Len(clientList) : clientList[i] = job[w].rec
  BY DEF IInv, Leaving
<1>3. sock[clientList[i].fd].end = clientList[i].end
  BY DEF IInv, RecordTrue
<1> QED
  BY <1>1, <1>2, <1>3 DEF Records

LEMMA RecvGood ==
  ASSUME TypeOK, NEW w \in Workers, IInv(w), Recv(w)
  PROVE  IInv(w)'
<1> DEFINE f == job[w].rec.fd
           next == CASE sock[f].data = "quit" -> "close"
                     [] sock[f].data = "write" /\ ~server.connected -> "connect"
                     [] OTHER -> "idle"
<1>1. pc[w] = "recv" /\ UNCHANGED <<connections, clientList, server, strayed, dropped, queue>>
  BY DEF Recv, lists
<1>2. f \in FDs /\ sock[f].end \in Ends
  BY <1>1, ReadOpen
<1>3. sock' = sock \/ sock' = [sock EXCEPT ![f].data = "none"]
  BY DEF Recv
<1>4. SameEnds
  <2>1. CASE sock' = sock
    BY <2>1 DEF SameEnds
  <2>2. CASE sock' = [sock EXCEPT ![f].data = "none"]
    <3>1. sock'[f].end = sock[f].end /\ \A g \in FDs \ {f} : sock'[g] = sock[g]
      BY <1>2, <2>2 DEF TypeOK, Sockets
    <3>2. sock[f] # Free /\ sock'[f] # Free
      BY <1>2, <3>1, EndFacts
    <3> QED
      BY <3>1, <3>2 DEF SameEnds
  <2> QED
    BY <1>3, <2>1, <2>2
<1>5. \/ Move(w, "recv", "idle")
      \/ Move(w, "recv", next) /\ Keep(w, IF next = "idle" THEN NoJob ELSE job[w])
      \/ Move(w, "recv", "close") /\ UNCHANGED job
  BY DEF Recv
<1>6. next \in {"close", "connect", "idle"} /\ (next = "connect" => ~server.connected)
  OBVIOUS
<1> HIDE DEF next
<1>7. /\ pc'[w] \in {"idle", "connect", "close"}
      /\ pc'[w] = "connect" => ~server.connected
      /\ pc'[w] = "close" => job'[w] = job[w]
  BY <1>5, <1>6 DEF Move, Keep, TypeOK
<1>8. Leaving(w)'
  BY <1>1, <1>7 DEF IInv, Leaving, InTable
<1>9. Queued' = Queued
  BY <1>1 DEF Queued
<1> QED
  BY <1>1, <1>4, <1>7, <1>8, <1>9, CalmKeeps DEF Calm

LEMMA CloseGood ==
  ASSUME TypeOK, NEW w \in Workers, IInv(w), Close(w)
  PROVE  IInv(w)'
<1> DEFINE r == job[w].rec  f == r.fd
<1>1. pc[w] = "close" /\ UNCHANGED <<connections, clientList, server, strayed, dropped, queue, job>>
  BY DEF Close
<1>2. f \in FDs /\ sock[f].end = r.end /\ r.end \in Ends /\ r \in Records
  BY <1>1, ReadOpen
<1>3. f \in InTable /\ f \notin dropped
  BY <1>1 DEF IInv, Leaving, Watched
<1>4. pc'[w] = "clear" /\ sock' = [sock EXCEPT ![f] = Free]
  BY <1>3 DEF Close, Move, TypeOK
<1>5. sock'[f] = Free /\ \A g \in FDs \ {f} : sock'[g] = sock[g]
  BY <1>2, <1>4 DEF TypeOK
<1>6. InTable \subseteq FDs /\ Queued \subseteq FDs /\ dropped \subseteq FDs
      /\ \A i \in 1 .. Len(clientList) : clientList[i] \in Records /\ clientList[i].fd \in FDs
  BY FDFacts
<1>7. Free.end = "nobody" /\ "nobody" \notin Ends /\ "lost" \notin Ends /\ Peer \in Ends
  BY EndFacts
<1>8. PICK k \in 1 .. Len(clientList) : clientList[k] = r
  BY <1>1 DEF IInv, Leaving
<1>9. \A i \in 1 .. Len(clientList) : clientList[i].fd = f => clientList[i] = r
  BY <1>8 DEF IInv, OneRecord
<1>10. InTable' = InTable /\ Queued' = Queued
  BY <1>1 DEF InTable, Queued
<1>11. (ClosedFree /\ OneRecord /\ Distinct)'
  BY <1>1, <1>5 DEF IInv, ClosedFree, OneRecord, Distinct
<1>12. (Recorded(w) /\ Entering(w) /\ Leaving(w))'
  BY <1>1, <1>4, <1>5, <1>7, <1>8 DEF IInv, Recorded, Entering, Leaving
<1>13. RecordTrue(w)'
  BY <1>1, <1>4, <1>5, <1>6, <1>9 DEF IInv, RecordTrue
<1>14. Watched(w)'
  BY <1>1, <1>3, <1>4, <1>5, <1>6, <1>7, <1>10 DEF IInv, Watched
<1>15. \A g \in FDs : Counted(g)' = Counted(g)
  <2>1. \A g \in FDs : 1 .. g \subseteq FDs
    BY ConnectionConstantsOK DEF FDs
  <2>2. \A g \in FDs : sock[g].end = "lost" <=> sock'[g].end = "lost"
    BY <1>2, <1>5, <1>7
  <2> QED
    BY <1>1, <2>1, <2>2 DEF Counted
<1>16. Room'
  BY <1>1, <1>6, <1>10, <1>15 DEF IInv, Room
<1>17. Linked(w)'
  <2>1. /\ Peers = IF server.connected /\ ~strayed THEN {server.fd} ELSE {}
        /\ strayed => server.connected
    BY <1>1 DEF IInv, Linked
  <2>2. CASE r.end = Peer
    <3>1. f \in Peers
      BY <1>2, <2>2 DEF Peers
    <3>2. server.connected /\ ~strayed /\ server.fd = f /\ Peers = {f}
      BY <2>1, <3>1
    <3>3. Peers' = {}
      BY <1>5, <1>7, <3>2 DEF Peers
    <3> QED
      BY <1>1, <1>4, <2>2, <3>2, <3>3 DEF Linked
  <2>3. CASE r.end # Peer
    <3>1. Peers' = Peers
      BY <1>2, <1>5, <1>7, <2>3 DEF Peers
    <3> QED
      BY <1>1, <1>4, <2>1, <2>3, <3>1 DEF Linked
  <2> QED
    BY <2>2, <2>3
<1> QED
  BY <1>11, <1>12, <1>13, <1>14, <1>16, <1>17 DEF IInv

LEMMA ClearGood ==
  ASSUME TypeOK, NEW w \in Workers, IInv(w), Clear(w)
  PROVE  IInv(w)'
<1> DEFINE f == job[w].rec.fd
<1>1. /\ pc[w] = "clear" /\ pc'[w] = "unlist"
      /\ UNCHANGED <<sock, clientList, server, strayed, dropped, queue, job>>
  BY DEF Clear, Move, TypeOK, sockets
<1>2. connections' = [i \in 1 .. MaxConn |-> IF connections[i] = f THEN 0 ELSE connections[i]]
  BY DEF Clear, TypeOK
<1>3. sock[f] = Free /\ f \in FDs
  BY <1>1 DEF IInv, Leaving, TypeOK, Records
<1>4. sock[f].end \notin Ends
  BY <1>3, EndFacts
<1>5. 0 \notin FDs
  BY ConnectionConstantsOK DEF FDs
<1>6. InTable' = InTable \ {f}
  BY <1>2, <1>5 DEF InTable, TypeOK
<1>7. Queued' = Queued /\ Peers' = Peers /\ \A g : Counted(g)' = Counted(g)
  BY <1>1 DEF Queued, Peers, Counted
<1>8. Distinct'
  BY <1>2 DEF IInv, Distinct
<1>9. (ClosedFree /\ OneRecord /\ Recorded(w) /\ RecordTrue(w) /\ Entering(w) /\ Leaving(w))'
  BY <1>1 DEF IInv, ClosedFree, OneRecord, Recorded, RecordTrue, Entering, Leaving
<1>10. Watched(w)'
  BY <1>1, <1>4, <1>6 DEF IInv, Watched
<1>11. (Room /\ Linked(w))'
  BY <1>1, <1>6, <1>7 DEF IInv, Room, Linked
<1> QED
  BY <1>8, <1>9, <1>10, <1>11 DEF IInv

LEMMA UnlistGood ==
  ASSUME TypeOK, NEW w \in Workers, IInv(w), Unlist(w)
  PROVE  IInv(w)'
<1> DEFINE r == job[w].rec
<1>1. /\ pc[w] = "unlist" /\ pc'[w] = "idle" /\ clientList' = Without(r)
      /\ server' = IF r.end = Peer THEN Unlink(r.fd) ELSE server
      /\ UNCHANGED <<sock, connections, strayed, dropped, queue>>
  BY DEF Unlist, Move, TypeOK, sockets
<1>2. clientList \in Seq(Records) /\ Len(clientList) \in Nat
  BY DEF TypeOK
<1>3. r \in Range(clientList) /\ sock[r.fd] = Free
  BY <1>1, <1>2 DEF IInv, Leaving, Range
<1>4. PICK k \in 1 .. Len(clientList) :
        /\ clientList[k] = r
        /\ clientList' \in Seq(Records) /\ Len(clientList') = Len(clientList) - 1
        /\ \A i \in 1 .. Len(clientList') :
             clientList'[i] = IF i < k THEN clientList[i] ELSE clientList[i + 1]
  BY <1>1, <1>3, WithoutFacts
<1>5. ASSUME NEW i \in 1 .. Len(clientList')
      PROVE  \E j \in 1 .. Len(clientList) :
               /\ j # k /\ clientList'[i] = clientList[j]
               /\ j = IF i < k THEN i ELSE i + 1
  BY <1>2, <1>4
<1>6. ASSUME NEW j \in 1 .. Len(clientList), j # k
      PROVE  \E i \in 1 .. Len(clientList') : clientList'[i] = clientList[j]
  <2>1. CASE j < k
    BY <1>2, <1>4, <2>1
  <2>2. CASE j > k
    <3>1. PICK i \in 1 .. Len(clientList') : i + 1 = j
      BY <1>2, <1>4, <2>2
    <3>2. ~(i < k)
      BY <2>2, <3>1
    <3> QED
      BY <1>4, <3>1, <3>2
  <2> QED
    BY <1>6, <2>1, <2>2
<1>7. OneRecord'
  <2> SUFFICES ASSUME NEW i \in 1 .. Len(clientList'), NEW j \in 1 .. Len(clientList'),
                      clientList'[i].fd = clientList'[j].fd
               PROVE  i = j
    BY DEF OneRecord
  <2>1. PICK a \in 1 .. Len(clientList) :
          clientList'[i] = clientList[a] /\ a = IF i < k THEN i ELSE i + 1
    BY <1>5
  <2>2. PICK b \in 1 .. Len(clientList) :
          clientList'[j] = clientList[b] /\ b = IF j < k THEN j ELSE j + 1
    BY <1>5
  <2>3. a = b
    BY <2>1, <2>2 DEF IInv, OneRecord
  <2> QED
    BY <2>1, <2>2, <2>3
<1>8. RecordTrue(w)'
  <2> SUFFICES ASSUME NEW i \in 1 .. Len(clientList')
               PROVE  sock[clientList'[i].fd].end = clientList'[i].end
    BY <1>1 DEF RecordTrue
  <2>1. PICK j \in 1 .. Len(clientList) : j # k /\ clientList'[i] = clientList[j]
    BY <1>5
  <2>2. clientList[j] # r
    BY <1>4, <2>1 DEF IInv, OneRecord
  <2> QED
    BY <2>1, <2>2 DEF IInv, RecordTrue
<1>9. Recorded(w)'
  <2> SUFFICES ASSUME NEW f \in FDs, sock[f].end \in Ends
               PROVE  \E i \in 1 .. Len(clientList') : clientList'[i].fd = f
    BY <1>1 DEF Recorded
  <2>1. PICK j \in 1 .. Len(clientList) : clientList[j].fd = f
    BY <1>1 DEF IInv, Recorded
  <2>2. j # k
    BY <1>3, <1>4, <2>1, EndFacts
  <2> QED
    BY <1>6, <2>1, <2>2
<1>10. InTable' = InTable /\ Queued' = Queued /\ Peers' = Peers /\ \A g : Counted(g)' = Counted(g)
  BY <1>1 DEF InTable, Queued, Peers, Counted
<1>11. (Entering(w) /\ Leaving(w))'
  BY <1>1 DEF Entering, Leaving
<1>12. (ClosedFree /\ Distinct /\ Watched(w) /\ Room)'
  BY <1>1, <1>10 DEF IInv, ClosedFree, Distinct, Watched, Room
<1>13. Linked(w)'
  <2>1. CASE r.end = Peer
    <3>1. server.fd = r.fd /\ ~strayed /\ Peers = {}
      BY <1>1, <2>1 DEF IInv, Linked
    <3>2. ~server'.connected
      BY <1>1, <2>1, <3>1 DEF Unlink, TypeOK
    <3> QED
      BY <1>1, <1>10, <3>1, <3>2 DEF Linked
  <2>2. CASE r.end # Peer
    BY <1>1, <1>10, <2>2 DEF IInv, Linked
  <2> QED
    BY <2>1, <2>2
<1> QED
  BY <1>7, <1>8, <1>9, <1>11, <1>12, <1>13 DEF IInv


\* The inductive invariant, of a server with one worker.
LEMMA Invariance ==
  ASSUME NEW w, Workers = {w}
  PROVE  Spec => [](TypeOK /\ IInv(w))
<1>1. w \in Workers
  OBVIOUS
<1>2. Init => TypeOK /\ IInv(w)
  BY <1>1, InitTyped, InitGood
<1>3. TypeOK /\ IInv(w) /\ TypeOK' /\ [Next]_vars => IInv(w)'
  <2> SUFFICES ASSUME TypeOK, IInv(w), [Next]_vars PROVE IInv(w)'
    OBVIOUS
  <2>1. CASE ConnThread
    BY <1>1, <2>1, ThreadGood
  <2>2. CASE Outside
    BY <1>1, <2>2, OutsideGood
  <2>3. CASE Work(w)
    BY <1>1, <2>3, TakeGood, AcceptGood, AcceptFailsGood, ConnAddGood, ListAddGood,
       ConnectGood, LinkGood, MulticastGood, MarkSentGood, RecvGood, CloseGood, ClearGood, UnlistGood DEF Work
  <2>4. CASE UNCHANGED vars
    <3>1. UNCHANGED <<connections, clientList, server, strayed, dropped, queue, pc, job>> /\ SameEnds
      BY <2>4 DEF vars, SameEnds
    <3> QED
      BY <1>1, <3>1, TalkKeeps
  <2> QED
    BY <2>1, <2>2, <2>3, <2>4 DEF Next
<1> QED
  BY <1>2, <1>3, TypeCorrect, PTL DEF Spec

\* RecordInUse: with one worker, an event that was posted twice, or for a descriptor
\* that has been given out again, never makes proc_client_ev_recv() read or close
\* another client's connection, or use a record that has been deleted.
THEOREM RecordInUseHolds ==
  ASSUME NEW w, Workers = {w}
  PROVE  Spec => []RecordInUse
<1>1. TypeOK /\ IInv(w) => RecordInUse
  <2> SUFFICES ASSUME TypeOK, IInv(w) PROVE RecordInUse
    OBVIOUS
  <2>1. pc[w] \in {"recv", "close"} => sock[job[w].rec.fd].end = job[w].rec.end
    BY ReadOpen
  <2>2. pc[w] \in {"recv", "close", "clear", "unlist"} => job[w].rec \in Range(clientList)
    BY DEF IInv, Leaving, Range, TypeOK
  <2> QED
    BY <2>1, <2>2 DEF RecordInUse
<1> QED
  BY <1>1, Invariance, PTL

\* RecordsAgree: with one worker, between two events every open connection has
\* exactly one record and every record its connection, and the table holds the open
\* connections, but those for which conn_add() found it full.
THEOREM RecordsAgreeHolds ==
  ASSUME NEW w, Workers = {w}
  PROVE  Spec => []RecordsAgree
<1>1. TypeOK /\ IInv(w) => RecordsAgree
  <2> SUFFICES ASSUME TypeOK, IInv(w), pc[w] \in {"idle", "accept", "recv", "connect"}
               PROVE  LET open == {f \in FDs : sock[f].end \in Ends} IN
                      /\ \A f \in open :
                           Cardinality({i \in DOMAIN clientList : clientList[i].fd = f}) = 1
                      /\ \A r \in Range(clientList) : sock[r.fd].end = r.end
                      /\ InTable \subseteq open /\ open \ InTable \subseteq dropped
    BY DEF RecordsAgree
  <2> DEFINE open == {f \in FDs : sock[f].end \in Ends}
  <2>4. DOMAIN clientList = 1 .. Len(clientList)
    BY DEF TypeOK
  <2>1. ASSUME NEW f \in open
        PROVE  Cardinality({i \in DOMAIN clientList : clientList[i].fd = f}) = 1
    <3>1. PICK k \in 1 .. Len(clientList) : clientList[k].fd = f
      BY DEF IInv, Recorded
    <3>2. \A i \in 1 .. Len(clientList) : clientList[i].fd = f => i = k
      BY <3>1 DEF IInv, OneRecord
    <3>3. {i \in DOMAIN clientList : clientList[i].fd = f} = {k}
      BY <2>4, <3>1, <3>2
    <3> QED
      BY <3>3, FS_Singleton
  <2>2. \A r \in Range(clientList) : sock[r.fd].end = r.end
    BY <2>4 DEF IInv, RecordTrue, Range
  <2>3. InTable \subseteq open /\ open \ InTable \subseteq dropped
    BY FDFacts DEF IInv, Watched
  <2> QED
    BY <2>1, <2>2, <2>3
<1> QED
  BY <1>1, Invariance, PTL

\* PeerLinked: with one worker, between two events the peer's record in
\* syncServerList is connected exactly when there is a connection to the peer, which
\* it names, until sync_send_abort(), _commit() or _success() has written to a client
\* that was given the descriptor of a lost connection; then it is connected without
\* a connection to the peer, for good.
THEOREM PeerLinkedHolds ==
  ASSUME NEW w, Workers = {w}
  PROVE  Spec => []PeerLinked
<1>1. IInv(w) => PeerLinked
  BY DEF IInv, Linked, PeerLinked, Peers
<1> QED
  BY <1>1, Invariance, PTL
=============================================================================
