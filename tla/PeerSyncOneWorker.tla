------------------------- MODULE PeerSyncOneWorker --------------------------
(* What holds of a PeerSync with one worker thread, whatever the number of peers,
   users, commands, timeouts and crashes: a peer without connection is known to
   have none, the master is not alone with a line, a single peer has every number
   the master has, no number is stored twice, the exchange implements the abstract
   replicated board, and no command is answered twice unless a peer was down. Last,
   what holds of it with one user: the files of the servers agree. *)
EXTENDS PeerSyncSafety, FiniteSetTheorems

USE ConstantsOK DEF Peers, Users, Master, Servers, Cmds, Nums, NoNum, Garbled

-----------------------------------------------------------------------------
(* A lost peer is known to be lost *)

\* The peer whose state the worker is about to set has a connection.
Reached(w) == pc[w] \in {"mark", "note", "link"} => conn[job[w].idx] \notin {"none", "lost"}

\* A worker's step that leaves the connections alone.
LEMMA SameConn ==
  ASSUME NEW w \in Workers, Inv, NoZombiePeer, UNCHANGED <<srv, conn>>,
         pc'[w] \notin {"mark", "note", "link"}
  PROVE  NoZombiePeer' /\ Reached(w)'
BY DEF NoZombiePeer, Reached

\* No peer's step takes a connection away: it is the master that closes it.
LEMMA PeersConn ==
  ASSUME Inv,
         \/ MasterTimerFires
         \/ \E p \in Peers : PeerRecv(p) \/ SlaveTimeout(p) \/ PeerCrash(p) \/ PeerStart(p)
         \/ \E p \in Peers, k \in 1..MaxRecv : PeerCommitSpills(p, k)
         \/ UNCHANGED vars
  PROVE  \A q \in Peers : conn'[q] \in {"none", "lost"} <=> conn[q] \in {"none", "lost"}
<1>1. ASSUME NEW p \in Peers, Dies(p)
      PROVE  \A q \in Peers : conn'[q] \in {"none", "lost"} <=> conn[q] \in {"none", "lost"}
  BY <1>1 DEF Dies, Inv, TypeOK
<1>2. UNCHANGED conn \/ \E p \in Peers : Dies(p)
  BY ZenonT(40) DEF PeerRecv, PeerPrecommit, PeerCommit, PeerCommitSpills, Committed, PeerRefuses, PeerEnd,
     SlaveTimeout, PeerCrash, PeerStart, MasterTimerFires, netVars, vars
<1> QED
  BY <1>1, <1>2

LEMMA ZombieNext ==
  ASSUME NEW w, Workers = {w}, Inv, NoZombiePeer, Reached(w), [Next]_vars
  PROVE  NoZombiePeer' /\ Reached(w)'
<1>0. /\ w \in Workers /\ job[w] \in Job /\ job[w].idx \in Peers
      /\ job[w].ret \in Returns /\ srv \in [Peers -> ServerStates]
      /\ conn \in [Peers -> Connections]
      /\ pc \in [Workers -> Labels] /\ job \in [Workers -> Job]
  BY WorkerFacts DEF Backed, Returning, Job, Inv, TypeOK
<1>1. CASE Connect(w)
  <2>1. /\ UNCHANGED srv
        /\ UNCHANGED conn \/ conn' = [conn EXCEPT ![job[w].idx] = "new"]
    BY <1>1 DEF Connect, netVars, sharedVars
  <2>2. \/ pc'[w] \in {"connect", "check"}
        \/ /\ pc'[w] = "link" /\ job'[w] = job[w]
           /\ conn' = [conn EXCEPT ![job[w].idx] = "new"]
    BY <1>0, <1>1 DEF Connect, NextPeer, Go
  <2> QED
    BY <1>0, <2>1, <2>2 DEF NoZombiePeer, Reached
<1>1a. CASE Link(w)
  <2>1. /\ conn[job[w].idx] \notin {"none", "lost"}
        /\ srv' = [srv EXCEPT ![job[w].idx] = "IDLE"]
        /\ \A q \in Peers : conn'[q] \in {"none", "lost"} <=> conn[q] \in {"none", "lost"}
    BY <1>0, <1>1a DEF Link, Reached
  <2>2. pc'[w] \in {"connect", "check"}
    BY <1>0, <1>1a DEF Link, NextPeer, Go
  <2> QED
    BY <1>0, <2>1, <2>2 DEF NoZombiePeer, Reached
<1>2. CASE Send(w)
  <2>1. /\ UNCHANGED srv
        /\ \/ UNCHANGED conn /\ Go(w, job[w].ret, job[w])
           \/ /\ Go(w, "mark", job[w])
              /\ \/ UNCHANGED conn /\ conn[job[w].idx] \notin {"none", "lost"}
                 \/ conn' = [conn EXCEPT ![job[w].idx] = "stray"]
    BY <1>2 DEF Send, sharedVars
  <2>2. pc'[w] = "mark" => conn'[job[w].idx] \notin {"none", "lost"} /\ job'[w] = job[w]
    BY <1>0, <2>1 DEF Go, Returns
  <2>3. pc'[w] \notin {"note", "link"}
    BY <1>0, <2>1 DEF Go, Returns
  <2>4. \A q \in Peers : conn'[q] \in {"none", "lost"} => conn[q] \in {"none", "lost"}
    BY <1>0, <2>1
  <2> QED
    BY <2>1, <2>2, <2>3, <2>4 DEF NoZombiePeer, Reached
<1>3. CASE Mark(w) \/ Note(w)
  <2>1. /\ conn[job[w].idx] \notin {"none", "lost"} /\ UNCHANGED conn
        /\ srv' = [srv EXCEPT ![job[w].idx] = job[w].st]
    BY <1>3 DEF Mark, Note, Reached, netVars
  <2>2. pc'[w] \in {"send", "check", "once"}
    BY <1>0, <1>3 DEF Mark, Note, Advance, Go
  <2> QED
    BY <1>0, <2>1, <2>2 DEF NoZombiePeer, Reached
<1>4. ASSUME NEW p \in Peers, NEW k \in 1..MaxRecv, RecvReply(w, p, k)
      PROVE  NoZombiePeer' /\ Reached(w)'
  <2>1. UNCHANGED <<srv, conn>> /\ conn[p] \notin {"none", "lost"} /\ pc[w] = "idle"
    BY <1>4 DEF RecvReply, sharedVars
  <2>2. UNCHANGED workerVars \/ (pc'[w] = "note" /\ job'[w].idx = p)
    <3> DEFINE m == Head(toMaster[p])
               j(n) == [job[w] EXCEPT !.idx = p, !.st = StateAfter(m.kind), !.num = n,
                                      !.unknown = (m.kind = "UNKNOWN")]
    <3>1. UNCHANGED workerVars \/ \E n : Go(w, "note", j(n))
      BY <1>4 DEF RecvReply
    <3>2. \A n : j(n).idx = p
      BY <1>0 DEF Job
    <3> HIDE DEF j
    <3> QED
      BY <1>0, <3>1, <3>2 DEF Go
  <2> QED
    BY <2>1, <2>2 DEF NoZombiePeer, Reached, workerVars
<1>5. ASSUME NEW p \in Peers, PeerClosed(w, p)
      PROVE  NoZombiePeer' /\ Reached(w)'
  <2>1. /\ pc[w] = "idle" /\ UNCHANGED workerVars
        /\ conn' = [conn EXCEPT ![p] = "lost"]
        /\ srv' = [srv EXCEPT ![p] = "DISCONNECT"]
    BY <1>5 DEF PeerClosed, Linking
  <2> QED
    BY <1>0, <2>1 DEF NoZombiePeer, Reached, workerVars
<1>6. ASSUME \/ MasterTimerFires
             \/ \E p \in Peers : PeerRecv(p) \/ SlaveTimeout(p) \/ PeerCrash(p) \/ PeerStart(p)
             \/ \E p \in Peers, k \in 1..MaxRecv : PeerCommitSpills(p, k)
             \/ UNCHANGED vars
      PROVE  NoZombiePeer' /\ Reached(w)'
  <2>1. \A q \in Peers : conn'[q] \in {"none", "lost"} <=> conn[q] \in {"none", "lost"}
    BY <1>6, PeersConn
  <2>2. UNCHANGED <<srv, workerVars>>
    BY <1>6, OutsideSteps, Zenon DEF PeerCommitSpills, sharedVars
  <2> QED
    BY <1>0, <2>1, <2>2 DEF NoZombiePeer, Reached, workerVars
<1>7. CASE Command(w)
  <2>1. UNCHANGED <<srv, conn>> /\ pc'[w] = "connect"
    BY <1>0, <1>7 DEF Command, SubmitWrite, SubmitReplace, Submit, Go, sharedVars, netVars
  <2> QED
    BY <1>0, <2>1, SameConn
<1>8. ASSUME \/ Connected(w) \/ Check(w) \/ SetMaster(w) \/ Post(w) \/ Once(w)
             \/ Commit(w) \/ WaitSave(w) \/ Refuse(w)
             \/ Save(w) \/ SaveSpills(w) \/ Reply(w) \/ Undo(w) \/ Clear(w)
      PROVE  NoZombiePeer' /\ Reached(w)'
  <2>1. UNCHANGED <<srv, conn>>
    BY <1>8 DEF Connected, Check, SetMaster, Post, Once, Commit, WaitSave, Refuse,
       Save, SaveSpills, Saved, Reply, Undo, Clear, sharedVars, netVars
  <2>2. pc'[w] \notin {"mark", "note", "link"}
    <3>1. CASE Connected(w) \/ Commit(w) \/ Save(w) \/ SaveSpills(w) \/ Clear(w)
      BY <1>0, <3>1 DEF Connected, Commit, Save, SaveSpills, Saved, Clear, Multicast, Go, Returns
    <3>2. CASE Check(w) \/ SetMaster(w) \/ Once(w)
      BY <1>0, <3>2 DEF Check, Advance, SetMaster, Once, Go, Returns
    <3>3. CASE Post(w) \/ Refuse(w) \/ Reply(w) \/ Undo(w)
      BY <1>0, <3>3 DEF Post, Refuse, Reply, Undo, Go
    <3>4. CASE WaitSave(w)
      BY <1>0, <3>4 DEF WaitSave, Go
    <3> QED
      BY <1>8, <3>1, <3>2, <3>3, <3>4
  <2> QED
    BY <1>0, <2>1, <2>2, SameConn
<1>9. CASE TakeEvent(w) \/ FindCommit(w) \/ FindAbort(w) \/ FindSave(w) \/ FindUndo(w)
  <2>1. UNCHANGED <<srv, conn>>
    BY <1>9 DEF TakeEvent, FindCommit, FindAbort, FindSave, FindUndo, Find, sharedVars, netVars
  <2>2. \/ UNCHANGED workerVars /\ pc[w] = "idle"
        \/ pc'[w] \notin {"mark", "note", "link"}
    <3>1. CASE TakeEvent(w)
      <4>1. /\ pc[w] = "idle"
            /\ \/ UNCHANGED workerVars
               \/ \E msg, st, ret : Multicast(w, msg, st, ret)
               \/ \E e, j : Go(w, Handler(e), j)
               \/ \E j : Go(w, "post", j)
        BY <3>1 DEF TakeEvent
      <4>2. \A e : Handler(e) \notin {"mark", "note", "link"}
        BY DEF Handler
      <4> QED
        BY <1>0, <4>1, <4>2 DEF Multicast, Go
    <3>2. CASE FindCommit(w)
      BY <1>0, <3>2 DEF FindCommit, Find, Go
    <3>3. CASE FindAbort(w)
      BY <1>0, <3>3 DEF FindAbort, Find, Go
    <3>4. CASE FindSave(w)
      BY <1>0, <3>4 DEF FindSave, Find, Go
    <3>5. CASE FindUndo(w)
      BY <1>0, <3>5 DEF FindUndo, Find, Go
    <3> QED
      BY <1>9, <3>1, <3>2, <3>3, <3>4, <3>5
  <2> QED
    BY <1>0, <2>1, <2>2, SameConn DEF NoZombiePeer, Reached, workerVars
<1> QED
  BY <1>0, <1>1, <1>1a, <1>2, <1>3, <1>4, <1>5, <1>6, <1>7, <1>8, <1>9
     DEF Next, Exchange, Spilling, Step, Receive

\* With one worker, whatever the number of peers and however often they go down:
\* a peer without connection has the state DISCONNECT, so that the next command
\* connects to it again (init_sync_server_connection()).
THEOREM NoZombiePeerHolds ==
  ASSUME NEW w, Workers = {w}
  PROVE  Spec => []NoZombiePeer
<1>1. Init => NoZombiePeer /\ Reached(w)
  BY DEF Init, NoZombiePeer, Reached
<1>2. NoZombiePeer /\ Reached(w) /\ Inv /\ [Next]_vars => NoZombiePeer' /\ Reached(w)'
  BY ZombieNext
<1> QED
  BY <1>1, <1>2, Invariant, PTL DEF Spec

-----------------------------------------------------------------------------
(* No message is stored by the master alone *)

\* A save keeps the places of every number, or adds one for the new line's.
LEMMA SavePlaces ==
  ASSUME NEW f \in Seq(Line), NEW cmd, NEW line \in Line,
         NEW r \in SaveResults(f, cmd, line), NEW n
  PROVE  \/ Found(r.file, n) = Found(f, n)
         \/ /\ cmd = "WRITE" /\ line.num = n
            /\ Found(r.file, n) = Found(f, n) \cup {Len(f) + 1}
<1>1. CASE r.file = f
  BY <1>1
<1>2. CASE cmd = "WRITE" /\ r = [file |-> Append(f, line), result |-> "WROTE"]
  <2>1. /\ DOMAIN r.file = 1..(Len(f) + 1) /\ DOMAIN f = 1..Len(f) /\ Len(f) \in Nat
        /\ r.file[Len(f) + 1] = line
        /\ \A i \in 1..Len(f) : r.file[i] = f[i]
    BY <1>2, AppendProperties, LenProperties
  <2>2. DOMAIN r.file = DOMAIN f \cup {Len(f) + 1}
    BY <2>1
  <2>3. \A i \in DOMAIN f : r.file[i] = f[i]
    BY <2>1
  <2> QED
    BY <1>2, <2>1, <2>2, <2>3 DEF Found
<1>3. CASE \E i \in Found(f, line.num) :
             r = [file |-> [f EXCEPT ![i] = line], result |-> "WROTE"]
  <2>1. PICK i \in Found(f, line.num) :
          r = [file |-> [f EXCEPT ![i] = line], result |-> "WROTE"]
    BY <1>3
  <2>2. DOMAIN r.file = DOMAIN f /\ \A k \in DOMAIN f : r.file[k].num = f[k].num
    BY <2>1 DEF Found
  <2> QED
    BY <2>2 DEF Found
<1> QED
  BY <1>1, <1>2, <1>3 DEF SaveResults, FirstOf

\* The record the worker saves is still the one it found.
OwnNumber(w) == pc[w] = "save" => client[job[w].usr].line.num = job[w].num

\* Only the search for the number of the event leads to a save.
LEMMA OnlyFindSave ==
  ASSUME NEW w, Workers = {w}, Inv, [Next]_vars, pc'[w] = "save"
  PROVE  FindSave(w) \/ UNCHANGED <<pc, job, client>>
<1>0. /\ w \in Workers /\ job[w].ret \in Returns
      /\ pc \in [Workers -> Labels] /\ job \in [Workers -> Job]
  BY WorkerFacts DEF Backed, Returning, Inv, TypeOK
<1>1. CASE \/ Connect(w) \/ Link(w) \/ Connected(w) \/ Send(w) \/ Mark(w) \/ Check(w) \/ SetMaster(w)
           \/ Post(w) \/ Note(w) \/ Once(w)
  BY <1>0, <1>1 DEF Connect, Link, NextPeer, Connected, Multicast, Send, Mark, Check, Advance, SetMaster,
     Post, Note, Once, Go, Returns
<1>2. CASE TakeEvent(w)
  <2>1. \A e : Handler(e) # "save"
    BY DEF Handler
  <2>2. \/ UNCHANGED workerVars /\ pc[w] = "idle"
        \/ \E msg, st, ret : Multicast(w, msg, st, ret)
        \/ \E e, j : Go(w, Handler(e), j)
        \/ \E j : Go(w, "post", j)
    BY <1>2 DEF TakeEvent
  <2> QED
    BY <1>0, <2>1, <2>2 DEF Multicast, Go, workerVars
<1>3. CASE FindCommit(w) \/ FindAbort(w) \/ FindUndo(w)
  BY <1>0, <1>3 DEF FindCommit, FindAbort, FindUndo, Find, Go
<1>4. CASE Commit(w) \/ WaitSave(w) \/ Refuse(w) \/ Save(w) \/ Reply(w) \/ Undo(w) \/ Clear(w)
  BY <1>0, <1>4 DEF Commit, WaitSave, Refuse, Save, Saved, Reply, Undo, Clear, Multicast, Go, Returns
<1>5. CASE Receive(w)
  <2>1. UNCHANGED workerVars \/ pc'[w] = "note"
    BY <1>0, <1>5 DEF Receive, RecvReply, PeerClosed, Go
  <2>2. UNCHANGED client
    BY <1>5 DEF Receive, RecvReply, PeerClosed, userVars
  <2> QED
    BY <2>1, <2>2 DEF workerVars
<1>6. CASE Command(w)
  BY <1>0, <1>6 DEF Command, SubmitWrite, SubmitReplace, Submit, Go
<1>7. ASSUME \/ MasterTimerFires
             \/ \E p \in Peers : PeerRecv(p) \/ SlaveTimeout(p) \/ PeerCrash(p) \/ PeerStart(p)
             \/ UNCHANGED vars
      PROVE  UNCHANGED <<pc, job, client>>
  BY <1>7, OutsideSteps DEF workerVars
<1>8. CASE SaveSpills(w)
  BY <1>0, <1>8 DEF SaveSpills, Saved, Go
<1>9. ASSUME NEW p \in Peers, NEW k \in 1..MaxRecv, PeerCommitSpills(p, k)
      PROVE  UNCHANGED <<pc, job, client>>
  BY <1>9 DEF PeerCommitSpills, workerVars, userVars
<1> QED
  BY <1>1, <1>2, <1>3, <1>4, <1>5, <1>6, <1>7, <1>8, <1>9 DEF Next, Exchange, Spilling, Step

LEMMA OwnNumberNext ==
  ASSUME NEW w, Workers = {w}, Inv, OwnNumber(w), [Next]_vars
  PROVE  OwnNumber(w)'
<1>1. SUFFICES ASSUME pc'[w] = "save" PROVE client'[job'[w].usr].line.num = job'[w].num
  BY DEF OwnNumber
<1>2. CASE UNCHANGED <<pc, job, client>>
  BY <1>1, <1>2 DEF OwnNumber
<1>3. CASE FindSave(w)
  <2>1. job[w] \in Job /\ job \in [Workers -> Job] /\ pc \in [Workers -> Labels]
    BY WorkerFacts DEF Inv, TypeOK
  <2>2. PICK u \in Users : client[u].line.num = job[w].num
                           /\ Go(w, "save", [job[w] EXCEPT !.usr = u])
    BY <1>1, <1>3, <2>1 DEF FindSave, Find, FirstOf, Waiting, Go
  <2>3. job'[w].usr = u /\ job'[w].num = job[w].num
    BY <2>1, <2>2 DEF Go, Job
  <2>4. UNCHANGED client
    BY <1>3 DEF FindSave, Find, userVars
  <2> QED
    BY <2>2, <2>3, <2>4
<1> QED
  BY <1>1, <1>2, <1>3, OnlyFindSave

\* Nothing undoes a spill.
LEMMA SpilledSteps ==
  ASSUME Inv, [Next]_vars
  PROVE  /\ [Exchange]_vars => UNCHANGED spilled
         /\ Unspilled' => Unspilled /\ [Exchange]_vars
<1>1. ASSUME NEW w \in Workers, Step(w) PROVE UNCHANGED spilled
  BY <1>1, Zenon DEF Step, Connect, Link, Connected, Send, Mark, Check, SetMaster, Post, Note, Once,
     TakeEvent, FindCommit, FindAbort, FindSave, FindUndo, Find, Commit, WaitSave,
     Refuse, Save, Reply, Undo, Clear
<1>2. ASSUME NEW w \in Workers, Receive(w) PROVE UNCHANGED spilled
  BY <1>2 DEF Receive, RecvReply, PeerClosed
<1>3. ASSUME NEW w \in Workers, Command(w) PROVE UNCHANGED spilled
  BY <1>3 DEF Command, SubmitWrite, SubmitReplace, Submit
<1>4. ASSUME MasterTimerFires PROVE UNCHANGED spilled
  BY <1>4 DEF MasterTimerFires
<1>5. ASSUME NEW p \in Peers, PeerRecv(p) \/ SlaveTimeout(p) \/ PeerCrash(p) \/ PeerStart(p)
      PROVE  UNCHANGED spilled
  BY <1>5 DEF PeerRecv, PeerPrecommit, PeerCommit, PeerRefuses, PeerEnd, SlaveTimeout,
     PeerCrash, PeerStart
<1>6. ASSUME UNCHANGED vars PROVE UNCHANGED spilled
  BY <1>6 DEF vars
<1>7. [Exchange]_vars => UNCHANGED spilled
  BY <1>1, <1>2, <1>3, <1>4, <1>5, <1>6 DEF Exchange
<1>8. Spilling => spilled' # {}
  BY DEF Spilling, SaveSpills, PeerCommitSpills
<1> QED
  BY <1>7, <1>8 DEF Next, Unspilled

\* Until then the files are what the invariant is about.
LEMMA AsShown ==
  /\ Unspilled  => \A s \in Servers : Shown[s] = file[s]
  /\ Unspilled' => \A s \in Servers : Shown'[s] = file'[s]
<1>1. Unspilled' => \A s \in Servers : View(file', spilled')[s] = file'[s]
  BY ViewFacts DEF Unspilled
<1>2. Unspilled => \A s \in Servers : View(file, spilled)[s] = file[s]
  BY ViewFacts DEF Unspilled
<1> QED
  BY <1>1, <1>2 DEF Shown

LEMMA PeerCommitKept ==
  ASSUME TypeOK, NEW p \in Peers, NEW k \in 1..MaxRecv, PeerCommit(p, k)
  PROVE  Kept(Shown, Shown')
<1> DEFINE m == Head(toPeer[p])
           more(r) == IF r.result = "WROTE" THEN Rest(k) ELSE <<>>
<1>1. p \in Servers
  OBVIOUS
<1>1a. UNCHANGED spilled
  BY DEF PeerCommit
<1>2. CASE UNCHANGED file
  BY <1>1a, <1>2, SameKept
<1>3. ASSUME NEW r \in SaveResults(file[p], CmdOf(m), m.line),
             file' = [file EXCEPT ![p] = r.file \o more(r)]
      PROVE  Kept(Shown, Shown')
  <2>1. m \in ToPeer
    BY HeadType DEF PeerCommit, MayRecv
  <2>2. m.line \in Line /\ more(r) \in Seq(Line)
    BY <2>1, RestType, EmptySeq DEF ToPeer
  <2> HIDE DEF m, more
  <2> QED
    BY <1>1, <1>1a, <1>3, <2>2, SaveResultsSaved
<1> QED
  BY <1>2, <1>3 DEF PeerCommit, Committed

LEMMA NeverAloneNext ==
  ASSUME NEW w, Workers = {w}, Inv, OwnNumber(w), Unspilled, Unspilled',
         NeverAlone, [Exchange]_vars
  PROVE  NeverAlone'
<1>0. TypeOK /\ TypeOK' /\ Master \in Servers /\ \A p \in Peers : p \in Servers
  BY NextType DEF Inv, Next
<1>0a. \A num \in Nums : Holds(Master, num) => \E p \in Peers : Holds(p, num)
  BY DEF NeverAlone
<1>1. CASE UNCHANGED file
  BY <1>0a, <1>1 DEF NeverAlone, Holds
<1>2. ASSUME NEW p \in Peers, NEW k \in 1..MaxRecv, PeerCommit(p, k)
      PROVE  NeverAlone'
  <2>1. Kept(Shown, Shown')
    BY <1>0, <1>2, PeerCommitKept
  <2>1a. \A s \in Servers : \A num \in Nums : Found(file[s], num) # {} => Found(file'[s], num) # {}
    BY <2>1, KeptFacts, AsShown
  <2>2. file'[Master] = file[Master]
    <3>0. p # Master
      OBVIOUS
    <3>1. file \in [Servers -> Seq(Line)]
      BY <1>0 DEF TypeOK
    <3>2. UNCHANGED file \/ \E g : file' = [file EXCEPT ![p] = g]
      BY <1>2 DEF PeerCommit, Committed
    <3> QED
      BY <1>0, <3>0, <3>1, <3>2
  <2> QED
    BY <1>0, <1>0a, <2>1a, <2>2 DEF NeverAlone, Holds
<1>3. CASE Save(w)
  <2> DEFINE c == client[job[w].usr]
  <2>1. /\ job[w].usr \in Users /\ c.line \in Line
        /\ file \in [Servers -> Seq(Line)] /\ file[Master] \in Seq(Line)
    BY <1>0, WorkerFacts, ClientType DEF Job, TypeOK
  <2>2. PICK r \in SaveResults(file[Master], c.cmd, c.line) :
          file' = [file EXCEPT ![Master] = r.file]
    BY <1>3 DEF Save, Saved
  <2>3. c.line.num = job[w].num
    BY <1>3 DEF Save, OwnNumber
  <2> HIDE DEF c
  <2>4. Backing(file, c.line.num)
    <3>1. Backing(Shown, c.line.num)
      BY <1>3, <2>3, WorkerFacts DEF Backed, Save
    <3>2. Peers \subseteq Servers
      OBVIOUS
    <3> QED
      BY <3>1, <3>2, AsShown DEF Backing
  <2>5. /\ file'[Master] = r.file
        /\ \A p \in Peers : file'[p] = file[p]
    BY <1>0, <2>1, <2>2
  <2>6. SUFFICES ASSUME NEW n \in Nums, Found(r.file, n) # {}
                 PROVE  \E p \in Peers : Found(file[p], n) # {}
    BY <2>5 DEF NeverAlone, Holds
  <2>7. Found(file[Master], n) # {} \/ c.line.num = n
    <3>1. Found(r.file, n) = Found(file[Master], n) \/ c.line.num = n
      <4>1. file[Master] \in Seq(Line) /\ c.line \in Line
        BY <2>1
      <4> QED
        BY <4>1, SavePlaces
    <3> QED
      BY <2>6, <3>1
  <2> QED
    BY <1>0a, <2>4, <2>7 DEF Holds, Backing
<1> QED
  BY <1>1, <1>2, <1>3, FileSteps

\* With one worker, whatever timeouts, late answers and crashes do: the master
\* stores no number that no peer has stored, until a REPLACE runs over other lines. The
\* number test of proc_sync_ev_commit_success() is what it hangs on.
THEOREM NeverAloneHolds ==
  ASSUME NEW w, Workers = {w}
  PROVE  Spec => []NeverAlone
<1>1. Init => NeverAlone /\ OwnNumber(w)
  <2> SUFFICES ASSUME Init PROVE NeverAlone /\ OwnNumber(w)
    OBVIOUS
  <2>1. file[Master] = <<>>
    BY DEF Init
  <2> QED
    BY <2>1 DEF Init, NeverAlone, OwnNumber, Holds, Found
<1>2. Inv /\ NeverAlone /\ OwnNumber(w) /\ [Next]_vars => NeverAlone' /\ OwnNumber(w)'
  <2> SUFFICES ASSUME Inv, NeverAlone, OwnNumber(w), [Next]_vars
               PROVE  NeverAlone' /\ OwnNumber(w)'
    OBVIOUS
  <2>1. OwnNumber(w)'
    BY OwnNumberNext
  <2>2. CASE Unspilled'
    BY <2>1, <2>2, SpilledSteps, NeverAloneNext
  <2>3. CASE ~Unspilled'
    BY <2>1, <2>3 DEF NeverAlone
  <2> QED
    BY <2>2, <2>3
<1> QED
  BY <1>1, <1>2, Invariant, PTL DEF Spec

\* With one worker and one peer a number in the master's file is in the peer's, until a
\* REPLACE runs over other lines. With more peers it need not be: a late answer can
\* stand for a peer that has stored another message (sync_check_server_state() looks at
\* states, not at numbers).
THEOREM WrittenEverywhereHolds ==
  ASSUME NEW w, Workers = {w}, N = 1
  PROVE  Spec => []WrittenEverywhere
<1>1. NeverAlone => WrittenEverywhere
  <2>1. Peers = {1}
    OBVIOUS
  <2> QED
    BY <2>1 DEF NeverAlone, WrittenEverywhere
<1> QED
  BY <1>1, NeverAloneHolds, PTL

-----------------------------------------------------------------------------
(* No server stores a number twice. With one worker the number of a WRITE is at
   any time in one place on its way to a file: with the user that waits, in the
   multicast of COMMIT, under way to the peer, or in its file. *)

Carries(m, n) == m.kind = "COMMIT WRITE" /\ m.line.num = n

Sent(p, n) == \E i \in DOMAIN toPeer[p] : Carries(toPeer[p][i], n)

\* The worker has this COMMIT still to send to the peer.
ToSend(w, p, n) ==
  /\ Carries(job[w].msg, n)
  /\ \/ pc[w] = "send" /\ job[w].idx <= p
     \/ pc[w] = "mark" /\ job[w].idx < p

\* COMMIT has been multicast, or is being, and the user's state not yet set.
AtCommit(l, j) == l = "waitSave" \/ (l \in Called /\ j.ret = "waitSave")

\* The master has saved, and the user's record is not cleared yet.
AfterSave(l, j) ==
  \/ l = "reply"
  \/ l \in Called /\ j.ret = "reply"
  \/ l = "clear" /\ j.ret = "findSave"

Committing(w, u) == AtCommit(pc[w], job[w]) /\ job[w].usr = u
HasSaved(w, u) == AfterSave(pc[w], job[w]) /\ job[w].usr = u

Writes(u, n) ==
  client[u].state # "IDLE" /\ client[u].cmd = "WRITE" /\ client[u].line.num = n
ToCommit(w, u, n) ==
  Writes(u, n) /\ client[u].state = "U_WAITING_COMMIT" /\ ~Committing(w, u)
ToSave(w, u, n) == Writes(u, n) /\ ~HasSaved(w, u)

OneWriter == \A n \in Nums : \A u, v \in Users : Writes(u, n) /\ Writes(v, n) => u = v
OneLine == \A n \in Nums : \A s \in Servers : \A i, j \in Found(file[s], n) : i = j
OneMessage == \A n \in Nums : \A p \in Peers : \A i, j \in DOMAIN toPeer[p] :
  Carries(toPeer[p][i], n) /\ Carries(toPeer[p][j], n) => i = j

\* A number above the last one handed out is nowhere.
Used(w) == \A n \in Nums :
  /\ \A u \in Users : Writes(u, n) => n <= msgNumber
  /\ \A s \in Servers : Holds(s, n) => n <= msgNumber
  /\ \A p \in Peers : Sent(p, n) \/ ToSend(w, p, n) => n <= msgNumber

AtPeers(w) == \A n \in Nums : \A p \in Peers :
  /\ Holds(p, n) => ~Sent(p, n) /\ ~ToSend(w, p, n)
  /\ Sent(p, n) => ~ToSend(w, p, n)
  /\ \A u \in Users : ToCommit(w, u, n) => ~Holds(p, n) /\ ~Sent(p, n) /\ ~ToSend(w, p, n)

AtMaster(w) == \A n \in Nums : \A u \in Users : ToSave(w, u, n) => ~Holds(Master, n)

\* The user that the worker has found is still in the state it was found in.
FoundWaiting(w) ==
  /\ pc[w] = "commit" \/ AtCommit(pc[w], job[w])
       => client[job[w].usr].state = "U_WAITING_COMMIT"
  /\ pc[w] = "save" => client[job[w].usr].state = "U_WAITING_SAVE"

OnePlace(w) == /\ OneWriter /\ OneLine /\ OneMessage
               /\ Used(w) /\ AtPeers(w) /\ AtMaster(w) /\ FoundWaiting(w)

LEMMA NotWrite ==
  ASSUME NEW kind \in {"PRECOMMIT", "ABORT", "COMMIT REPLACE", "END SUCCESS", "END UNSUCCESS"},
         NEW line, NEW n
  PROVE  ~Carries(Msg(kind, line), n)
BY Zenon DEF Carries, Msg

\* What is on its way in the next state was there before.
FewerPeer(w) == \A n \in Nums : \A p \in Peers :
  (Sent(p, n)' => Sent(p, n)) /\ (ToSend(w, p, n)' => ToSend(w, p, n))
FewerUser(w) == \A n \in Nums : \A u \in Users :
  /\ Writes(u, n)' => Writes(u, n)
  /\ ToCommit(w, u, n)' => ToCommit(w, u, n)
  /\ ToSave(w, u, n)' => ToSave(w, u, n)

LEMMA FewerLines ==
  ASSUME NEW w, OnePlace(w), UNCHANGED msgNumber, FewerPeer(w), FewerUser(w),
         \A s \in Servers, n \in Nums : Holds(s, n)' => Holds(s, n),
         OneLine', OneMessage', FoundWaiting(w)'
  PROVE  OnePlace(w)'
<1>1. Master \in Servers /\ \A p \in Peers : p \in Servers
  OBVIOUS
<1>2. OneWriter'
  BY DEF OnePlace, OneWriter, FewerUser
<1>4. Used(w)'
  BY DEF OnePlace, Used, FewerPeer, FewerUser
<1>5. AtPeers(w)'
  BY <1>1 DEF OnePlace, AtPeers, FewerPeer, FewerUser
<1>6. AtMaster(w)'
  BY <1>1 DEF OnePlace, AtMaster, FewerUser
<1> QED
  BY <1>2, <1>4, <1>5, <1>6 DEF OnePlace

LEMMA Fewer ==
  ASSUME NEW w, OnePlace(w), UNCHANGED <<file, msgNumber>>, FewerPeer(w), FewerUser(w),
         OneMessage', FoundWaiting(w)'
  PROVE  OnePlace(w)'
<1>1. \A s \in Servers, n \in Nums : Holds(s, n)' => Holds(s, n)
  BY DEF Holds
<1>2. OneLine'
  BY DEF OnePlace, OneLine
<1> QED
  BY <1>1, <1>2, FewerLines

\* The worker moves on and stays with a user whose command it is carrying out.
LEMMA SameUsers ==
  ASSUME NEW w, UNCHANGED client,
         AtCommit(pc[w], job[w]) => AtCommit(pc'[w], job'[w]) /\ job'[w].usr = job[w].usr,
         AfterSave(pc[w], job[w]) => AfterSave(pc'[w], job'[w]) /\ job'[w].usr = job[w].usr
  PROVE  FewerUser(w)
BY DEF FewerUser, Writes, ToCommit, ToSave, Committing, HasSaved

\* A connection loses messages at its head.
LEMMA MessagesLess ==
  ASSUME TypeOK, OneMessage, NEW p \in Peers, NEW d \in Nat, NEW q,
         toPeer' = [toPeer EXCEPT ![p] = q],
         \A i \in DOMAIN q :
           i \in Nat /\ i + d \in DOMAIN toPeer[p] /\ q[i] = toPeer[p][i + d]
  PROVE  /\ OneMessage'
         /\ \A r \in Peers, n \in Nums : Sent(r, n)' => Sent(r, n)
<1>1. toPeer'[p] = q /\ \A r \in Peers : r # p => toPeer'[r] = toPeer[r]
  BY DEF TypeOK
<1>2. ASSUME NEW n \in Nums, NEW i \in DOMAIN q, NEW j \in DOMAIN q,
             Carries(q[i], n), Carries(q[j], n)
      PROVE  i = j
  <2>1. i + d = j + d
    BY <1>2 DEF OneMessage
  <2> QED
    BY <2>1
<1>3. ASSUME NEW r \in Peers, NEW n \in Nums, Sent(r, n)' PROVE Sent(r, n)
  <2>1. CASE r = p
    BY <1>1, <1>3, <2>1 DEF Sent
  <2>2. CASE r # p
    BY <1>1, <1>3, <2>2 DEF Sent
  <2> QED
    BY <2>1, <2>2
<1>4. OneMessage'
  <2>1. ASSUME NEW n \in Nums, NEW r \in Peers, NEW i \in DOMAIN toPeer'[r],
               NEW j \in DOMAIN toPeer'[r],
               Carries(toPeer'[r][i], n), Carries(toPeer'[r][j], n)
        PROVE  i = j
    <3>1. CASE r = p
      BY <1>1, <1>2, <2>1, <3>1
    <3>2. CASE r # p
      BY <1>1, <2>1, <3>2 DEF OneMessage
    <3> QED
      BY <3>1, <3>2
  <2> QED
    BY <2>1 DEF OneMessage
<1> QED
  BY <1>3, <1>4

LEMMA SameMessages ==
  ASSUME UNCHANGED toPeer, OneMessage
  PROVE  OneMessage' /\ \A r \in Peers, n \in Nums : Sent(r, n)' => Sent(r, n)
BY DEF OneMessage, Sent

LEMMA ReceivedLess ==
  ASSUME TypeOK, OneMessage, NEW p \in Peers, NEW k \in 1..MaxRecv, k <= Len(toPeer[p]),
         Received(p, k)
  PROVE  OneMessage' /\ \A r \in Peers, n \in Nums : Sent(r, n)' => Sent(r, n)
<1> DEFINE q == SubSeq(toPeer[p], k + 1, Len(toPeer[p]))
<1>1. toPeer[p] \in Seq(ToPeer) /\ k \in Nat /\ Len(toPeer[p]) \in Nat
  BY LenProperties DEF TypeOK
<1>2. \A i \in DOMAIN q :
        i \in Nat /\ i + k \in DOMAIN toPeer[p] /\ q[i] = toPeer[p][i + k]
  BY <1>1, RestOfSeq
<1>3. toPeer' = [toPeer EXCEPT ![p] = q]
  BY DEF Received
<1> HIDE DEF q
<1> QED
  BY <1>1, <1>2, <1>3, MessagesLess

LEMMA EmptiedLess ==
  ASSUME TypeOK, OneMessage, NEW p \in Peers, toPeer' = [toPeer EXCEPT ![p] = <<>>]
  PROVE  OneMessage' /\ \A r \in Peers, n \in Nums : Sent(r, n)' => Sent(r, n)
<1>1. \A i \in DOMAIN <<>> :
        i \in Nat /\ i + 0 \in DOMAIN toPeer[p] /\ <<>>[i] = toPeer[p][i + 0]
  OBVIOUS
<1> QED
  BY <1>1, MessagesLess

\* What the types say of the worker.
LEMMA WorkerType ==
  ASSUME NEW w, Workers = {w}, Inv
  PROVE  /\ w \in Workers /\ job[w] \in Job
         /\ job[w].idx \in Peers /\ job[w].usr \in Users /\ job[w].ret \in Returns
         /\ Returning(pc[w], job[w])
         /\ \A l, j : Go(w, l, j) => /\ pc'[w] = l
                                     /\ job'[w] = IF l = "idle" THEN Fresh ELSE j
BY WorkerFacts DEF Backed, Returning, Job, Inv, TypeOK, Go

\* The loops over the peers and the return from them.
LEMMA CalledNext ==
  ASSUME NEW w, Workers = {w}, Inv, OnePlace(w),
         Mark(w) \/ Check(w) \/ SetMaster(w)
  PROVE  OnePlace(w)'
<1> DEFINE more == [job[w] EXCEPT !.idx = @ + 1]
           first == [job[w] EXCEPT !.idx = 1]
<1>1. /\ UNCHANGED <<client, msgNumber, toPeer, file>> /\ pc[w] \in Called
      /\ job[w].idx \in Nat
  <2>1. job[w].idx \in Nat
    BY WorkerType
  <2>2. CASE Mark(w)
    BY <2>1, <2>2 DEF Mark, Called, netVars, userVars
  <2>3. CASE Check(w)
    BY <2>1, <2>3 DEF Check, Called, netVars, userVars
  <2>4. CASE SetMaster(w)
    BY <2>1, <2>4 DEF SetMaster, Called, netVars, userVars
  <2> QED
    BY <2>2, <2>3, <2>4
<1>2. /\ more.ret = job[w].ret /\ more.usr = job[w].usr /\ more.msg = job[w].msg
      /\ more.idx = job[w].idx + 1
      /\ first.ret = job[w].ret /\ first.usr = job[w].usr
  BY WorkerType DEF Job
<1>3. \/ pc[w] = "mark" /\ Go(w, "send", more)
      \/ Go(w, "check", more)
      \/ \E l \in {"check", "master"} : Go(w, l, first)
      \/ Go(w, job[w].ret, job[w])
      \/ job[w].st \in ReplyStates /\ Go(w, "post", job[w])
  BY DEF Mark, Check, SetMaster, Advance
<1> HIDE DEF more, first
<1>4. \/ /\ pc'[w] \in Called /\ job'[w].ret = job[w].ret /\ job'[w].usr = job[w].usr
         /\ pc'[w] = "send" => /\ pc[w] = "mark" /\ job'[w].msg = job[w].msg
                               /\ job'[w].idx = job[w].idx + 1
         /\ pc'[w] # "mark"
      \/ /\ pc'[w] = job[w].ret
         /\ job[w].ret # "idle" => job'[w] = job[w]
      \/ pc'[w] = "post" /\ job[w].ret \notin {"waitSave", "reply"}
  BY <1>1, <1>2, <1>3, WorkerType DEF Called, Returning
<1>5. /\ pc'[w] # "mark" /\ pc'[w] \notin {"commit", "save"}
      /\ AtCommit(pc[w], job[w]) <=> AtCommit(pc'[w], job'[w])
      /\ AfterSave(pc[w], job[w]) => AfterSave(pc'[w], job'[w])
      /\ AtCommit(pc[w], job[w]) \/ AfterSave(pc[w], job[w]) => job'[w].usr = job[w].usr
      /\ pc'[w] = "send" => /\ pc[w] = "mark" /\ job'[w].msg = job[w].msg
                            /\ job'[w].idx = job[w].idx + 1
  BY <1>1, <1>4, WorkerType DEF AtCommit, AfterSave, Called, Returns
<1>6. FewerUser(w)
  BY <1>1, <1>5, SameUsers
<1>7. OneMessage' /\ FewerPeer(w)
  <2>1. OneMessage' /\ \A r \in Peers, n \in Nums : Sent(r, n)' => Sent(r, n)
    BY <1>1, SameMessages DEF OnePlace
  <2>2. ASSUME NEW r \in Peers, NEW n \in Nums, ToSend(w, r, n)' PROVE ToSend(w, r, n)
    <3>1. pc'[w] = "send" /\ job'[w].idx <= r /\ Carries(job'[w].msg, n)
      BY <1>5, <2>2 DEF ToSend
    <3>2. pc[w] = "mark" /\ job[w].idx < r
      BY <1>1, <1>5, <3>1
    <3> QED
      BY <1>5, <3>1, <3>2 DEF ToSend
  <2> QED
    BY <2>1, <2>2 DEF FewerPeer
<1>8. FoundWaiting(w)'
  BY <1>1, <1>5 DEF OnePlace, FoundWaiting
<1> QED
  BY <1>1, <1>6, <1>7, <1>8, Fewer

\* send(): the COMMIT to this peer leaves the worker and is under way.
LEMMA SendNext ==
  ASSUME NEW w, Workers = {w}, Inv, OnePlace(w), Send(w)
  PROVE  OnePlace(w)'
<1> DEFINE p == job[w].idx
<1>1. /\ UNCHANGED <<client, msgNumber, file>> /\ pc[w] = "send" /\ p \in Peers
      /\ job[w].ret \in Returns
      /\ toPeer \in [Peers -> Seq(ToPeer)] /\ toPeer[p] \in Seq(ToPeer)
      /\ job[w].msg \in ToPeer
  BY WorkerType, ZenonT(40) DEF Send, userVars, Inv, TypeOK, Job
<1>2. \/ /\ pc'[w] = job[w].ret /\ UNCHANGED toPeer
         /\ job[w].ret # "idle" => job'[w] = job[w]
      \/ pc'[w] = "mark" /\ job'[w] = job[w]
  BY WorkerType DEF Send
<1>3. /\ pc'[w] \notin {"send", "commit", "save"}
      /\ AtCommit(pc[w], job[w]) <=> AtCommit(pc'[w], job'[w])
      /\ AfterSave(pc[w], job[w]) => AfterSave(pc'[w], job'[w])
      /\ AtCommit(pc[w], job[w]) \/ AfterSave(pc[w], job[w]) => job'[w].usr = job[w].usr
  BY <1>1, <1>2 DEF AtCommit, AfterSave, Called, Returns
<1>4. FewerUser(w)
  BY <1>1, <1>3, SameUsers
<1>5. FoundWaiting(w)'
  BY <1>1, <1>3 DEF OnePlace, FoundWaiting
<1>6. \A r \in Peers, n \in Nums : ToSend(w, r, n)' => ToSend(w, r, n) /\ r # p
  <2>1. SUFFICES ASSUME NEW r \in Peers, NEW n \in Nums, ToSend(w, r, n)'
                 PROVE  ToSend(w, r, n) /\ r # p
    OBVIOUS
  <2>2. pc'[w] = "mark" /\ job'[w] = job[w] /\ job'[w].idx < r /\ Carries(job'[w].msg, n)
    BY <1>1, <1>2, <1>3, <2>1 DEF ToSend, Returns
  <2>3. job[w].idx <= r /\ r # p
    BY <1>1, <2>2
  <2> QED
    BY <1>1, <2>2, <2>3 DEF ToSend
<1>7. CASE UNCHANGED toPeer
  BY <1>1, <1>4, <1>5, <1>6, <1>7, SameMessages, Fewer DEF OnePlace, FewerPeer
<1>8. CASE toPeer' = [toPeer EXCEPT ![p] = Append(@, job[w].msg)]
  <2> DEFINE q == Append(toPeer[p], job[w].msg)
             e == Len(toPeer[p]) + 1
  <2>1. /\ toPeer'[p] = q /\ \A r \in Peers : r # p => toPeer'[r] = toPeer[r]
    BY <1>1, <1>8
  <2>2. /\ DOMAIN q = DOMAIN toPeer[p] \cup {e} /\ e \notin DOMAIN toPeer[p]
        /\ q[e] = job[w].msg /\ \A i \in DOMAIN toPeer[p] : q[i] = toPeer[p][i]
    <3>1. /\ DOMAIN q = 1..e /\ DOMAIN toPeer[p] = 1..Len(toPeer[p])
          /\ Len(toPeer[p]) \in Nat /\ q[e] = job[w].msg
          /\ \A i \in 1..Len(toPeer[p]) : q[i] = toPeer[p][i]
      BY <1>1, AppendProperties, LenProperties
    <3> HIDE DEF q
    <3> QED
      BY <3>1, SMTT(30)
  <2> HIDE DEF q, e
  <2>3. ASSUME NEW n \in Nums, Carries(job[w].msg, n)
        PROVE  ToSend(w, p, n) /\ ~Sent(p, n) /\ ~Holds(p, n) /\ n <= msgNumber
               /\ \A u \in Users : ~ToCommit(w, u, n)
    <3>1. ToSend(w, p, n)
      <4>1. p <= p
        BY <1>1
      <4> QED
        BY <1>1, <2>3, <4>1 DEF ToSend
    <3> QED
      BY <1>1, <3>1 DEF OnePlace, AtPeers, Used
  <2>4. \A r \in Peers, n \in Nums : Sent(r, n)' => Sent(r, n) \/ (r = p /\ Carries(job[w].msg, n))
    BY <1>1, <2>1, <2>2 DEF Sent
  <2>5. OneMessage'
    <3>1. ASSUME NEW n \in Nums, NEW r \in Peers, NEW i \in DOMAIN toPeer'[r],
                 NEW j \in DOMAIN toPeer'[r],
                 Carries(toPeer'[r][i], n), Carries(toPeer'[r][j], n)
          PROVE  i = j
      <4>1. CASE r = p
        <5>1. CASE i \in DOMAIN toPeer[p] /\ j \in DOMAIN toPeer[p]
          BY <1>1, <2>1, <2>2, <3>1, <4>1, <5>1 DEF OnePlace, OneMessage
        <5>2. CASE i = e /\ j \in DOMAIN toPeer[p]
          BY <1>1, <2>1, <2>2, <2>3, <3>1, <4>1, <5>2 DEF Sent
        <5>3. CASE j = e /\ i \in DOMAIN toPeer[p]
          BY <1>1, <2>1, <2>2, <2>3, <3>1, <4>1, <5>3 DEF Sent
        <5> QED
          BY <2>1, <2>2, <3>1, <4>1, <5>1, <5>2, <5>3
      <4>2. CASE r # p
        BY <2>1, <3>1, <4>2 DEF OnePlace, OneMessage
      <4> QED
        BY <4>1, <4>2
    <3> QED
      BY <3>1 DEF OneMessage
  <2>6. \A s : \A n \in Nums : Holds(s, n)' <=> Holds(s, n)
    BY <1>1 DEF Holds
  <2>7. Used(w)'
    BY <1>1, <1>4, <1>6, <2>3, <2>4, <2>6 DEF OnePlace, Used, FewerUser
  <2>8. AtPeers(w)'
    BY <1>4, <1>6, <2>3, <2>4, <2>6 DEF OnePlace, AtPeers, FewerUser
  <2>9. AtMaster(w)' /\ OneWriter' /\ OneLine'
    BY <1>1, <1>4, <2>6 DEF OnePlace, AtMaster, OneWriter, OneLine, FewerUser
  <2> QED
    BY <1>5, <2>5, <2>7, <2>8, <2>9 DEF OnePlace
<1> QED
  BY <1>7, <1>8 DEF Send

\* A step that neither begins nor ends a user's turn.
LEMMA ElsewhereNext ==
  ASSUME NEW w, OnePlace(w), UNCHANGED <<client, msgNumber, file>>,
         ~AtCommit(pc[w], job[w]), ~AfterSave(pc[w], job[w]),
         ~AtCommit(pc'[w], job'[w]), pc'[w] \notin {"commit", "save", "mark"},
         pc'[w] = "send" => \A n \in Nums : ~Carries(job'[w].msg, n),
         OneMessage', \A r \in Peers, n \in Nums : Sent(r, n)' => Sent(r, n)
  PROVE  OnePlace(w)'
<1>1. FewerUser(w)
  BY SameUsers
<1>2. FewerPeer(w)
  BY DEF FewerPeer, ToSend
<1>3. FoundWaiting(w)'
  BY DEF FoundWaiting
<1> QED
  BY <1>1, <1>2, <1>3, Fewer

\* The fields of a worker that multicasts.
LEMMA SendingFields ==
  ASSUME NEW j \in Job, NEW msg, NEW st, NEW ret
  PROVE  LET i == Sending(j, msg, st, ret) IN
         /\ i.msg = msg /\ i.ret = ret /\ i.idx = 1 /\ i.usr = j.usr /\ i.st = st
BY DEF Sending, Job

LEMMA NextPeerPlaces ==
  ASSUME NEW w, Workers = {w}, Inv, NEW ok, NextPeer(w, ok)
  PROVE  pc'[w] = "connect" \/ (pc'[w] = "check" /\ job'[w].ret = "connected")
<1> DEFINE i == [job[w] EXCEPT !.ok = ok, !.idx = 1, !.st = "IDLE", !.ret = "connected"]
<1>1. i.ret = "connected"
  BY WorkerType DEF Job
<1>2. \/ \E j : Go(w, "connect", j)
      \/ Go(w, "check", i)
  BY DEF NextPeer
<1> HIDE DEF i
<1> QED
  BY <1>1, <1>2, WorkerType

LEMMA BeforeCommitNext ==
  ASSUME NEW w, Workers = {w}, Inv, OnePlace(w),
         Connect(w) \/ Link(w) \/ Connected(w) \/ Post(w) \/ Note(w) \/ Once(w)
  PROVE  OnePlace(w)'
<1>0. OneMessage /\ TypeOK
  BY DEF OnePlace, Inv
<1>1. CASE Connect(w)
  <2> DEFINE p == job[w].idx
  <2>1. /\ pc[w] = "connect" /\ UNCHANGED <<client, msgNumber, file>>
        /\ (\E ok : NextPeer(w, ok)) \/ Go(w, "link", job[w])
        /\ UNCHANGED toPeer \/ toPeer' = [toPeer EXCEPT ![p] = <<>>]
    BY <1>1 DEF Connect, userVars, netVars
  <2>3. \/ pc'[w] \in {"connect", "link"}
        \/ pc'[w] = "check" /\ job'[w].ret = "connected"
    BY <2>1, NextPeerPlaces, WorkerType
  <2>4. OneMessage' /\ \A r \in Peers, n \in Nums : Sent(r, n)' => Sent(r, n)
    BY <1>0, <2>1, WorkerType, SameMessages, EmptiedLess
  <2> QED
    BY <2>1, <2>3, <2>4, ElsewhereNext DEF AtCommit, AfterSave, Called
<1>1a. CASE Link(w)
  <2>1. /\ pc[w] = "link" /\ UNCHANGED <<client, msgNumber, file, toPeer>>
        /\ \E ok : NextPeer(w, ok)
    BY <1>1a DEF Link, userVars, peerVars
  <2>2. pc'[w] = "connect" \/ (pc'[w] = "check" /\ job'[w].ret = "connected")
    BY <2>1, NextPeerPlaces
  <2> QED
    BY <1>0, <2>1, <2>2, SameMessages, ElsewhereNext DEF AtCommit, AfterSave, Called
<1>2. CASE Connected(w)
  <2>1. /\ pc[w] = "connected" /\ UNCHANGED <<client, msgNumber, file, toPeer>>
        /\ \/ Go(w, "send", Sending(job[w], Msg("PRECOMMIT", NoLine),
                                    "M_PRECOMMIT_MULTICASTED", "idle"))
           \/ Go(w, "idle", Fresh)
    BY <1>2 DEF Connected, Multicast, netVars
  <2>2. \/ /\ pc'[w] = "send" /\ job'[w].msg = Msg("PRECOMMIT", NoLine)
           /\ job'[w].ret = "idle"
        \/ pc'[w] = "idle"
    BY <2>1, WorkerType, SendingFields
  <2> QED
    BY <1>0, <2>1, <2>2, NotWrite, SameMessages, ElsewhereNext DEF AtCommit, AfterSave, Called
<1>3. CASE Post(w) \/ Note(w) \/ Once(w)
  <2>1. /\ pc[w] \in {"post", "note", "once"}
        /\ UNCHANGED <<client, msgNumber, file, toPeer>>
    BY <1>3 DEF Post, Note, Once, netVars, userVars
  <2>2. \/ pc'[w] = "idle"
        \/ /\ pc'[w] \in {"once", "check", "master"}
           /\ job'[w].ret = "idle"
    <3>1. CASE Post(w)
      BY <3>1, WorkerType DEF Post
    <3>2. CASE Note(w)
      BY <3>2, WorkerType DEF Note, Returning, Job
    <3>3. CASE Once(w)
      BY <3>3, WorkerType DEF Once, Returning
    <3> QED
      BY <1>3, <3>1, <3>2, <3>3
  <2> QED
    BY <1>0, <2>1, <2>2, SameMessages, ElsewhereNext DEF AtCommit, AfterSave, Called
<1> QED
  BY <1>1, <1>1a, <1>2, <1>3

LEMMA ReceiveNext ==
  ASSUME NEW w, Workers = {w}, Inv, OnePlace(w), Receive(w)
  PROVE  OnePlace(w)'
<1>0. OneMessage
  BY DEF OnePlace
<1>1. UNCHANGED <<client, msgNumber, file, toPeer>> /\ pc[w] = "idle"
  BY DEF Receive, RecvReply, PeerClosed, userVars
<1>2. UNCHANGED workerVars \/ pc'[w] = "note"
  BY WorkerType DEF Receive, RecvReply, PeerClosed
<1>3. pc'[w] \in {"idle", "note"}
  BY <1>1, <1>2 DEF workerVars
<1> QED
  BY <1>0, <1>1, <1>3, SameMessages, ElsewhereNext DEF AtCommit, AfterSave, Called

LEMMA TakeEventNext ==
  ASSUME NEW w, Workers = {w}, Inv, OnePlace(w), TakeEvent(w)
  PROVE  OnePlace(w)'
<1>0. OneMessage
  BY DEF OnePlace
<1>1. UNCHANGED <<client, msgNumber, file, toPeer>> /\ pc[w] = "idle"
  BY DEF TakeEvent, userVars, netVars
<1>2. \/ UNCHANGED workerVars
      \/ Go(w, "send", Sending(job[w], Msg("ABORT", NoLine), "IDLE", "findAbort"))
      \/ \E e, j : Go(w, Handler(e), j)
      \/ \E j : Go(w, "post", j)
  BY DEF TakeEvent, Multicast
<1>3. \A e : Handler(e) \in {"findCommit", "findSave", "findUndo"}
  BY DEF Handler
<1>4. \/ pc'[w] \in {"idle", "post", "findCommit", "findSave", "findUndo"}
      \/ /\ pc'[w] = "send" /\ job'[w].msg = Msg("ABORT", NoLine)
         /\ job'[w].ret = "findAbort"
  BY <1>1, <1>2, <1>3, WorkerType, SendingFields DEF workerVars
<1> QED
  BY <1>0, <1>1, <1>4, NotWrite, SameMessages, ElsewhereNext DEF AtCommit, AfterSave, Called

LEMMA FailedNext ==
  ASSUME NEW w, Workers = {w}, Inv, OnePlace(w),
         FindAbort(w) \/ FindUndo(w) \/ Refuse(w) \/ Undo(w)
  PROVE  OnePlace(w)'
<1>0. OneMessage
  BY DEF OnePlace
<1>1. /\ UNCHANGED <<client, msgNumber, file, toPeer>>
      /\ pc[w] \in {"findAbort", "findUndo", "refuse", "undo"}
  BY DEF FindAbort, FindUndo, Find, Refuse, Undo, netVars, userVars
<1>2. pc'[w] \in {"idle", "refuse", "undo", "clear"}
  BY WorkerType DEF FindAbort, FindUndo, Find, Refuse, Undo
<1> QED
  BY <1>0, <1>1, <1>2, SameMessages, ElsewhereNext DEF AtCommit, AfterSave, Called

\* The search of the handlers that go on with a user's command.
LEMMA FoundNext ==
  ASSUME NEW w, Workers = {w}, Inv, OnePlace(w), FindCommit(w) \/ FindSave(w)
  PROVE  OnePlace(w)'
<1>0. OneMessage
  BY DEF OnePlace
<1>1. /\ UNCHANGED <<client, msgNumber, file, toPeer>>
      /\ pc[w] \in {"findCommit", "findSave"}
  BY DEF FindCommit, FindSave, Find, netVars, userVars
<1>2. \/ pc'[w] = "idle"
      \/ \E u \in Users : /\ pc'[w] = "commit" /\ client[u].state = "U_WAITING_COMMIT"
                          /\ job'[w] = [job[w] EXCEPT !.usr = u]
      \/ \E u \in Users : /\ pc'[w] = "save" /\ client[u].state = "U_WAITING_SAVE"
                          /\ job'[w] = [job[w] EXCEPT !.usr = u]
  BY WorkerType, ZenonT(40) DEF FindCommit, FindSave, Find, FirstOf, Waiting
<1>3. \/ pc'[w] = "idle"
      \/ pc'[w] = "commit" /\ client[job'[w].usr].state = "U_WAITING_COMMIT"
      \/ pc'[w] = "save" /\ client[job'[w].usr].state = "U_WAITING_SAVE"
  BY <1>2, WorkerType, ZenonT(40) DEF Job
<1>4. FoundWaiting(w)'
  BY <1>1, <1>3 DEF FoundWaiting, AtCommit, Called
<1>5. FewerUser(w)
  BY <1>1, SameUsers DEF AtCommit, AfterSave, Called
<1>6. FewerPeer(w) /\ OneMessage'
  BY <1>0, <1>1, <1>3, SameMessages DEF FewerPeer, ToSend
<1> QED
  BY <1>1, <1>4, <1>5, <1>6, Fewer

\* The multicast of COMMIT takes the command over from the user.
LEMMA CommitNext ==
  ASSUME NEW w, Workers = {w}, Inv, OnePlace(w), Commit(w)
  PROVE  OnePlace(w)'
<1> DEFINE x == job[w].usr
           c == client[x]
           m == Msg(IF c.cmd = "WRITE" THEN "COMMIT WRITE" ELSE "COMMIT REPLACE", c.line)
<1>1. /\ pc[w] = "commit" /\ UNCHANGED <<client, msgNumber, file, toPeer>>
      /\ Go(w, "send", Sending(job[w], m, "M_COMMITED", "waitSave"))
  BY DEF Commit, Multicast, netVars, userVars
<1>2. \A n : Carries(m, n) => c.cmd = "WRITE" /\ c.line.num = n
  BY Zenon DEF Carries, Msg
<1> HIDE DEF m
<1>3. /\ pc'[w] = "send" /\ job'[w].msg = m /\ job'[w].ret = "waitSave"
      /\ job'[w].usr = x /\ x \in Users
  BY <1>1, WorkerType, SendingFields
<1>4. client[x].state = "U_WAITING_COMMIT"
  BY <1>1 DEF OnePlace, FoundWaiting
<1>5. /\ ~AtCommit(pc[w], job[w]) /\ ~AfterSave(pc[w], job[w])
      /\ AtCommit(pc'[w], job'[w]) /\ ~AfterSave(pc'[w], job'[w])
  BY <1>1, <1>3 DEF AtCommit, AfterSave, Called
<1>6. ASSUME NEW p \in Peers, NEW n \in Nums, ToSend(w, p, n)'
      PROVE  Writes(x, n) /\ ToCommit(w, x, n)
  <2>1. c.cmd = "WRITE" /\ c.line.num = n
    BY <1>2, <1>3, <1>6 DEF ToSend
  <2> QED
    BY <1>4, <1>5, <2>1 DEF Writes, ToCommit, Committing
<1>7. \A u \in Users, n \in Nums : ToCommit(w, u, n)' => ToCommit(w, u, n) /\ u # x
  BY <1>1, <1>3, <1>5 DEF ToCommit, Committing, Writes
<1>8. /\ \A u \in Users, n \in Nums : Writes(u, n)' <=> Writes(u, n)
      /\ \A u \in Users, n \in Nums : ToSave(w, u, n)' => ToSave(w, u, n)
      /\ \A s : \A n \in Nums : Holds(s, n)' <=> Holds(s, n)
      /\ \A p \in Peers, n \in Nums : Sent(p, n)' <=> Sent(p, n)
  BY <1>1, <1>5 DEF Writes, ToSave, HasSaved, Holds, Sent
<1>9. Used(w)'
  BY <1>1, <1>3, <1>6, <1>8 DEF OnePlace, Used
<1>10. AtPeers(w)'
  <2>1. SUFFICES ASSUME NEW n \in Nums, NEW p \in Peers
                 PROVE  /\ Holds(p, n)' => ~Sent(p, n)' /\ ~ToSend(w, p, n)'
                        /\ Sent(p, n)' => ~ToSend(w, p, n)'
                        /\ \A u \in Users : ToCommit(w, u, n)' =>
                             ~Holds(p, n)' /\ ~Sent(p, n)' /\ ~ToSend(w, p, n)'
    BY DEF AtPeers
  <2>2. ToSend(w, p, n)' => ~Holds(p, n) /\ ~Sent(p, n)
    BY <1>3, <1>6 DEF OnePlace, AtPeers
  <2>3. ASSUME NEW u \in Users, ToCommit(w, u, n)', ToSend(w, p, n)' PROVE FALSE
    <3>1. Writes(u, n) /\ u # x
      BY <1>7, <2>3 DEF ToCommit
    <3>2. Writes(x, n)
      BY <1>6, <2>3
    <3> QED
      BY <1>3, <3>1, <3>2 DEF OnePlace, OneWriter
  <2> QED
    BY <1>7, <1>8, <2>2, <2>3 DEF OnePlace, AtPeers
<1>11. AtMaster(w)'
  BY <1>8 DEF OnePlace, AtMaster
<1>12. OneWriter' /\ OneLine' /\ OneMessage'
  BY <1>1, <1>8, SameMessages DEF OnePlace, OneWriter, OneLine
<1>13. FoundWaiting(w)'
  BY <1>1, <1>3, <1>4 DEF FoundWaiting
<1> QED
  BY <1>9, <1>10, <1>11, <1>12, <1>13 DEF OnePlace

\* The user's state follows the multicast.
LEMMA WaitSaveNext ==
  ASSUME NEW w, Workers = {w}, Inv, OnePlace(w), WaitSave(w)
  PROVE  OnePlace(w)'
<1> DEFINE x == job[w].usr
<1>1. /\ pc[w] = "waitSave" /\ UNCHANGED <<msgNumber, file, toPeer>>
      /\ client' = [client EXCEPT ![x].state = "U_WAITING_SAVE"]
      /\ pc'[w] = "findCommit"
  BY WorkerType DEF WaitSave, netVars
<1>2. x \in Users /\ client \in [Users -> Client]
  BY WorkerType DEF Inv, TypeOK
<1>3. client[x].state = "U_WAITING_COMMIT"
  BY <1>1 DEF OnePlace, FoundWaiting, AtCommit
<1>4. /\ client'[x] = [client[x] EXCEPT !.state = "U_WAITING_SAVE"]
      /\ \A u \in Users : u # x => client'[u] = client[u]
  BY <1>1, <1>2
<1>5. /\ client'[x].state = "U_WAITING_SAVE" /\ client'[x].cmd = client[x].cmd
      /\ client'[x].line = client[x].line
  BY <1>2, <1>4 DEF Client
<1>6. \A u \in Users, n \in Nums : Writes(u, n)' => Writes(u, n)
  BY <1>3, <1>4, <1>5 DEF Writes
<1>7. ~AfterSave(pc[w], job[w])
  BY <1>1 DEF AfterSave, Called
<1>8. FewerUser(w)
  <2>1. ASSUME NEW u \in Users, NEW n \in Nums, ToCommit(w, u, n)' PROVE ToCommit(w, u, n)
    <3>1. u # x
      BY <1>5, <2>1 DEF ToCommit
    <3> QED
      BY <1>4, <1>6, <2>1, <3>1 DEF ToCommit, Committing
  <2>2. ASSUME NEW u \in Users, NEW n \in Nums, ToSave(w, u, n)' PROVE ToSave(w, u, n)
    BY <1>6, <1>7, <2>2 DEF ToSave, HasSaved
  <2> QED
    BY <1>6, <2>1, <2>2 DEF FewerUser
<1>9. OneMessage' /\ FewerPeer(w)
  BY <1>1, SameMessages DEF OnePlace, FewerPeer, ToSend
<1>10. FoundWaiting(w)'
  BY <1>1 DEF FoundWaiting, AtCommit, Called
<1> QED
  BY <1>1, <1>8, <1>9, <1>10, Fewer

LEMMA ReplyNext ==
  ASSUME NEW w, Workers = {w}, Inv, OnePlace(w), Reply(w)
  PROVE  OnePlace(w)'
<1>1. /\ pc[w] = "reply" /\ UNCHANGED <<client, msgNumber, file, toPeer>>
      /\ pc'[w] = "clear" /\ job'[w] = [job[w] EXCEPT !.ret = "findSave"]
  BY WorkerType DEF Reply, netVars
<1>2. job'[w].ret = "findSave" /\ job'[w].usr = job[w].usr
  BY <1>1, WorkerType DEF Job
<1>3. FewerUser(w)
  BY <1>1, <1>2, SameUsers DEF AtCommit, AfterSave, Called
<1>4. OneMessage' /\ FewerPeer(w)
  BY <1>1, SameMessages DEF OnePlace, FewerPeer, ToSend
<1>5. FoundWaiting(w)'
  BY <1>1 DEF FoundWaiting, AtCommit, Called
<1> QED
  BY <1>1, <1>3, <1>4, <1>5, Fewer

\* The record is cleared, and with it the command.
LEMMA ClearNext ==
  ASSUME NEW w, Workers = {w}, Inv, OnePlace(w), Clear(w)
  PROVE  OnePlace(w)'
<1> DEFINE x == job[w].usr
           m == Msg("END UNSUCCESS", Bare(job[w].num))
<1>1. /\ pc[w] = "clear" /\ UNCHANGED <<msgNumber, file, toPeer>>
      /\ client' = [client EXCEPT ![x].state = "IDLE", ![x].line = NoLine]
      /\ Go(w, "send", Sending(job[w], m, "IDLE", "findUndo")) \/ Go(w, job[w].ret, job[w])
  BY DEF Clear, Multicast, netVars
<1>2. x \in Users /\ client \in [Users -> Client]
      /\ job[w].ret \in {"findAbort", "findSave", "findUndo"}
  BY <1>1, WorkerType DEF Returning, Inv, TypeOK
<1> HIDE DEF m
<1>3. \/ pc'[w] \in {"findAbort", "findSave", "findUndo"}
      \/ pc'[w] = "send" /\ job'[w].msg = m /\ job'[w].ret = "findUndo"
  BY <1>1, <1>2, WorkerType, SendingFields
<1>4. /\ client'[x].state = "IDLE" /\ \A u \in Users : u # x => client'[u] = client[u]
  <2> DEFINE c == [client[x] EXCEPT !.state = "IDLE"]
             d == [c EXCEPT !.line = NoLine]
  <2>1. client' = [client EXCEPT ![x] = d]
    BY <1>1, <1>2
  <2>2. c.state = "IDLE" /\ d.state = c.state
    BY <1>2 DEF Client
  <2> HIDE DEF c, d
  <2> QED
    BY <1>2, <2>1, <2>2
<1>5. \A u \in Users, n \in Nums : Writes(u, n)' => Writes(u, n) /\ u # x
  BY <1>4 DEF Writes
<1>6. FewerUser(w)
  <2>1. ASSUME NEW u \in Users, NEW n \in Nums, ToCommit(w, u, n)' PROVE ToCommit(w, u, n)
    <3>1. u # x
      BY <1>5, <2>1 DEF ToCommit
    <3> QED
      BY <1>4, <1>5, <2>1, <3>1 DEF ToCommit, Committing
  <2>2. ASSUME NEW u \in Users, NEW n \in Nums, ToSave(w, u, n)' PROVE ToSave(w, u, n)
    <3>1. u # x
      BY <1>5, <2>2 DEF ToSave
    <3> QED
      BY <1>5, <2>2, <3>1 DEF ToSave, HasSaved
  <2> QED
    BY <1>5, <2>1, <2>2 DEF FewerUser
<1>7. OneMessage' /\ FewerPeer(w)
  <2>1. \A n : ~Carries(m, n)
    BY NotWrite DEF m
  <2> QED
    BY <1>1, <1>3, <2>1, SameMessages DEF OnePlace, FewerPeer, ToSend
<1>8. FoundWaiting(w)'
  BY <1>3 DEF FoundWaiting, AtCommit, Called
<1> QED
  BY <1>1, <1>6, <1>7, <1>8, Fewer

\* A new command has a new number.
LEMMA CommandNext ==
  ASSUME NEW w, Workers = {w}, Inv, OnePlace(w), Command(w)
  PROVE  OnePlace(w)'
<1>1. PICK u, cmd, num :
        /\ u \in Users /\ cmd \in {"WRITE", "REPLACE"}
        /\ Submit(w, u, cmd, num)
        /\ cmd = "WRITE" => num = msgNumber + 1
        /\ msgNumber' = IF cmd = "WRITE" THEN msgNumber + 1 ELSE msgNumber
  BY DEF Command, SubmitWrite, SubmitReplace
<1>2. /\ pc[w] = "idle" /\ pc'[w] = "connect" /\ UNCHANGED <<file, toPeer>>
      /\ client' = [client EXCEPT ![u] =
                      [state |-> "U_WAITING_COMMIT", cmd |-> cmd,
                       line |-> [num |-> num, text |-> issued']]]
  BY <1>1, WorkerType DEF Submit, netVars
<1>3. msgNumber \in Nat /\ client \in [Users -> Client] /\ msgNumber <= msgNumber'
  BY <1>1 DEF Inv, TypeOK
<1>4. /\ client'[u].cmd = cmd /\ client'[u].line.num = num
      /\ \A v \in Users : v # u => client'[v] = client[v]
  BY <1>1, <1>2, <1>3
<1>5. \A v \in Users, n \in Nums : Writes(v, n)' =>
        (v # u /\ Writes(v, n)) \/ (v = u /\ n = msgNumber + 1 /\ n = msgNumber')
  BY <1>1, <1>4 DEF Writes
<1>6. /\ ~AtCommit(pc[w], job[w]) /\ ~AfterSave(pc[w], job[w])
      /\ ~AtCommit(pc'[w], job'[w]) /\ ~AfterSave(pc'[w], job'[w])
  BY <1>2 DEF AtCommit, AfterSave, Called
<1>7. /\ \A s : \A n \in Nums : Holds(s, n)' <=> Holds(s, n)
      /\ \A p \in Peers, n \in Nums : Sent(p, n)' <=> Sent(p, n)
      /\ \A p \in Peers, n \in Nums : ~ToSend(w, p, n)'
  BY <1>2 DEF Holds, Sent, ToSend
<1>8. \A n \in Nums : n = msgNumber + 1 =>
        /\ \A v \in Users : ~Writes(v, n)
        /\ \A s \in Servers : ~Holds(s, n)
        /\ \A p \in Peers : ~Sent(p, n)
  BY <1>3 DEF OnePlace, Used
<1>9. OneWriter'
  BY <1>5, <1>8 DEF OnePlace, OneWriter
<1>10. Used(w)'
  <2>1. \A n \in Nums : n <= msgNumber => n <= msgNumber'
    BY <1>1, <1>3
  <2> QED
    BY <1>3, <1>5, <1>7, <2>1 DEF OnePlace, Used
<1>11. AtPeers(w)'
  <2>1. ASSUME NEW n \in Nums, NEW p \in Peers, NEW v \in Users, ToCommit(w, v, n)'
        PROVE  ~Holds(p, n) /\ ~Sent(p, n)
    <3>1. CASE v # u /\ Writes(v, n)
      <4>1. ToCommit(w, v, n)
        BY <1>4, <1>6, <2>1, <3>1 DEF ToCommit, Committing
      <4> QED
        BY <4>1 DEF OnePlace, AtPeers
    <3>2. CASE n = msgNumber + 1
      BY <1>8, <3>2
    <3> QED
      BY <1>5, <2>1, <3>1, <3>2 DEF ToCommit
  <2> QED
    BY <1>7, <2>1 DEF OnePlace, AtPeers
<1>12. AtMaster(w)'
  <2>1. ASSUME NEW n \in Nums, NEW v \in Users, ToSave(w, v, n)'
        PROVE  ~Holds(Master, n)
    <3>1. CASE v # u /\ Writes(v, n)
      <4>1. ToSave(w, v, n)
        BY <1>6, <3>1 DEF ToSave, HasSaved
      <4> QED
        BY <4>1 DEF OnePlace, AtMaster
    <3>2. CASE n = msgNumber + 1
      BY <1>8, <3>2
    <3> QED
      BY <1>5, <2>1, <3>1, <3>2 DEF ToSave
  <2> QED
    BY <1>7, <2>1 DEF AtMaster
<1>13. OneLine' /\ OneMessage' /\ FoundWaiting(w)'
  BY <1>2, <1>6, SameMessages DEF OnePlace, OneLine, FoundWaiting
<1> QED
  BY <1>9, <1>10, <1>11, <1>12, <1>13 DEF OnePlace

\* The master's own save: the number goes from the user's record to the file.
LEMMA SaveNext ==
  ASSUME NEW w, Workers = {w}, Inv, OnePlace(w), Save(w)
  PROVE  OnePlace(w)'
<1> DEFINE x == job[w].usr
           c == client[x]
           j(r) == [job[w] EXCEPT !.answer = r.result]
           m(r) == Msg(IF r.result = "WROTE" THEN "END SUCCESS" ELSE "END UNSUCCESS",
                       Bare(job[w].num))
<1>1. pc[w] = "save" /\ UNCHANGED <<client, msgNumber, toPeer>>
  BY DEF Save, Saved, netVars, userVars
<1>2. PICK r \in SaveResults(file[Master], c.cmd, c.line) :
        /\ file' = [file EXCEPT ![Master] = r.file]
        /\ Go(w, "send", Sending(j(r), m(r), "IDLE", "reply"))
  BY DEF Save, Saved
<1> HIDE DEF m
<1>3. /\ x \in Users /\ c.line \in Line
      /\ file \in [Servers -> Seq(Line)] /\ file[Master] \in Seq(Line) /\ Master \in Servers
  <2>1. TypeOK /\ file \in [Servers -> Seq(Line)]
    BY DEF Inv, TypeOK
  <2>2. x \in Users
    BY WorkerType
  <2>3. Master \in Servers
    BY DEF ConstantsOK
  <2> QED
    BY <2>1, <2>2, <2>3, ClientType
<1>4. c.state = "U_WAITING_SAVE"
  BY <1>1 DEF OnePlace, FoundWaiting
<1>5. \A n : ~Carries(m(r), n)
  BY NotWrite DEF m
<1>6. j(r) \in Job /\ j(r).usr = x
  <2>1. r.result \in Verdicts
    BY <1>3, SaveResultsType
  <2>2. j(r) \in Job
    BY <2>1, WorkerType, SetJob
  <2> QED
    BY <2>2, WorkerType DEF Job
<1> HIDE DEF j
<1>7. /\ pc'[w] = "send" /\ job'[w].msg = m(r) /\ job'[w].ret = "reply" /\ job'[w].usr = x
  BY <1>2, <1>6, WorkerType, SendingFields
<1>8. /\ ~AtCommit(pc[w], job[w]) /\ ~AfterSave(pc[w], job[w])
      /\ ~AtCommit(pc'[w], job'[w]) /\ AfterSave(pc'[w], job'[w])
  BY <1>1, <1>7 DEF AtCommit, AfterSave, Called
<1>9. /\ \A u \in Users, n \in Nums : Writes(u, n)' <=> Writes(u, n)
      /\ \A u \in Users, n \in Nums : ToCommit(w, u, n)' => ToCommit(w, u, n)
      /\ \A u \in Users, n \in Nums : ToSave(w, u, n)' => ToSave(w, u, n) /\ u # x
      /\ \A p \in Peers, n \in Nums : Sent(p, n)' <=> Sent(p, n)
      /\ \A p \in Peers, n \in Nums : ~ToSend(w, p, n)'
  BY <1>1, <1>5, <1>7, <1>8 DEF Writes, ToCommit, Committing, ToSave, HasSaved, Sent, ToSend
<1>10. file'[Master] = r.file /\ \A s \in Servers : s # Master => file'[s] = file[s]
  BY <1>2, <1>3
<1> HIDE DEF c
<1>11. \A n \in Nums :
         \/ Found(file'[Master], n) = Found(file[Master], n)
         \/ /\ c.cmd = "WRITE" /\ c.line.num = n
            /\ Found(file'[Master], n) = Found(file[Master], n) \cup {Len(file[Master]) + 1}
  <2> DEFINE f == file[Master]
             l == c.line
             v == c.cmd
  <2>1. f \in Seq(Line) /\ l \in Line /\ r \in SaveResults(f, v, l)
    BY <1>3
  <2>2. \A n : \/ Found(r.file, n) = Found(f, n)
               \/ /\ v = "WRITE" /\ l.num = n
                  /\ Found(r.file, n) = Found(f, n) \cup {Len(f) + 1}
    <3> HIDE DEF f, l, v
    <3> QED
      BY <2>1, SavePlaces
  <2> QED
    BY <1>10, <2>2
<1>12. \A n \in Nums : c.cmd = "WRITE" /\ c.line.num = n =>
         Writes(x, n) /\ ToSave(w, x, n) /\ ~Holds(Master, n)
  <2>1. SUFFICES ASSUME NEW n \in Nums, c.cmd = "WRITE", c.line.num = n
                 PROVE  Writes(x, n) /\ ToSave(w, x, n) /\ ~Holds(Master, n)
    OBVIOUS
  <2>2. Writes(x, n) /\ ToSave(w, x, n)
    BY <1>4, <1>8, <2>1 DEF c, Writes, ToSave, HasSaved
  <2> QED
    BY <1>3, <2>2 DEF OnePlace, AtMaster
<1>13. OneLine'
  <2>1. ASSUME NEW n \in Nums, NEW a \in Found(file'[Master], n), NEW b \in Found(file'[Master], n)
        PROVE  a = b
    <3>1. CASE Found(file'[Master], n) = Found(file[Master], n)
      BY <1>3, <3>1 DEF OnePlace, OneLine
    <3>2. CASE /\ c.cmd = "WRITE" /\ c.line.num = n
               /\ Found(file'[Master], n) = Found(file[Master], n) \cup {Len(file[Master]) + 1}
      BY <1>12, <3>2 DEF Holds
    <3> QED
      BY <1>11, <3>1, <3>2
  <2> QED
    BY <1>10, <2>1 DEF OnePlace, OneLine
<1>14. \A s \in Servers, n \in Nums :
         Holds(s, n)' => Holds(s, n) \/ (s = Master /\ c.cmd = "WRITE" /\ c.line.num = n)
  BY <1>10, <1>11 DEF Holds
<1>15. \A p \in Peers : p \in Servers /\ p # Master
  OBVIOUS
<1>16. Used(w)'
  BY <1>1, <1>3, <1>9, <1>12, <1>14 DEF OnePlace, Used
<1>17. AtPeers(w)'
  BY <1>9, <1>14, <1>15 DEF OnePlace, AtPeers
<1>18. AtMaster(w)'
  <2>1. ASSUME NEW n \in Nums, NEW u \in Users, ToSave(w, u, n)', Holds(Master, n)'
        PROVE  FALSE
    <3>1. ToSave(w, u, n) /\ u # x /\ Writes(u, n)
      BY <1>9, <2>1 DEF ToSave
    <3>2. c.cmd = "WRITE" /\ c.line.num = n
      BY <1>3, <1>14, <2>1, <3>1 DEF OnePlace, AtMaster
    <3> QED
      BY <1>3, <1>12, <3>1, <3>2 DEF OnePlace, OneWriter
  <2> QED
    BY <2>1 DEF AtMaster
<1>19. OneWriter' /\ OneMessage' /\ FoundWaiting(w)'
  BY <1>1, <1>7, <1>8, <1>9, SameMessages DEF OnePlace, OneWriter, FoundWaiting
<1> QED
  BY <1>13, <1>16, <1>17, <1>18, <1>19 DEF OnePlace

\* What a peer stores beside the line of the COMMIT has no number.
LEMMA JunkPlaces ==
  ASSUME NEW f \in Seq(Line), NEW g \in Seq(Line), NEW n \in Nums,
         \A i \in DOMAIN g : g[i] = Junk
  PROVE  Found(f \o g, n) = Found(f, n)
<1>1. /\ DOMAIN (f \o g) = 1..(Len(f) + Len(g)) /\ DOMAIN f = 1..Len(f) /\ DOMAIN g = 1..Len(g)
      /\ Len(f) \in Nat /\ Len(g) \in Nat
      /\ \A i \in 1..Len(f) : (f \o g)[i] = f[i]
      /\ \A i \in 1..(Len(f) + Len(g)) : i \notin 1..Len(f) => (f \o g)[i] = g[i - Len(f)]
  BY ConcatProperties, LenProperties
<1>2. Junk.num = Garbled /\ Garbled # n
  BY DEF Junk, Bare
<1> DEFINE h == f \o g
<1> HIDE DEF h
<1>3. \A i \in DOMAIN h : i \notin DOMAIN f => h[i].num # n
  <2>1. SUFFICES ASSUME NEW i \in DOMAIN h, i \notin DOMAIN f PROVE h[i].num # n
    OBVIOUS
  <2>2. i - Len(f) \in DOMAIN g /\ h[i] = g[i - Len(f)]
    BY <1>1, <2>1 DEF h
  <2> QED
    BY <1>2, <2>2
<1>4. \A i \in DOMAIN f : i \in DOMAIN h /\ h[i] = f[i]
  BY <1>1 DEF h
<1> QED
  BY <1>3, <1>4 DEF Found, h

\* A peer that stores a number takes the only message that carries it.
LEMMA HeadGone ==
  ASSUME TypeOK, OneMessage, NEW p \in Peers, NEW k \in 1..MaxRecv, k <= Len(toPeer[p]),
         Received(p, k), NEW n \in Nums, Carries(Head(toPeer[p]), n)
  PROVE  Sent(p, n) /\ ~Sent(p, n)'
<1> DEFINE q == SubSeq(toPeer[p], k + 1, Len(toPeer[p]))
           m == Head(toPeer[p])
<1>1. /\ toPeer \in [Peers -> Seq(ToPeer)] /\ toPeer[p] \in Seq(ToPeer)
      /\ k \in Nat /\ 1 <= k /\ Len(toPeer[p]) \in Nat
  BY LenProperties DEF TypeOK
<1>2. \A i \in DOMAIN q :
        i \in Nat /\ 1 <= i /\ i + k \in DOMAIN toPeer[p] /\ q[i] = toPeer[p][i + k]
  BY <1>1, RestOfSeq
<1>3. toPeer'[p] = q
  BY <1>1 DEF Received
<1>4. 1 \in DOMAIN toPeer[p] /\ m = toPeer[p][1]
  BY <1>1, LenProperties
<1> HIDE DEF q, m
<1>5. Carries(m, n)
  BY DEF m
<1>6. Sent(p, n)
  BY <1>4, <1>5 DEF Sent
<1>7. ASSUME NEW i \in DOMAIN q, Carries(q[i], n) PROVE FALSE
  <2>1. i + k = 1
    BY <1>2, <1>4, <1>5, <1>7 DEF OneMessage
  <2> QED
    BY <1>1, <1>2, <1>7, <2>1
<1>8. ~Sent(p, n)'
  BY <1>3, <1>7 DEF Sent
<1> QED
  BY <1>6, <1>8

LEMMA PeerCommitNext ==
  ASSUME NEW w, Workers = {w}, Inv, OnePlace(w), NEW p \in Peers, NEW k \in 1..MaxRecv,
         PeerCommit(p, k)
  PROVE  OnePlace(w)'
<1> DEFINE m == Head(toPeer[p])
           cmd == CmdOf(m)
           more(r) == IF r.result = "WROTE" THEN Rest(k) ELSE <<>>
<1>1. /\ UNCHANGED <<pc, job, client, msgNumber>> /\ k <= Len(toPeer[p])
      /\ OneMessage /\ TypeOK
  BY DEF PeerCommit, MayRecv, workerVars, userVars, OnePlace, Inv
<1>2. FewerUser(w) /\ FoundWaiting(w)' /\ \A r \in Peers, n \in Nums : ToSend(w, r, n)' <=> ToSend(w, r, n)
  BY <1>1, SameUsers DEF OnePlace, FoundWaiting, ToSend
<1>3. CASE Dies(p) /\ UNCHANGED file
  <2>1. OneMessage' /\ \A r \in Peers, n \in Nums : Sent(r, n)' => Sent(r, n)
    BY <1>1, <1>3, EmptiedLess DEF Dies
  <2> QED
    BY <1>1, <1>2, <1>3, <2>1, Fewer DEF FewerPeer
<1>4. ASSUME NEW r \in SaveResults(file[p], cmd, m.line),
             file' = [file EXCEPT ![p] = r.file \o more(r)],
             Received(p, k)
      PROVE  OnePlace(w)'
  <2>1. m \in ToPeer
    BY <1>1, HeadType
  <2>2. m.line \in Line
    BY <2>1 DEF ToPeer
  <2>2a. cmd = "WRITE" => m.kind = "COMMIT WRITE"
    BY Zenon DEF CmdOf
  <2> HIDE DEF m, cmd
  <2>3. Rest(k) \in Seq(Line) /\ \A i \in DOMAIN Rest(k) : Rest(k)[i] = Junk
    BY RestType DEF Rest
  <2>4. more(r) \in Seq(Line) /\ \A i \in DOMAIN more(r) : more(r)[i] = Junk
    <3>1. CASE r.result = "WROTE"
      BY <2>3, <3>1
    <3>2. CASE r.result # "WROTE"
      BY <3>2, EmptySeq
    <3> QED
      BY <3>1, <3>2
  <2> HIDE DEF more
  <2>5. file \in [Servers -> Seq(Line)] /\ file[p] \in Seq(Line) /\ p \in Servers /\ p # Master
    <3>1. file \in [Servers -> Seq(Line)]
      BY <1>1 DEF TypeOK
    <3>2. p \in Servers /\ p # Master
      OBVIOUS
    <3> QED
      BY <3>1, <3>2
  <2>6. file'[p] = r.file \o more(r) /\ \A s \in Servers : s # p => file'[s] = file[s]
    BY <1>4, <2>5
  <2>7. r.file \in Seq(Line)
    BY <2>2, <2>5, SaveResultsType
  <2>8. \A n \in Nums :
          \/ Found(file'[p], n) = Found(file[p], n)
          \/ /\ Carries(m, n)
             /\ Found(file'[p], n) = Found(file[p], n) \cup {Len(file[p]) + 1}
    <3>1. \A n \in Nums : Found(file'[p], n) = Found(r.file, n)
      BY <2>4, <2>6, <2>7, JunkPlaces
    <3>2. ASSUME NEW n
          PROVE  \/ Found(r.file, n) = Found(file[p], n)
                 \/ /\ cmd = "WRITE" /\ m.line.num = n
                    /\ Found(r.file, n) = Found(file[p], n) \cup {Len(file[p]) + 1}
      BY <2>2, <2>5, SavePlaces
    <3>3. \A n : cmd = "WRITE" /\ m.line.num = n => Carries(m, n)
      BY <2>2a, Zenon DEF Carries
    <3> QED
      BY <3>1, <3>2, <3>3
  <2>9. OneMessage' /\ \A s \in Peers, n \in Nums : Sent(s, n)' => Sent(s, n)
    BY <1>1, <1>4, ReceivedLess
  <2>10. \A n \in Nums : Carries(m, n) => Sent(p, n) /\ ~Sent(p, n)'
    BY <1>1, <1>4, HeadGone DEF m
  <2>11. \A n \in Nums : Carries(m, n) =>
           /\ ~Holds(p, n) /\ ~ToSend(w, p, n) /\ n <= msgNumber
           /\ \A u \in Users : ~ToCommit(w, u, n)
    BY <2>10 DEF OnePlace, AtPeers, Used
  <2>12. \A s \in Servers, n \in Nums : Holds(s, n)' => Holds(s, n) \/ (s = p /\ Carries(m, n))
    BY <2>6, <2>8 DEF Holds
  <2>13. OneLine'
    <3>1. ASSUME NEW n \in Nums, NEW a \in Found(file'[p], n), NEW b \in Found(file'[p], n)
          PROVE  a = b
      <4>1. CASE Found(file'[p], n) = Found(file[p], n)
        BY <2>5, <4>1 DEF OnePlace, OneLine
      <4>2. CASE /\ Carries(m, n)
                 /\ Found(file'[p], n) = Found(file[p], n) \cup {Len(file[p]) + 1}
        BY <2>11, <4>2 DEF Holds
      <4> QED
        BY <2>8, <4>1, <4>2
    <3> QED
      BY <2>6, <3>1 DEF OnePlace, OneLine
  <2>14. Used(w)'
    BY <1>1, <1>2, <2>9, <2>11, <2>12 DEF OnePlace, Used, FewerUser
  <2>15. AtPeers(w)'
    <3>1. ASSUME NEW s \in Peers, NEW n \in Nums, Holds(s, n)', ~Holds(s, n)
          PROVE  /\ ~Sent(s, n)' /\ ~ToSend(w, s, n)
                 /\ \A u \in Users : ~ToCommit(w, u, n)
      BY <2>10, <2>11, <2>12, <3>1
    <3> QED
      BY <1>2, <2>9, <3>1 DEF OnePlace, AtPeers, FewerUser
  <2>16. AtMaster(w)'
    <3>1. \A n \in Nums : Holds(Master, n)' <=> Holds(Master, n)
      BY <2>5, <2>6 DEF Holds
    <3> QED
      BY <1>2, <3>1 DEF OnePlace, AtMaster, FewerUser
  <2>17. OneWriter'
    BY <1>2 DEF OnePlace, OneWriter, FewerUser
  <2> QED
    BY <1>2, <2>9, <2>13, <2>14, <2>15, <2>16, <2>17 DEF OnePlace
<1> QED
  BY <1>3, <1>4 DEF PeerCommit, Committed

\* The other steps outside the workers only lose messages.
LEMMA OutsideNext ==
  ASSUME NEW w, Workers = {w}, Inv, OnePlace(w), UNCHANGED file,
         \/ MasterTimerFires
         \/ \E p \in Peers : PeerRecv(p) \/ SlaveTimeout(p) \/ PeerCrash(p) \/ PeerStart(p)
         \/ UNCHANGED vars
  PROVE  OnePlace(w)'
<1>0. OneMessage /\ TypeOK
  BY DEF OnePlace, Inv
<1>1. UNCHANGED <<pc, job, client, msgNumber>>
  BY OutsideSteps DEF workerVars
<1>2. FewerUser(w) /\ FoundWaiting(w)' /\ \A r \in Peers, n \in Nums : ToSend(w, r, n)' <=> ToSend(w, r, n)
  BY <1>1, SameUsers DEF OnePlace, FoundWaiting, ToSend
<1>3. \/ UNCHANGED toPeer
      \/ \E p \in Peers : toPeer' = [toPeer EXCEPT ![p] = <<>>]
      \/ \E p \in Peers, k \in 1..MaxRecv : Received(p, k) /\ k <= Len(toPeer[p])
  <2>1. ASSUME NEW p \in Peers, NEW k \in 1..MaxRecv,
               PeerPrecommit(p, k) \/ PeerCommit(p, k) \/ PeerRefuses(p, k) \/ PeerEnd(p, k)
        PROVE  \/ toPeer' = [toPeer EXCEPT ![p] = <<>>]
               \/ Received(p, k) /\ k <= Len(toPeer[p])
    BY <2>1, Zenon DEF PeerPrecommit, PeerCommit, Committed, PeerRefuses, PeerEnd, MayRecv, Dies
  <2>2. ASSUME NEW p \in Peers, SlaveTimeout(p) \/ PeerCrash(p) \/ PeerStart(p)
        PROVE  UNCHANGED toPeer \/ toPeer' = [toPeer EXCEPT ![p] = <<>>]
    BY <2>2 DEF SlaveTimeout, PeerCrash, PeerStart, Dies, netVars
  <2>3. CASE MasterTimerFires \/ UNCHANGED vars
    BY <2>3 DEF MasterTimerFires, netVars, vars
  <2> QED
    BY <2>1, <2>2, <2>3 DEF PeerRecv
<1>4. OneMessage' /\ \A r \in Peers, n \in Nums : Sent(r, n)' => Sent(r, n)
  BY <1>0, <1>3, SameMessages, EmptiedLess, ReceivedLess
<1> QED
  BY <1>1, <1>2, <1>4, Fewer DEF FewerPeer

LEMMA ConcatPlaces ==
  ASSUME NEW a \in Seq(Line), NEW b \in Seq(Line)
  PROVE  /\ a \o b \in Seq(Line) /\ Len(a \o b) = Len(a) + Len(b)
         /\ DOMAIN (a \o b) = 1..(Len(a) + Len(b)) /\ Len(a) \in Nat /\ Len(b) \in Nat
         /\ \A i \in 1..Len(a) : (a \o b)[i] = a[i]
         /\ \A i \in 1..Len(b) : (a \o b)[Len(a) + i] = b[i]
<1> DEFINE c == a \o b
<1>1. /\ Len(a) \in Nat /\ Len(b) \in Nat
      /\ c \in Seq(Line) /\ Len(c) = Len(a) + Len(b)
      /\ \A i \in 1..(Len(a) + Len(b)) : c[i] = IF i <= Len(a) THEN a[i] ELSE b[i - Len(a)]
  BY ConcatProperties, LenProperties
<1> HIDE DEF c
<1>2. DOMAIN c = 1..(Len(a) + Len(b))
  BY <1>1, LenProperties
<1>3. \A i \in 1..Len(a) : c[i] = a[i]
  BY <1>1
<1>4. ASSUME NEW i \in 1..Len(b) PROVE c[Len(a) + i] = b[i]
  <2>1. /\ Len(a) + i \in 1..(Len(a) + Len(b)) /\ ~(Len(a) + i <= Len(a))
        /\ Len(a) + i - Len(a) = i
    BY <1>1
  <2>2. c[Len(a) + i] = b[Len(a) + i - Len(a)]
    BY <1>1, <2>1
  <2> QED
    BY <2>1, <2>2
<1> QED
  BY <1>1, <1>2, <1>3, <1>4 DEF c

\* What runs over other lines loses numbers; it shows none anew and none twice.
LEMMA OverrunPlaces ==
  ASSUME NEW f \in Seq(Line), NEW lines \in Seq(Line), lines # <<>>,
         \A i \in DOMAIN lines : i # 1 => lines[i] = Junk,
         NEW g \in Overrun(f, lines), NEW n \in Nums,
         \A a, b \in Found(f, n) : a = b
  PROVE  /\ Found(g, n) # {} => Found(f, n) # {}
         /\ \A a, b \in Found(g, n) : a = b
<1>1. /\ Len(f) \in Nat /\ DOMAIN f = 1..Len(f) /\ Len(lines) \in Nat \ {0}
      /\ DOMAIN lines = 1..Len(lines) /\ Head(lines) = lines[1]
  BY LenProperties, EmptySeq
<1>2. PICK i \in Found(f, Head(lines).num) :
        \E j \in i..Len(f) : g = SubSeq(f, 1, i - 1) \o lines \o SubSeq(f, j + 1, Len(f))
  BY DEF Overrun, FirstOf
<1>3. PICK j \in i..Len(f) : g = SubSeq(f, 1, i - 1) \o lines \o SubSeq(f, j + 1, Len(f))
  BY <1>2
<1>4. /\ i \in Nat /\ j \in Nat /\ 1 <= i /\ i <= j /\ j <= Len(f)
      /\ f[i].num = Head(lines).num
  BY <1>1, <1>2, <1>3 DEF Found
<1> DEFINE A == SubSeq(f, 1, i - 1)
           L == Len(lines)
           C == SubSeq(f, j + 1, Len(f))
<1>5. /\ A \in Seq(Line) /\ Len(A) = i - 1
      /\ \A a \in 1..(i - 1) : A[a] = f[a]
  BY <1>1, <1>4, SubSeqProperties
<1>6. /\ C \in Seq(Line) /\ Len(C) = Len(f) - j
      /\ \A a \in 1..(Len(f) - j) : C[a] = f[a + j]
  <2>1. /\ j + 1 \in Int /\ Len(f) \in Int /\ \A a \in (j + 1)..Len(f) : f[a] \in Line
    BY <1>1, <1>4
  <2>2. /\ C \in Seq(Line)
        /\ Len(C) = IF j + 1 <= Len(f) THEN Len(f) - (j + 1) + 1 ELSE 0
        /\ \A a \in 1..(Len(f) - (j + 1) + 1) : C[a] = f[j + 1 + a - 1]
    BY <2>1, SubSeqProperties
  <2> HIDE DEF C
  <2>3. Len(C) = Len(f) - j /\ Len(f) - (j + 1) + 1 = Len(f) - j
    <3> DEFINE F == Len(f)
    <3>1. F \in Nat /\ j \in Nat /\ j <= F
      BY <1>1, <1>4
    <3>2. Len(C) = IF j + 1 <= F THEN F - (j + 1) + 1 ELSE 0
      BY <2>2
    <3> HIDE DEF F
    <3>3. Len(C) = F - j /\ F - (j + 1) + 1 = F - j
      BY <3>1, <3>2
    <3> QED
      BY <3>3 DEF F
  <2>4. ASSUME NEW a \in 1..(Len(f) - j) PROVE C[a] = f[a + j]
    <3>1. j + 1 + a - 1 = a + j
      BY <1>4
    <3> QED
      BY <2>2, <2>3, <3>1
  <2> QED
    BY <2>2, <2>3, <2>4
<1> HIDE DEF A, C
<1>7. /\ A \o lines \in Seq(Line) /\ Len(A \o lines) = i - 1 + L
      /\ \A a \in 1..(i - 1) : (A \o lines)[a] = f[a]
      /\ \A a \in 1..L : (A \o lines)[i - 1 + a] = lines[a]
  <2>1. /\ A \o lines \in Seq(Line) /\ Len(A \o lines) = Len(A) + L
        /\ \A a \in 1..Len(A) : (A \o lines)[a] = A[a]
        /\ \A a \in 1..L : (A \o lines)[Len(A) + a] = lines[a]
    BY <1>5, ConcatPlaces
  <2> QED
    BY <1>5, <2>1
<1> DEFINE B == A \o lines
<1>8. /\ g = B \o C
      /\ B \in Seq(Line) /\ Len(B) = i - 1 + L
  BY <1>3, <1>7 DEF A, C
<1> HIDE DEF B
<1>9. /\ DOMAIN g = 1..(i - 1 + L + (Len(f) - j))
      /\ \A a \in 1..(i - 1 + L) : g[a] = B[a]
      /\ \A a \in 1..(Len(f) - j) : g[i - 1 + L + a] = f[a + j]
  <2>1. /\ DOMAIN (B \o C) = 1..(Len(B) + Len(C))
        /\ \A a \in 1..Len(B) : (B \o C)[a] = B[a]
        /\ \A a \in 1..Len(C) : (B \o C)[Len(B) + a] = C[a]
    BY <1>6, <1>8, ConcatPlaces
  <2> QED
    BY <1>6, <1>8, <2>1
<1> DEFINE Old(a) == IF a <= i THEN a ELSE a - (i - 1 + L) + j
<1>10. ASSUME NEW a \in Found(g, n)
       PROVE  /\ a \in Nat /\ (a <= i \/ a > i - 1 + L)
              /\ Old(a) \in Found(f, n)
  <2>1. a \in DOMAIN g /\ g[a].num = n
    BY DEF Found
  <2>2. a \in Nat /\ 1 <= a /\ a <= i - 1 + L + (Len(f) - j)
    BY <1>1, <1>4, <1>9, <2>1
  <2>3. CASE a < i
    <3>1. a \in 1..(i - 1) /\ a \in 1..(i - 1 + L)
      BY <1>1, <1>4, <2>2, <2>3
    <3>2. g[a] = f[a]
      BY <1>7, <1>9, <3>1 DEF B
    <3> QED
      BY <1>1, <1>4, <2>1, <2>2, <2>3, <3>2 DEF Found
  <2>4. CASE a = i
    <3>1. a \in 1..(i - 1 + L) /\ 1 \in 1..L /\ i - 1 + 1 = a
      BY <1>1, <1>4, <2>2, <2>4
    <3>2. g[a] = lines[1]
      BY <1>7, <1>9, <3>1 DEF B
    <3> QED
      BY <1>1, <1>4, <2>1, <2>2, <2>4, <3>2 DEF Found
  <2>5. CASE i < a /\ a <= i - 1 + L
    <3> DEFINE b == a - (i - 1)
    <3>1. a \in 1..(i - 1 + L) /\ b \in 1..L /\ i - 1 + b = a /\ b # 1
      BY <1>1, <1>4, <2>2, <2>5
    <3> HIDE DEF b
    <3>2. g[a] = lines[b]
      BY <1>7, <1>9, <3>1 DEF B
    <3>3. lines[b] = Junk
      BY <1>1, <3>1
    <3>4. Junk.num = Garbled /\ Garbled # n
      BY DEF Junk, Bare
    <3> QED
      BY <2>1, <3>2, <3>3, <3>4
  <2>6. CASE a > i - 1 + L
    <3> DEFINE b == a - (i - 1 + L)
    <3>0. L \in Nat /\ 1 <= L
      BY <1>1
    <3>1. b \in 1..(Len(f) - j) /\ i - 1 + L + b = a /\ b + j \in 1..Len(f) /\ ~(a <= i)
      <4> HIDE DEF L
      <4> QED
        BY <1>1, <1>4, <2>2, <2>6, <3>0
    <3>2. Old(a) = b + j
      BY <1>4, <3>1
    <3> HIDE DEF b, Old
    <3>3. g[a] = f[b + j]
      BY <1>9, <3>1
    <3> QED
      BY <1>1, <2>1, <2>2, <2>6, <3>1, <3>2, <3>3 DEF Found
  <2> QED
    BY <1>1, <1>4, <2>2, <2>3, <2>4, <2>5, <2>6
<1>11. ASSUME NEW a \in Found(g, n), NEW b \in Found(g, n) PROVE a = b
  <2>1. /\ a \in Nat /\ b \in Nat
        /\ a <= i \/ a > i - 1 + L
        /\ b <= i \/ b > i - 1 + L
        /\ Old(a) = Old(b)
    BY <1>10, <1>11
  <2> QED
    BY <1>1, <1>4, <1>10, <2>1
<1> QED
  BY <1>10, <1>11

LEMMA SpillPlaces ==
  ASSUME NEW s \in Servers, file[s] \in Seq(Line), NEW cmd,
         NEW lines \in Seq(Line), lines # <<>>,
         \A i \in DOMAIN lines : i # 1 => lines[i] = Junk,
         NEW g \in Spills(s, cmd, lines), NEW n \in Nums,
         \A a, b \in Found(file[s], n) : a = b
  PROVE  /\ Found(g, n) # {} => Found(file[s], n) # {}
         /\ \A a, b \in Found(g, n) : a = b
<1>1. CASE g \in Overrun(file[s], lines)
  BY <1>1, OverrunPlaces
<1>2. CASE g = file[s]
  BY <1>2
<1>3. CASE g = file[s] \o Tail(lines)
  <2>1. /\ Len(lines) \in Nat \ {0} /\ DOMAIN lines = 1..Len(lines)
        /\ Tail(lines) \in Seq(Line) /\ DOMAIN Tail(lines) = 1..(Len(lines) - 1)
        /\ \A i \in 1..(Len(lines) - 1) : Tail(lines)[i] = lines[i + 1]
    BY LenProperties, HeadTailProperties, EmptySeq
  <2>2. \A i \in DOMAIN Tail(lines) : Tail(lines)[i] = Junk
    BY <2>1
  <2> QED
    BY <1>3, <2>1, <2>2, JunkPlaces
<1> QED
  BY <1>1, <1>2, <1>3 DEF Spills, Unended

\* So it can go with a multicast as if nothing had been saved.
LEMMA SpillLines ==
  ASSUME TypeOK, OneLine, NEW s \in Servers, NEW cmd, NEW lines \in Seq(Line), lines # <<>>,
         \A i \in DOMAIN lines : i # 1 => lines[i] = Junk,
         NEW g \in Spills(s, cmd, lines), file' = [file EXCEPT ![s] = g]
  PROVE  OneLine' /\ \A t \in Servers, n \in Nums : Holds(t, n)' => Holds(t, n)
<1>1. file \in [Servers -> Seq(Line)] /\ file[s] \in Seq(Line)
  BY DEF TypeOK
<1>2. file'[s] = g /\ \A t \in Servers : t # s => file'[t] = file[t]
  BY <1>1
<1>3. ASSUME NEW n \in Nums
      PROVE  /\ Found(g, n) # {} => Found(file[s], n) # {}
             /\ \A a, b \in Found(g, n) : a = b
  <2>1. \A a, b \in Found(file[s], n) : a = b
    BY DEF OneLine
  <2> QED
    BY <1>1, <2>1, SpillPlaces
<1> QED
  BY <1>2, <1>3 DEF OneLine, Holds

LEMMA SaveSpillsNext ==
  ASSUME NEW w, Workers = {w}, Inv, OnePlace(w), SaveSpills(w)
  PROVE  OnePlace(w)'
<1> DEFINE c == client[job[w].usr]
           j == [job[w] EXCEPT !.answer = "WROTE"]
           m == Msg("END SUCCESS", Bare(job[w].num))
<1>1. pc[w] = "save" /\ UNCHANGED <<client, msgNumber, toPeer>>
  BY DEF SaveSpills, Saved, netVars, userVars
<1>2. PICK f \in Spills(Master, c.cmd, <<c.line>>) :
        /\ file' = [file EXCEPT ![Master] = f]
        /\ Go(w, "send", Sending(j, m, "IDLE", "reply"))
  BY Zenon DEF SaveSpills, Saved
<1>3. c.line \in Line /\ Master \in Servers /\ TypeOK /\ OneLine
  <2>1. TypeOK /\ OneLine /\ job[w].usr \in Users
    BY WorkerType DEF Inv, OnePlace
  <2> QED
    BY <2>1, ClientType
<1>4. \A n : ~Carries(m, n)
  BY NotWrite DEF m
<1>5. j \in Job /\ j.usr = job[w].usr
  <2>1. j \in Job
    BY WorkerType, SetJob DEF Verdicts
  <2> QED
    BY <2>1, WorkerType DEF Job
<1>6. OneLine' /\ \A t \in Servers, n \in Nums : Holds(t, n)' => Holds(t, n)
  <2>1. <<c.line>> \in Seq(Line) /\ <<c.line>> # <<>> /\ \A i \in DOMAIN <<c.line>> : i = 1
    BY <1>3
  <2> HIDE DEF c
  <2> QED
    BY <1>2, <1>3, <2>1, SpillLines
<1> HIDE DEF c, j, m
<1>7. /\ pc'[w] = "send" /\ job'[w].msg = m /\ job'[w].ret = "reply"
      /\ job'[w].usr = job[w].usr
  BY <1>2, <1>5, WorkerType, SendingFields
<1>8. /\ ~AtCommit(pc[w], job[w]) /\ ~AfterSave(pc[w], job[w])
      /\ ~AtCommit(pc'[w], job'[w]) /\ AfterSave(pc'[w], job'[w])
  BY <1>1, <1>7 DEF AtCommit, AfterSave, Called
<1>9. FewerUser(w)
  BY <1>1, <1>8, SameUsers
<1>10. FewerPeer(w) /\ OneMessage'
  BY <1>1, <1>4, <1>7, SameMessages DEF OnePlace, FewerPeer, ToSend
<1>11. FoundWaiting(w)'
  BY <1>7, <1>8 DEF FoundWaiting
<1> QED
  BY <1>1, <1>6, <1>9, <1>10, <1>11, FewerLines

LEMMA MergedPlaces ==
  ASSUME NEW line \in Line, NEW k \in 1..MaxRecv
  PROVE  /\ <<line>> \o Rest(k) \in Seq(Line) /\ <<line>> \o Rest(k) # <<>>
         /\ \A i \in DOMAIN (<<line>> \o Rest(k)) : i # 1 => (<<line>> \o Rest(k))[i] = Junk
<1> DEFINE R == Rest(k)
           O == <<line>>
           h == O \o R
<1>1. /\ R \in Seq(Line) /\ \A i \in DOMAIN R : R[i] = Junk
  BY RestType DEF Rest
<1>2. O \in Seq(Line) /\ Len(O) = 1
  OBVIOUS
<1> HIDE DEF O, R
<1>3. /\ h \in Seq(Line) /\ Len(h) = 1 + Len(R)
      /\ \A i \in 1..Len(R) : h[1 + i] = R[i]
  BY <1>1, <1>2, ConcatPlaces
<1>4. Len(R) \in Nat /\ DOMAIN R = 1..Len(R) /\ DOMAIN h = 1..Len(h)
  BY <1>1, <1>3, LenProperties
<1> HIDE DEF h
<1>5. h # <<>>
  BY <1>3, <1>4, EmptySeq
<1>6. ASSUME NEW i \in DOMAIN h, i # 1 PROVE h[i] = Junk
  <2>1. i - 1 \in 1..Len(R) /\ 1 + (i - 1) = i
    BY <1>3, <1>4, <1>6
  <2> QED
    BY <1>1, <1>3, <1>4, <2>1
<1> QED
  BY <1>3, <1>5, <1>6 DEF h, O, R

LEMMA PeerCommitSpillsNext ==
  ASSUME NEW w, Workers = {w}, Inv, OnePlace(w), NEW p \in Peers, NEW k \in 1..MaxRecv,
         PeerCommitSpills(p, k)
  PROVE  OnePlace(w)'
<1> DEFINE m == Head(toPeer[p])
           lines == <<m.line>> \o Rest(k)
<1>1. /\ UNCHANGED <<pc, job, client, msgNumber>> /\ k <= Len(toPeer[p])
      /\ OneMessage /\ OneLine /\ TypeOK
  BY DEF PeerCommitSpills, MayRecv, workerVars, userVars, OnePlace, Inv
<1>1a. p \in Servers
  OBVIOUS
<1>2. PICK f \in Spills(p, CmdOf(m), lines) :
        file' = [file EXCEPT ![p] = f] /\ Received(p, k)
  BY Zenon DEF PeerCommitSpills, Committed
<1>3. m \in ToPeer
  BY <1>1, HeadType
<1>4. m.line \in Line
  BY <1>3 DEF ToPeer
<1>5. /\ lines \in Seq(Line) /\ lines # <<>>
      /\ \A i \in DOMAIN lines : i # 1 => lines[i] = Junk
  BY <1>4, MergedPlaces
<1>6. OneLine' /\ \A t \in Servers, n \in Nums : Holds(t, n)' => Holds(t, n)
  <2> HIDE DEF lines, m
  <2> QED
    BY <1>1, <1>1a, <1>2, <1>5, SpillLines
<1>7. OneMessage' /\ \A r \in Peers, n \in Nums : Sent(r, n)' => Sent(r, n)
  BY <1>1, <1>2, ReceivedLess
<1>8. FewerUser(w) /\ FoundWaiting(w)' /\ \A r \in Peers, n \in Nums : ToSend(w, r, n)' <=> ToSend(w, r, n)
  BY <1>1, SameUsers DEF OnePlace, FoundWaiting, ToSend
<1> QED
  BY <1>1, <1>6, <1>7, <1>8, FewerLines DEF FewerPeer

LEMMA OnePlaceNext ==
  ASSUME NEW w, Workers = {w}, Inv, OnePlace(w), [Next]_vars
  PROVE  OnePlace(w)'
<1>1. CASE Step(w)
  BY <1>1, BeforeCommitNext, SendNext, CalledNext, TakeEventNext, FoundNext, FailedNext,
     CommitNext, WaitSaveNext, SaveNext, ReplyNext, ClearNext DEF Step
<1>2. CASE Receive(w)
  BY <1>2, ReceiveNext
<1>3. CASE Command(w)
  BY <1>3, CommandNext
<1>4. ASSUME NEW p \in Peers, NEW k \in 1..MaxRecv, PeerCommit(p, k) PROVE OnePlace(w)'
  BY <1>4, PeerCommitNext
<1>5. ASSUME \/ MasterTimerFires
             \/ \E p \in Peers : PeerRecv(p) \/ SlaveTimeout(p) \/ PeerCrash(p) \/ PeerStart(p)
             \/ UNCHANGED vars
      PROVE  OnePlace(w)'
  <2>1. UNCHANGED file \/ \E p \in Peers, k \in 1..MaxRecv : PeerCommit(p, k)
    BY <1>5 DEF PeerRecv, PeerPrecommit, PeerRefuses, PeerEnd, SlaveTimeout, PeerCrash,
       PeerStart, MasterTimerFires, vars
  <2> QED
    BY <1>4, <1>5, <2>1, OutsideNext
<1> QED
  BY <1>1, <1>2, <1>3, <1>5, SaveSpillsNext, PeerCommitSpillsNext
     DEF Next, Exchange, Spilling

LEMMA OnePlaceInit ==
  ASSUME NEW w, Workers = {w}, Init
  PROVE  OnePlace(w)
<1>1. \A n \in Nums : /\ \A u \in Users : ~Writes(u, n)
                      /\ \A s \in Servers : ~Holds(s, n)
                      /\ \A p \in Peers : ~Sent(p, n) /\ ~ToSend(w, p, n)
  <2>1. \A s \in Servers : file[s] = <<>>
    BY DEF Init
  <2> QED
    BY <2>1 DEF Init, Writes, Holds, Found, Sent, ToSend
<1>2. OneLine
  BY <1>1 DEF OneLine, Holds
<1>3. OneMessage
  BY DEF Init, OneMessage
<1>4. FoundWaiting(w)
  BY DEF Init, FoundWaiting, AtCommit, Called
<1> QED
  BY <1>1, <1>2, <1>3, <1>4 DEF OnePlace, OneWriter, Used, AtPeers, AtMaster, ToCommit, ToSave

\* With one worker, whatever the number of users, peers, crashes and timeouts: no
\* server stores two lines with one number. A command is multicast once and saved
\* once, however often its user's record is found waiting.
THEOREM NoDuplicateLineHolds ==
  ASSUME NEW w, Workers = {w}
  PROVE  Spec => []NoDuplicateLine
<1>1. Init => OnePlace(w)
  BY OnePlaceInit
<1>2. OnePlace(w) /\ Inv /\ [Next]_vars => OnePlace(w)'
  BY OnePlaceNext
<1>3. OnePlace(w) => NoDuplicateLine
  <2> SUFFICES ASSUME OnePlace(w), NEW s \in Servers, NEW n \in Nums
               PROVE  Cardinality(Found(file[s], n)) <= 1
    BY DEF NoDuplicateLine
  <2> DEFINE F == Found(file[s], n)
  <2>1. \A i, j \in F : i = j
    BY DEF OnePlace, OneLine
  <2> HIDE DEF F
  <2>2. CASE F = {}
    BY <2>2, FS_EmptySet DEF F
  <2>3. ASSUME NEW i \in F PROVE Cardinality(F) <= 1
    <3>1. F = {i}
      BY <2>1, <2>3
    <3>2. Cardinality({i}) = 1
      BY FS_Singleton, Zenon
    <3> QED
      BY <3>1, <3>2
  <2> QED
    BY <2>2, <2>3 DEF F
<1> QED
  BY <1>1, <1>2, <1>3, Invariant, PTL DEF Spec

-----------------------------------------------------------------------------
(* Every text keeps the number it was issued with. Where a line of a command is
   found, with a user that waits, in a COMMIT or in a file, its number is the one
   the command was given. *)

\* The line of one of the first n commands, whose numbers are f.
Known(f, n, l) == l.num \in Nums /\ l.text \in 1..n /\ f[l.text] = l.num

IsCommit(m) == m.kind \in {"COMMIT WRITE", "COMMIT REPLACE"}

\* What a user waits for is the latest command.
OwnCommand == \A u \in Users :
  /\ last[u] <= issued
  /\ client[u].state # "IDLE" => client[u].line.text = last[u]

LinesKnown(w, f) ==
  /\ \A u \in Users : client[u].state # "IDLE" => Known(f, issued, client[u].line)
  /\ IsCommit(job[w].msg) => Known(f, issued, job[w].msg.line)
  /\ \A p \in Peers : \A i \in DOMAIN toPeer[p] :
       IsCommit(toPeer[p][i]) => Known(f, issued, toPeer[p][i].line)
  /\ Unspilled => \A s \in Servers : \A m \in Messages(file[s]) : Known(f, issued, m)

TextsKnown(w) == \E f \in [Cmds -> Nums] : LinesKnown(w, f)

Recorded(w) == OwnCommand /\ TextsKnown(w)

\* The steps that change what a user waits for.
LEMMA ClientSteps ==
  ASSUME NEW w, Workers = {w}, [Next]_vars
  PROVE  UNCHANGED <<client, last, issued>> \/ Command(w) \/ WaitSave(w) \/ Clear(w)
<1>1. CASE Step(w)
  BY <1>1, Zenon DEF Step, Connect, Link, Connected, Send, Mark, Check, SetMaster, Post, Note, Once,
     TakeEvent, FindCommit, FindAbort, FindSave, FindUndo, Find, Commit,
     Refuse, Save, Saved, Reply, Undo, userVars
<1>2. CASE Receive(w)
  BY <1>2 DEF Receive, RecvReply, PeerClosed, userVars
<1>3. ASSUME NEW p \in Peers, PeerRecv(p) \/ SlaveTimeout(p) \/ PeerCrash(p) \/ PeerStart(p)
      PROVE  UNCHANGED <<client, last, issued>>
  BY <1>3 DEF PeerRecv, PeerPrecommit, PeerCommit, Committed, PeerRefuses, PeerEnd, SlaveTimeout,
     PeerCrash, PeerStart, userVars
<1>4. CASE MasterTimerFires \/ UNCHANGED vars
  BY <1>4 DEF MasterTimerFires, vars, userVars
<1>5. CASE Spilling
  BY <1>5 DEF Spilling, SaveSpills, Saved, PeerCommitSpills, userVars
<1> QED
  BY <1>1, <1>2, <1>3, <1>4, <1>5 DEF Next, Exchange

\* The steps that answer a user.
LEMMA VerdictSteps ==
  ASSUME NEW w, Workers = {w}, [Next]_vars
  PROVE  UNCHANGED verdict \/ Connected(w) \/ Refuse(w) \/ Reply(w) \/ Undo(w)
<1>1. CASE Step(w)
  BY <1>1, Zenon DEF Step, Connect, Link, Send, Mark, Check, SetMaster, Post, Note, Once,
     TakeEvent, FindCommit, FindAbort, FindSave, FindUndo, Find, Commit, WaitSave,
     Save, Saved, Clear, userVars
<1>2. CASE Receive(w) \/ Command(w)
  BY <1>2 DEF Receive, RecvReply, PeerClosed, Command, SubmitWrite, SubmitReplace, Submit, userVars
<1>3. ASSUME NEW p \in Peers, PeerRecv(p) \/ SlaveTimeout(p) \/ PeerCrash(p) \/ PeerStart(p)
      PROVE  UNCHANGED verdict
  BY <1>3 DEF PeerRecv, PeerPrecommit, PeerCommit, Committed, PeerRefuses, PeerEnd, SlaveTimeout,
     PeerCrash, PeerStart, userVars
<1>4. CASE MasterTimerFires \/ UNCHANGED vars
  BY <1>4 DEF MasterTimerFires, vars, userVars
<1>5. CASE Spilling
  BY <1>5 DEF Spilling, SaveSpills, Saved, PeerCommitSpills, userVars
<1> QED
  BY <1>1, <1>2, <1>3, <1>4, <1>5 DEF Next, Exchange

\* What is under way to a peer was under way before, or is sent.
LEMMA SentSteps ==
  ASSUME NEW w, Workers = {w}, Inv, [Next]_vars,
         NEW p \in Peers, NEW i \in DOMAIN toPeer'[p]
  PROVE  \/ \E j \in DOMAIN toPeer[p] : toPeer'[p][i] = toPeer[p][j]
         \/ toPeer'[p][i] = job[w].msg
<1>0. toPeer \in [Peers -> Seq(ToPeer)] /\ toPeer[p] \in Seq(ToPeer) /\ w \in Workers
  BY DEF Inv, TypeOK
<1>1. CASE UNCHANGED toPeer
  BY <1>1
<1>2. ASSUME NEW r \in Peers, toPeer' = [toPeer EXCEPT ![r] = <<>>]
      PROVE  \E j \in DOMAIN toPeer[p] : toPeer'[p][i] = toPeer[p][j]
  <2>1. r # p
    BY <1>0, <1>2
  <2> QED
    BY <1>0, <1>2, <2>1
<1>3. ASSUME NEW r \in Peers, NEW k \in 1..MaxRecv, k <= Len(toPeer[r]), Received(r, k)
      PROVE  \E j \in DOMAIN toPeer[p] : toPeer'[p][i] = toPeer[p][j]
  <2>1. CASE r = p
    <3> DEFINE q == SubSeq(toPeer[p], k + 1, Len(toPeer[p]))
    <3>1. toPeer'[p] = q
      BY <1>0, <1>3, <2>1 DEF Received
    <3>2. k \in Nat
      OBVIOUS
    <3>3. i + k \in DOMAIN toPeer[p] /\ q[i] = toPeer[p][i + k]
      BY <1>0, <1>3, <2>1, <3>1, <3>2, RestOfSeq
    <3> HIDE DEF q
    <3> QED
      BY <3>1, <3>3
  <2>2. CASE r # p
    <3>1. toPeer'[p] = toPeer[p]
      BY <1>0, <1>3, <2>2 DEF Received
    <3> QED
      BY <3>1
  <2> QED
    BY <2>1, <2>2
<1>4. CASE Send(w)
  <2>1. CASE toPeer' = [toPeer EXCEPT ![job[w].idx] = Append(@, job[w].msg)] /\ job[w].idx = p
    <3>1. toPeer'[p] = Append(toPeer[p], job[w].msg) /\ job[w].msg \in ToPeer
      BY <1>0, <2>1, WorkerType DEF Job
    <3>2. /\ DOMAIN toPeer'[p] = 1..(Len(toPeer[p]) + 1) /\ DOMAIN toPeer[p] = 1..Len(toPeer[p])
          /\ Len(toPeer[p]) \in Nat
          /\ toPeer'[p][Len(toPeer[p]) + 1] = job[w].msg
          /\ \A j \in 1..Len(toPeer[p]) : toPeer'[p][j] = toPeer[p][j]
      BY <1>0, <3>1, AppendProperties, LenProperties
    <3>3. i \in 1..Len(toPeer[p]) \/ i = Len(toPeer[p]) + 1
      BY <3>2
    <3> QED
      BY <3>2, <3>3
  <2>2. CASE toPeer' = [toPeer EXCEPT ![job[w].idx] = Append(@, job[w].msg)] /\ job[w].idx # p
    <3>1. toPeer'[p] = toPeer[p]
      BY <1>0, <2>2
    <3> QED
      BY <3>1
  <2> QED
    BY <1>1, <1>4, <2>1, <2>2 DEF Send
<1>5. CASE Connect(w)
  <2>1. UNCHANGED toPeer \/ toPeer' = [toPeer EXCEPT ![job[w].idx] = <<>>]
    BY <1>5 DEF Connect, Link, netVars
  <2> QED
    BY <1>1, <1>2, <2>1, WorkerType
<1>6. CASE Step(w)
  <2>1. UNCHANGED toPeer \/ Send(w) \/ Connect(w)
    BY <1>6, Zenon DEF Step, Link, Connected, Mark, Check, SetMaster, Post, Note, Once,
       TakeEvent, FindCommit, FindAbort, FindSave, FindUndo, Find, Commit, WaitSave,
       Refuse, Save, Saved, Reply, Undo, Clear, netVars
  <2> QED
    BY <1>1, <1>4, <1>5, <2>1
<1>7. CASE Receive(w) \/ Command(w) \/ MasterTimerFires \/ UNCHANGED vars
  BY <1>1, <1>7 DEF Receive, RecvReply, PeerClosed, Command, SubmitWrite, SubmitReplace, Submit,
     MasterTimerFires, vars, netVars
<1>8. ASSUME NEW r \in Peers, NEW k \in 1..MaxRecv,
             PeerPrecommit(r, k) \/ PeerCommit(r, k) \/ PeerRefuses(r, k) \/ PeerEnd(r, k)
      PROVE  \E j \in DOMAIN toPeer[p] : toPeer'[p][i] = toPeer[p][j]
  <2>1. \/ toPeer' = [toPeer EXCEPT ![r] = <<>>]
        \/ Received(r, k) /\ k <= Len(toPeer[r])
    BY <1>8, Zenon DEF PeerPrecommit, PeerCommit, Committed, PeerRefuses, PeerEnd, MayRecv, Dies
  <2> QED
    BY <1>2, <1>3, <2>1
<1>9. ASSUME NEW r \in Peers, SlaveTimeout(r) \/ PeerCrash(r) \/ PeerStart(r)
      PROVE  \E j \in DOMAIN toPeer[p] : toPeer'[p][i] = toPeer[p][j]
  <2>1. UNCHANGED toPeer \/ toPeer' = [toPeer EXCEPT ![r] = <<>>]
    BY <1>9 DEF SlaveTimeout, PeerCrash, PeerStart, Dies, netVars
  <2> QED
    BY <1>1, <1>2, <2>1
<1>10. CASE Spilling
  <2>1. CASE SaveSpills(w)
    BY <1>1, <2>1 DEF SaveSpills, Saved, netVars
  <2>2. ASSUME NEW r \in Peers, NEW k \in 1..MaxRecv, PeerCommitSpills(r, k)
        PROVE  \E j \in DOMAIN toPeer[p] : toPeer'[p][i] = toPeer[p][j]
    <3>1. Received(r, k) /\ k <= Len(toPeer[r])
      BY <2>2, Zenon DEF PeerCommitSpills, Committed, MayRecv
    <3> QED
      BY <1>3, <3>1
  <2> QED
    BY <1>10, <2>1, <2>2 DEF Spilling
<1> QED
  BY <1>6, <1>7, <1>8, <1>9, <1>10 DEF Next, Exchange, PeerRecv

LEMMA NoCommit ==
  ASSUME NEW kind \in {"PRECOMMIT", "ABORT", "END SUCCESS", "END UNSUCCESS"}, NEW line
  PROVE  ~IsCommit(Msg(kind, line))
BY Zenon DEF IsCommit, Msg

LEMMA FreshNoCommit == ~IsCommit(Fresh.msg)
<1>1. Fresh.msg = Msg("PRECOMMIT", NoLine)
  BY DEF Fresh, Msg
<1> QED
  BY <1>1, NoCommit

\* The message of a worker's multicast changes with the next multicast only.
LEMMA MsgSteps ==
  ASSUME NEW w, Workers = {w}, Inv, [Next]_vars, IsCommit(job'[w].msg)
  PROVE  \/ job'[w].msg = job[w].msg
         \/ Commit(w) /\ job'[w].msg.line = client[job[w].usr].line
<1>0. /\ w \in Workers /\ job[w] \in Job
      /\ \A l, j : Go(w, l, j) => job'[w] = IF l = "idle" THEN Fresh ELSE j
  BY WorkerType
<1>1. ASSUME NEW l, NEW j, Go(w, l, j) PROVE job'[w].msg = j.msg
  BY <1>0, <1>1, FreshNoCommit
<1>2. ASSUME NEW msg, NEW st, NEW ret, Multicast(w, msg, st, ret) PROVE job'[w].msg = msg
  BY <1>0, <1>1, <1>2, SendingFields DEF Multicast
<1>3. CASE Connect(w) \/ Link(w)
  <2>1. (\E ok : NextPeer(w, ok)) \/ Go(w, "link", job[w])
    BY <1>3 DEF Connect, Link
  <2>2. ASSUME NEW ok, NextPeer(w, ok) PROVE job'[w].msg = job[w].msg
    <3> DEFINE j == [job[w] EXCEPT !.ok = ok, !.idx = job[w].idx + 1]
               i == [job[w] EXCEPT !.ok = ok, !.idx = 1, !.st = "IDLE", !.ret = "connected"]
    <3>1. Go(w, "connect", j) \/ Go(w, "check", i)
      BY <2>2 DEF NextPeer
    <3>2. i.msg = job[w].msg /\ j.msg = job[w].msg
      BY <1>0 DEF Job
    <3> HIDE DEF i, j
    <3> QED
      BY <1>1, <3>1, <3>2
  <2> QED
    BY <1>1, <2>1, <2>2
<1>4. CASE Connected(w)
  <2>1. \/ Multicast(w, Msg("PRECOMMIT", NoLine), "M_PRECOMMIT_MULTICASTED", "idle")
        \/ Go(w, "idle", Fresh)
    BY <1>4 DEF Connected
  <2> QED
    BY <1>1, <1>2, <2>1, FreshNoCommit, NoCommit
<1>5. CASE Mark(w) \/ Check(w)
  <2>1. \E l : Go(w, l, [job[w] EXCEPT !.idx = @ + 1]) \/ Go(w, l, [job[w] EXCEPT !.idx = 1])
               \/ Go(w, l, job[w])
    BY <1>5 DEF Mark, Check, Advance
  <2> QED
    BY <1>0, <1>1, <2>1 DEF Job
<1>6. CASE Send(w) \/ SetMaster(w) \/ Post(w) \/ Once(w) \/ WaitSave(w)
  <2>1. \E l : Go(w, l, job[w]) \/ Go(w, l, Fresh)
    BY <1>6 DEF Send, SetMaster, Post, Once, WaitSave
  <2> QED
    BY <1>1, <2>1, FreshNoCommit
<1>7. CASE Note(w)
  <2>1. \E l : Go(w, l, [job[w] EXCEPT !.idx = 1])
    BY <1>7 DEF Note
  <2> QED
    BY <1>0, <1>1, <2>1 DEF Job
<1>8. CASE TakeEvent(w)
  <2>1. \/ UNCHANGED workerVars
        \/ Multicast(w, Msg("ABORT", NoLine), "IDLE", "findAbort")
        \/ \E l, n, b : Go(w, l, [job[w] EXCEPT !.num = n, !.unknown = b])
        \/ \E st : Go(w, "post", [job[w] EXCEPT !.st = st])
    BY <1>8 DEF TakeEvent
  <2>2. ASSUME NEW l, NEW n, NEW b, Go(w, l, [job[w] EXCEPT !.num = n, !.unknown = b])
        PROVE  job'[w].msg = job[w].msg
    <3>1. [job[w] EXCEPT !.num = n, !.unknown = b].msg = job[w].msg
      BY <1>0 DEF Job
    <3> QED
      BY <1>1, <2>2, <3>1
  <2>3. ASSUME NEW st, Go(w, "post", [job[w] EXCEPT !.st = st])
        PROVE  job'[w].msg = job[w].msg
    <3>1. [job[w] EXCEPT !.st = st].msg = job[w].msg
      BY <1>0 DEF Job
    <3> QED
      BY <1>1, <2>3, <3>1
  <2> QED
    BY <1>2, <2>1, <2>2, <2>3, NoCommit DEF workerVars
<1>9. CASE FindCommit(w) \/ FindAbort(w) \/ FindSave(w) \/ FindUndo(w)
  <2>1. \E l, u : Go(w, l, [job[w] EXCEPT !.usr = u]) \/ Go(w, l, Fresh)
    BY <1>9 DEF FindCommit, FindAbort, FindSave, FindUndo, Find
  <2> QED
    BY <1>0, <1>1, <2>1, FreshNoCommit DEF Job
<1>10. CASE Commit(w)
  <2>1. PICK k : Multicast(w, Msg(k, client[job[w].usr].line), "M_COMMITED", "waitSave")
    BY <1>10, Zenon DEF Commit
  <2>2. job'[w].msg = Msg(k, client[job[w].usr].line)
    BY <1>2, <2>1
  <2> QED
    BY <1>10, <2>2 DEF Msg
<1>11. CASE Refuse(w) \/ Reply(w) \/ Undo(w)
  <2>1. \E l : Go(w, "clear", [job[w] EXCEPT !.ret = l])
    BY <1>11 DEF Refuse, Reply, Undo
  <2> QED
    BY <1>0, <1>1, <2>1 DEF Job
<1>12. CASE Save(w) \/ SaveSpills(w)
  <2> DEFINE n == Bare(job[w].num)
  <2>0. TypeOK /\ Master \in Servers
    BY DEF ConstantsOK, Inv
  <2>1. file[Master] \in Seq(Line)
    BY <2>0 DEF TypeOK
  <2>2. PICK v \in Verdicts :
          Go(w, "send", Sending([job[w] EXCEPT !.answer = v],
                                Msg(IF v = "WROTE" THEN "END SUCCESS" ELSE "END UNSUCCESS", n),
                                "IDLE", "reply"))
    <3>1. "WROTE" \in Verdicts
      BY DEF Verdicts
    <3>2. \A r \in SaveResults(file[Master], client[job[w].usr].cmd, client[job[w].usr].line) :
            r.result \in Verdicts
      <4>1. client[job[w].usr].line \in Line
        BY <2>0, ClientType, WorkerType
      <4> QED
        BY <2>1, <4>1, SaveResultsType
    <3> QED
      BY <1>12, <3>1, <3>2, Zenon DEF Save, SaveSpills, Saved
  <2> DEFINE j == [job[w] EXCEPT !.answer = v]
  <2>3. PICK m : ~IsCommit(m) /\ Go(w, "send", Sending(j, m, "IDLE", "reply"))
    BY <2>2, NoCommit, Zenon
  <2>5. j \in Job
    BY <1>0, <2>2, SetJob
  <2> HIDE DEF j
  <2>6. Sending(j, m, "IDLE", "reply").msg = m
    BY <2>5, SendingFields
  <2> QED
    BY <1>1, <2>3, <2>6
<1>13. CASE Clear(w)
  <2>1. \/ Multicast(w, Msg("END UNSUCCESS", Bare(job[w].num)), "IDLE", "findUndo")
        \/ Go(w, job[w].ret, job[w])
    BY <1>13 DEF Clear
  <2> QED
    BY <1>1, <1>2, <2>1, NoCommit
<1>14. CASE Receive(w)
  <2>1. \/ UNCHANGED workerVars
        \/ \E p, st, n, b : Go(w, "note", [job[w] EXCEPT !.idx = p, !.st = st, !.num = n,
                                                       !.unknown = b])
    BY <1>14, ZenonT(40) DEF Receive, RecvReply, PeerClosed
  <2>2. ASSUME NEW p, NEW st, NEW n, NEW b,
               Go(w, "note", [job[w] EXCEPT !.idx = p, !.st = st, !.num = n, !.unknown = b])
        PROVE  job'[w].msg = job[w].msg
    <3>1. [job[w] EXCEPT !.idx = p, !.st = st, !.num = n, !.unknown = b].msg = job[w].msg
      BY <1>0 DEF Job
    <3> QED
      BY <1>1, <2>2, <3>1
  <2> QED
    BY <2>1, <2>2 DEF workerVars
<1>15. CASE Command(w)
  <2>1. \E u : Go(w, "connect", [job[w] EXCEPT !.usr = u])
    BY <1>15 DEF Command, SubmitWrite, SubmitReplace, Submit
  <2> QED
    BY <1>0, <1>1, <2>1 DEF Job
<1>16. ASSUME \/ MasterTimerFires
              \/ \E p \in Peers : PeerRecv(p) \/ SlaveTimeout(p) \/ PeerCrash(p) \/ PeerStart(p)
              \/ \E p \in Peers, k \in 1..MaxRecv : PeerCommitSpills(p, k)
              \/ UNCHANGED vars
       PROVE  UNCHANGED job
  <2>1. CASE \E p \in Peers, k \in 1..MaxRecv : PeerCommitSpills(p, k)
    BY <2>1 DEF PeerCommitSpills, workerVars
  <2> QED
    BY <1>16, <2>1, OutsideSteps DEF workerVars
<1> QED
  BY <1>3, <1>4, <1>5, <1>6, <1>7, <1>8, <1>9, <1>10, <1>11, <1>12, <1>13, <1>14, <1>15, <1>16
  DEF Next, Exchange, Spilling, Step

\* What a file holds after a save: nothing new, or the line in place of what had
\* its number.
LEMMA SaveMessages ==
  ASSUME NEW f \in Seq(Line), NEW cmd, NEW line \in Line, line.num \in Nums,
         NEW r \in SaveResults(f, cmd, line),
         \A i, j \in Found(f, line.num) : i = j,
         cmd = "WRITE" => Found(f, line.num) = {}
  PROVE  \/ r.file = f /\ r.result \in Verdicts \ {"WROTE"}
         \/ /\ r.result = "WROTE"
            /\ Messages(r.file) = {m \in Messages(f) : m.num # line.num} \cup {line}
            /\ cmd # "WRITE" => Found(f, line.num) # {}
<1>1. CASE r = [file |-> f, result |-> "ERROR"]
  BY <1>1 DEF Verdicts
<1>2. CASE r = [file |-> f, result |-> "UNKNOWN"]
  BY <1>2 DEF Verdicts
<1>3. CASE cmd = "WRITE" /\ r = [file |-> Append(f, line), result |-> "WROTE"]
  <2> DEFINE e == Len(f) + 1
             g == Append(f, line)
  <2>1. /\ DOMAIN g = DOMAIN f \cup {e} /\ e \notin DOMAIN f
        /\ g[e] = line /\ \A i \in DOMAIN f : g[i] = f[i]
    <3>1. /\ DOMAIN g = 1..e /\ DOMAIN f = 1..Len(f) /\ Len(f) \in Nat /\ g[e] = line
          /\ \A i \in 1..Len(f) : g[i] = f[i]
      BY AppendProperties, LenProperties
    <3> HIDE DEF g
    <3> QED
      BY <3>1, SMTT(30)
  <2> HIDE DEF e, g
  <2>2. \A i \in DOMAIN f : f[i].num # line.num
    BY <1>3 DEF Found
  <2>3. Messages(g) = {m \in Messages(f) : m.num # line.num} \cup {line}
    BY <2>1, <2>2 DEF Messages
  <2> QED
    BY <1>3, <2>3 DEF g
<1>4. ASSUME cmd # "WRITE", NEW i \in Found(f, line.num),
             r = [file |-> [f EXCEPT ![i] = line], result |-> "WROTE"]
      PROVE  r.result = "WROTE" /\ Found(f, line.num) # {}
             /\ Messages(r.file) = {m \in Messages(f) : m.num # line.num} \cup {line}
  <2> DEFINE g == [f EXCEPT ![i] = line]
  <2>1. i \in DOMAIN f /\ \A j \in DOMAIN f : f[j].num = line.num => j = i
    BY DEF Found
  <2>2. DOMAIN g = DOMAIN f /\ g[i] = line /\ \A j \in DOMAIN f : j # i => g[j] = f[j]
    BY <2>1
  <2> HIDE DEF g
  <2>3. ASSUME NEW m \in Messages(g)
        PROVE  m \in {a \in Messages(f) : a.num # line.num} \cup {line}
    <3>1. PICK j \in DOMAIN g : g[j].num \in Nums /\ m = g[j]
      BY DEF Messages
    <3> QED
      BY <2>1, <2>2, <3>1 DEF Messages
  <2>4. ASSUME NEW m \in Messages(f), m.num # line.num
        PROVE  m \in Messages(g)
    <3>1. PICK j \in DOMAIN f : f[j].num \in Nums /\ m = f[j]
      BY DEF Messages
    <3>2. j # i
      BY <2>4, <3>1 DEF Found
    <3> QED
      BY <2>2, <3>1, <3>2 DEF Messages
  <2>5. line \in Messages(g)
    BY <2>1, <2>2 DEF Messages
  <2>6. Messages(g) = {m \in Messages(f) : m.num # line.num} \cup {line}
    BY <2>3, <2>4, <2>5
  <2> QED
    BY <1>4, <2>6 DEF g
<1> QED
  BY <1>1, <1>2, <1>3, <1>4 DEF SaveResults, FirstOf

\* The master's save: the user's latest command, under its own number.
LEMMA SaveFacts ==
  ASSUME NEW w, Workers = {w}, Inv, OnePlace(w), OwnCommand, NEW f, LinesKnown(w, f), Save(w)
  PROVE  LET l == client[job[w].usr].line IN
         /\ l \in Line /\ Known(f, issued, l) /\ l.text = last[job[w].usr]
         /\ pc'[w] = "send" /\ job'[w].ret = "reply" /\ job'[w].usr = job[w].usr
         /\ \/ UNCHANGED file /\ job'[w].answer \in Verdicts \ {"WROTE"}
            \/ /\ job'[w].answer = "WROTE" /\ l.num <= msgNumber
               /\ Messages(file'[Master]) =
                    {m \in Messages(file[Master]) : m.num # l.num} \cup {l}
               /\ \A s \in Servers : s # Master => file'[s] = file[s]
<1> DEFINE x == job[w].usr
           c == client[x]
           l == c.line
           n == Bare(job[w].num)
           j(r) == [job[w] EXCEPT !.answer = r.result]
<1>0. TypeOK /\ Master \in Servers /\ x \in Users /\ w \in Workers /\ job[w] \in Job
  BY WorkerType DEF ConstantsOK, Inv
<1>1. l \in Line /\ file[Master] \in Seq(Line) /\ file \in [Servers -> Seq(Line)]
  BY <1>0, ClientType DEF TypeOK
<1>2. pc[w] = "save" /\ c.state = "U_WAITING_SAVE" /\ x \in Users
  BY WorkerType DEF Save, Saved, OnePlace, FoundWaiting
<1>3. Known(f, issued, l) /\ l.text = last[x]
  BY <1>2 DEF LinesKnown, OwnCommand
<1>4. PICK r \in SaveResults(file[Master], c.cmd, l) :
        /\ file' = [file EXCEPT ![Master] = r.file]
        /\ Go(w, "send", Sending(j(r), Msg(IF r.result = "WROTE" THEN "END SUCCESS"
                                           ELSE "END UNSUCCESS", n), "IDLE", "reply"))
  BY Zenon DEF Save, Saved
<1>5. PICK m : Go(w, "send", Sending(j(r), m, "IDLE", "reply"))
  BY <1>4
<1>6. j(r) \in Job /\ j(r).usr = x /\ j(r).answer = r.result
  <2>1. r.result \in Verdicts
    BY <1>1, SaveResultsType
  <2>2. j(r) \in Job
    BY <1>0, <2>1, SetJob
  <2> QED
    BY <1>0, <2>2 DEF Job
<1>7. \A i \in Job : Sending(i, m, "IDLE", "reply").answer = i.answer
  BY DEF Sending, Job
<1> HIDE DEF j
<1>8. /\ pc'[w] = "send" /\ job'[w].ret = "reply" /\ job'[w].usr = x
      /\ job'[w].answer = r.result
  BY <1>5, <1>6, <1>7, WorkerType, SendingFields
<1>9. l.num \in Nums /\ \A a, b \in Found(file[Master], l.num) : a = b
  BY <1>0, <1>3 DEF Known, OnePlace, OneLine
<1>10. c.cmd = "WRITE" => Found(file[Master], l.num) = {} /\ l.num <= msgNumber
  <2>1. c.cmd = "WRITE" => Writes(x, l.num) /\ ToSave(w, x, l.num)
    BY <1>2 DEF Writes, ToSave, HasSaved, AfterSave, Called
  <2> QED
    BY <1>0, <1>9, <2>1 DEF OnePlace, AtMaster, Used, Holds
<1>11. Found(file[Master], l.num) # {} => l.num <= msgNumber
  BY <1>0, <1>9 DEF OnePlace, Used, Holds
<1>12. \/ r.file = file[Master] /\ r.result \in Verdicts \ {"WROTE"}
       \/ /\ r.result = "WROTE"
          /\ Messages(r.file) = {a \in Messages(file[Master]) : a.num # l.num} \cup {l}
          /\ c.cmd # "WRITE" => Found(file[Master], l.num) # {}
  <2> DEFINE g == file[Master]
             v == c.cmd
  <2>1. /\ g \in Seq(Line) /\ l \in Line /\ l.num \in Nums /\ r \in SaveResults(g, v, l)
        /\ (\A a, b \in Found(g, l.num) : a = b) /\ (v = "WRITE" => Found(g, l.num) = {})
    BY <1>1, <1>9, <1>10
  <2> HIDE DEF g, v, l
  <2>2. \/ r.file = g /\ r.result \in Verdicts \ {"WROTE"}
        \/ /\ r.result = "WROTE"
           /\ Messages(r.file) = {a \in Messages(g) : a.num # l.num} \cup {l}
           /\ v # "WRITE" => Found(g, l.num) # {}
    BY <2>1, SaveMessages
  <2> QED
    BY <2>2 DEF g, v
<1>13. file'[Master] = r.file /\ \A s \in Servers : s # Master => file'[s] = file[s]
  BY <1>0, <1>1, <1>4
<1>14. CASE r.file = file[Master] /\ r.result \in Verdicts \ {"WROTE"}
  <2>1. UNCHANGED file
    BY <1>1, <1>4, <1>14
  <2> QED
    BY <1>1, <1>3, <1>8, <1>14, <2>1
<1>15. CASE /\ r.result = "WROTE"
            /\ Messages(r.file) = {a \in Messages(file[Master]) : a.num # l.num} \cup {l}
            /\ c.cmd # "WRITE" => Found(file[Master], l.num) # {}
  <2>1. l.num <= msgNumber
    BY <1>10, <1>11, <1>15
  <2> QED
    BY <1>1, <1>3, <1>8, <1>13, <1>15, <2>1
<1> QED
  BY <1>12, <1>14, <1>15

\* The lines that a peer stores beside the one of the COMMIT are no messages.
LEMMA JunkMessages ==
  ASSUME NEW f \in Seq(Line), NEW g \in Seq(Line), \A i \in DOMAIN g : g[i] = Junk
  PROVE  Messages(f \o g) = Messages(f)
<1> DEFINE h == f \o g
<1>1. /\ DOMAIN h = 1..(Len(f) + Len(g)) /\ DOMAIN f = 1..Len(f) /\ DOMAIN g = 1..Len(g)
      /\ Len(f) \in Nat /\ Len(g) \in Nat
      /\ \A i \in 1..Len(f) : h[i] = f[i]
      /\ \A i \in 1..(Len(f) + Len(g)) : i \notin 1..Len(f) => h[i] = g[i - Len(f)]
  BY ConcatProperties, LenProperties
<1>2. Junk.num \notin Nums
  BY DEF Junk, Bare, ConstantsOK
<1> HIDE DEF h
<1>3. ASSUME NEW i \in DOMAIN h, i \notin DOMAIN f PROVE h[i].num \notin Nums
  <2>1. i - Len(f) \in DOMAIN g /\ h[i] = g[i - Len(f)]
    BY <1>1, <1>3
  <2> QED
    BY <1>2, <2>1
<1>4. \A i \in DOMAIN f : i \in DOMAIN h /\ h[i] = f[i]
  BY <1>1
<1>5. \A m \in Messages(h) : m \in Messages(f)
  BY <1>3, <1>4 DEF Messages
<1>6. \A m \in Messages(f) : m \in Messages(h)
  BY <1>4 DEF Messages
<1> QED
  BY <1>5, <1>6 DEF h

\* A peer's save: a command that was sent, under its own number.
LEMMA PeerSaveFacts ==
  ASSUME NEW w, Workers = {w}, Inv, OnePlace(w), NEW f, LinesKnown(w, f),
         NEW p \in Peers, NEW k \in 1..MaxRecv, PeerCommit(p, k)
  PROVE  \/ UNCHANGED file
         \/ \E l \in Line :
              /\ Known(f, issued, l) /\ l.num <= msgNumber
              /\ Messages(file'[p]) = {m \in Messages(file[p]) : m.num # l.num} \cup {l}
              /\ \A s \in Servers : s # p => file'[s] = file[s]
<1> DEFINE m == Head(toPeer[p])
           l == m.line
           cmd == CmdOf(m)
           more(r) == IF r.result = "WROTE" THEN Rest(k) ELSE <<>>
<1>0. TypeOK /\ k <= Len(toPeer[p]) /\ 1 <= k /\ k \in Nat /\ IsCommit(m)
  <2>1. IsCommit(m) /\ k <= Len(toPeer[p])
    BY Zenon DEF PeerCommit, Committed, MayRecv, IsCommit
  <2>2. 1 <= k /\ k \in Nat
    BY DEF ConstantsOK
  <2> QED
    BY <2>1, <2>2 DEF Inv
<1>1. m \in ToPeer /\ m = toPeer[p][1] /\ 1 \in DOMAIN toPeer[p]
  <2>1. toPeer[p] \in Seq(ToPeer)
    BY <1>0 DEF TypeOK
  <2>2. Len(toPeer[p]) \in Nat /\ DOMAIN toPeer[p] = 1..Len(toPeer[p])
    BY <2>1, LenProperties
  <2>3. 1 \in DOMAIN toPeer[p]
    BY <1>0, <2>2
  <2>4. m = toPeer[p][1]
    BY <2>1, <2>3, EmptySeq
  <2> QED
    BY <1>0, <2>3, <2>4, HeadType
<1>2. Known(f, issued, l)
  BY <1>0, <1>1 DEF LinesKnown
<1>3. SUFFICES ASSUME NEW r \in SaveResults(file[p], cmd, l),
                      file' = [file EXCEPT ![p] = r.file \o more(r)]
               PROVE  \/ UNCHANGED file
                      \/ /\ l.num <= msgNumber
                         /\ Messages(file'[p]) =
                              {a \in Messages(file[p]) : a.num # l.num} \cup {l}
                         /\ \A s \in Servers : s # p => file'[s] = file[s]
  <2>1. l \in Line
    BY <1>1 DEF ToPeer
  <2>2. \/ UNCHANGED file
        \/ \E r \in SaveResults(file[p], cmd, l) :
             file' = [file EXCEPT ![p] = r.file \o more(r)]
    BY Zenon DEF PeerCommit, Committed
  <2> HIDE DEF m, cmd, more
  <2> QED
    BY <1>2, <1>3, <2>1, <2>2
<1>4. l \in Line /\ l.num \in Nums
  BY <1>1, <1>2 DEF ToPeer, Known
<1> HIDE DEF cmd
<1>5. file \in [Servers -> Seq(Line)] /\ file[p] \in Seq(Line) /\ p \in Servers
  <2>1. p \in Servers
    OBVIOUS
  <2> QED
    BY <1>0, <2>1 DEF TypeOK
<1>6. Rest(k) \in Seq(Line) /\ \A i \in DOMAIN Rest(k) : Rest(k)[i] = Junk
  BY RestType DEF Rest
<1>7. more(r) \in Seq(Line) /\ \A i \in DOMAIN more(r) : more(r)[i] = Junk
  <2>1. CASE r.result = "WROTE"
    BY <1>6, <2>1
  <2>2. CASE r.result # "WROTE"
    BY <2>2, EmptySeq
  <2> QED
    BY <2>1, <2>2
<1>8. r.result # "WROTE" => more(r) = <<>>
  OBVIOUS
<1> HIDE DEF more
<1>9. \A a, b \in Found(file[p], l.num) : a = b
  BY <1>4, <1>5 DEF OnePlace, OneLine
<1>10. cmd = "WRITE" => Found(file[p], l.num) = {} /\ l.num <= msgNumber
  <2>1. cmd = "WRITE" => Carries(m, l.num)
    BY Zenon DEF Carries, cmd, CmdOf
  <2>2. cmd = "WRITE" => Sent(p, l.num)
    BY <1>1, <2>1 DEF Sent
  <2> QED
    BY <1>4, <2>2 DEF OnePlace, AtPeers, Used, Holds
<1>11. Found(file[p], l.num) # {} => l.num <= msgNumber
  BY <1>4, <1>5 DEF OnePlace, Used, Holds
<1> HIDE DEF m, l
<1>12. \/ r.file = file[p] /\ r.result \in Verdicts \ {"WROTE"}
       \/ /\ r.result = "WROTE"
          /\ Messages(r.file) = {a \in Messages(file[p]) : a.num # l.num} \cup {l}
          /\ cmd # "WRITE" => Found(file[p], l.num) # {}
  <2> DEFINE g == file[p]
  <2>1. /\ g \in Seq(Line) /\ l \in Line /\ l.num \in Nums /\ r \in SaveResults(g, cmd, l)
        /\ (\A a, b \in Found(g, l.num) : a = b) /\ (cmd = "WRITE" => Found(g, l.num) = {})
    BY <1>4, <1>5, <1>9, <1>10
  <2> HIDE DEF g
  <2>2. \/ r.file = g /\ r.result \in Verdicts \ {"WROTE"}
        \/ /\ r.result = "WROTE"
           /\ Messages(r.file) = {a \in Messages(g) : a.num # l.num} \cup {l}
           /\ cmd # "WRITE" => Found(g, l.num) # {}
    BY <2>1, SaveMessages
  <2> QED
    BY <2>2 DEF g
<1>13. file'[p] = r.file \o more(r) /\ \A s \in Servers : s # p => file'[s] = file[s]
  BY <1>3, <1>5
<1>14. r.file \in Seq(Line)
  BY <1>4, <1>5, SaveResultsType
<1>15. CASE r.file = file[p] /\ r.result \in Verdicts \ {"WROTE"}
  <2>1. more(r) = <<>>
    BY <1>8, <1>15
  <2>2. r.file \o more(r) = file[p]
    BY <1>5, <1>15, <2>1, ConcatEmptySeq
  <2> QED
    BY <1>3, <1>5, <2>2
<1>16. CASE r.result = "WROTE"
            /\ Messages(r.file) = {a \in Messages(file[p]) : a.num # l.num} \cup {l}
            /\ (cmd # "WRITE" => Found(file[p], l.num) # {})
  <2>1. Messages(file'[p]) = Messages(r.file)
    BY <1>7, <1>13, <1>14, JunkMessages
  <2>2. l.num <= msgNumber
    BY <1>10, <1>11, <1>16
  <2> QED
    BY <1>13, <1>16, <2>1, <2>2
<1> QED
  BY <1>12, <1>15, <1>16

\* A user that waits after a step other than a command waited before, for the same.
LEMMA StillWaiting ==
  ASSUME NEW w, Workers = {w}, Inv, OnePlace(w), [Next]_vars, ~Command(w)
  PROVE  /\ UNCHANGED <<last, issued, msgNumber>>
         /\ \A u \in Users : client'[u].state # "IDLE" =>
              client[u].state # "IDLE" /\ client'[u].line = client[u].line
<1>0. client \in [Users -> Client] /\ job[w].usr \in Users
  BY WorkerType DEF Inv, TypeOK
<1>1. UNCHANGED msgNumber
  <2>1. CASE Step(w)
    BY <2>1, Zenon DEF Step, Connect, Link, Connected, Send, Mark, Check, SetMaster, Post, Note, Once,
       TakeEvent, FindCommit, FindAbort, FindSave, FindUndo, Find, Commit, WaitSave,
       Refuse, Save, Saved, Reply, Undo, Clear, userVars
  <2>2. CASE Receive(w)
    BY <2>2 DEF Receive, RecvReply, PeerClosed, userVars
  <2>3. CASE Spilling
    BY <2>3 DEF Spilling, SaveSpills, Saved, PeerCommitSpills, userVars
  <2>4. CASE ~Step(w) /\ ~Receive(w) /\ ~Spilling
    BY <2>4, OutsideSteps DEF Next, Exchange
  <2> QED
    BY <2>1, <2>2, <2>3, <2>4
<1>2. CASE UNCHANGED <<client, last, issued>>
  BY <1>1, <1>2
<1>3. CASE WaitSave(w)
  <2>1. client[job[w].usr].state = "U_WAITING_COMMIT"
    BY <1>3 DEF WaitSave, OnePlace, FoundWaiting, AtCommit
  <2>2. client' = [client EXCEPT ![job[w].usr].state = "U_WAITING_SAVE"]
    BY <1>3 DEF WaitSave
  <2>3. UNCHANGED <<last, issued>>
    BY <1>3 DEF WaitSave
  <2> QED
    BY <1>0, <1>1, <2>1, <2>2, <2>3 DEF Client
<1>4. CASE Clear(w)
  <2> DEFINE x == job[w].usr
             c == [client[x] EXCEPT !.state = "IDLE"]
             d == [c EXCEPT !.line = NoLine]
  <2>1. client' = [client EXCEPT ![x] = d] /\ UNCHANGED <<last, issued>>
    BY <1>0, <1>4 DEF Clear
  <2>2. c.state = "IDLE" /\ d.state = c.state
    BY <1>0 DEF Client
  <2> HIDE DEF c, d
  <2> QED
    BY <1>0, <1>1, <2>1, <2>2
<1> QED
  BY <1>2, <1>3, <1>4, ClientSteps

LEMMA LinesKnownStep ==
  ASSUME NEW w, Workers = {w}, Inv, OnePlace(w), OwnCommand, NEW f, LinesKnown(w, f),
         [Next]_vars, ~Command(w)
  PROVE  LinesKnown(w, f)'
<1>0. /\ UNCHANGED <<issued, msgNumber>>
      /\ \A u \in Users : client'[u].state # "IDLE" =>
           client[u].state # "IDLE" /\ client'[u].line = client[u].line
  BY StillWaiting
<1>1. \A u \in Users : client'[u].state # "IDLE" => Known(f, issued', client'[u].line)
  BY <1>0 DEF LinesKnown
<1>2. IsCommit(job'[w].msg) => Known(f, issued', job'[w].msg.line)
  <2>1. SUFFICES ASSUME IsCommit(job'[w].msg) PROVE Known(f, issued, job'[w].msg.line)
    BY <1>0
  <2>2. CASE Commit(w) /\ job'[w].msg.line = client[job[w].usr].line
    <3>1. client[job[w].usr].state = "U_WAITING_COMMIT" /\ job[w].usr \in Users
      BY <2>2, WorkerType DEF Commit, OnePlace, FoundWaiting
    <3> QED
      BY <2>2, <3>1 DEF LinesKnown
  <2>3. CASE job'[w].msg = job[w].msg
    BY <2>1, <2>3 DEF LinesKnown
  <2> QED
    BY <2>1, <2>2, <2>3, MsgSteps
<1>3. ASSUME NEW p \in Peers, NEW i \in DOMAIN toPeer'[p], IsCommit(toPeer'[p][i])
      PROVE  Known(f, issued', toPeer'[p][i].line)
  <2>1. CASE toPeer'[p][i] = job[w].msg
    BY <1>0, <1>3, <2>1 DEF LinesKnown
  <2>2. ASSUME NEW j \in DOMAIN toPeer[p], toPeer'[p][i] = toPeer[p][j]
        PROVE  Known(f, issued', toPeer'[p][i].line)
    BY <1>0, <1>3, <2>2 DEF LinesKnown
  <2> QED
    BY <2>1, <2>2, SentSteps
<1>4. ASSUME Unspilled'
      PROVE  \A s \in Servers : \A m \in Messages(file'[s]) : Known(f, issued', m)
  <2>0. Unspilled /\ [Exchange]_vars
    BY <1>4, SpilledSteps
  <2>1. ASSUME NEW x \in Servers, NEW l, Known(f, issued, l),
               Messages(file'[x]) = {m \in Messages(file[x]) : m.num # l.num} \cup {l},
               \A s \in Servers : s # x => file'[s] = file[s]
        PROVE  \A s \in Servers : \A m \in Messages(file'[s]) : Known(f, issued, m)
    <3>1. ASSUME NEW s \in Servers, NEW m \in Messages(file'[s]) PROVE Known(f, issued, m)
      <4>1. CASE s = x
        BY <2>0, <2>1, <3>1, <4>1 DEF LinesKnown
      <4>2. CASE s # x
        BY <2>0, <2>1, <3>1, <4>2 DEF LinesKnown
      <4> QED
        BY <4>1, <4>2
    <3> QED
      BY <3>1
  <2>2. CASE UNCHANGED file
    BY <2>0, <1>0, <2>2 DEF LinesKnown
  <2>3. CASE Save(w)
    <3>1. Master \in Servers
      BY DEF ConstantsOK
    <3> DEFINE l == client[job[w].usr].line
    <3>2. Known(f, issued, l) /\
          \/ UNCHANGED file
          \/ /\ Messages(file'[Master]) = {m \in Messages(file[Master]) : m.num # l.num} \cup {l}
             /\ \A s \in Servers : s # Master => file'[s] = file[s]
      BY <2>3, SaveFacts
    <3> HIDE DEF l
    <3> QED
      BY <1>0, <2>1, <2>2, <3>1, <3>2
  <2>4. ASSUME NEW p \in Peers, NEW k \in 1..MaxRecv, PeerCommit(p, k)
        PROVE  \A s \in Servers : \A m \in Messages(file'[s]) : Known(f, issued, m)
    <3>1. p \in Servers
      OBVIOUS
    <3> QED
      BY <1>0, <2>1, <2>2, <2>4, <3>1, PeerSaveFacts
  <2> QED
    BY <1>0, <2>0, <2>2, <2>3, <2>4, FileSteps
<1> QED
  BY <1>1, <1>2, <1>3, <1>4 DEF LinesKnown

LEMMA RecordedNext ==
  ASSUME NEW w, Workers = {w}, Inv, OnePlace(w), Recorded(w), [Next]_vars
  PROVE  Recorded(w)'
<1>0. PICK f \in [Cmds -> Nums] : LinesKnown(w, f)
  BY DEF Recorded, TextsKnown
<1>1. CASE ~Command(w)
  <2>1. LinesKnown(w, f)'
    BY <1>0, <1>1, LinesKnownStep DEF Recorded
  <2>2. OwnCommand'
    BY <1>1, StillWaiting DEF Recorded, OwnCommand
  <2> QED
    BY <2>1, <2>2 DEF Recorded, TextsKnown
<1>2. CASE Command(w)
  <2>1. PICK u, cmd, num :
          u \in Users /\ Submit(w, u, cmd, num) /\ (num \in Nums \/ (num = msgNumber + 1 /\ msgNumber' = num))
    BY <1>2 DEF Command, SubmitWrite, SubmitReplace
  <2>2. /\ issued \in Nat /\ issued' = issued + 1 /\ issued < MaxCmds /\ msgNumber \in 0..issued
        /\ issued' \in Cmds /\ num \in Nums
    BY <2>1, SMTT(30) DEF Submit, Inv, TypeOK
  <2>3. /\ UNCHANGED <<toPeer, file, spilled>> /\ last' = [last EXCEPT ![u] = issued']
        /\ client' = [client EXCEPT ![u] =
                        [state |-> "U_WAITING_COMMIT", cmd |-> cmd,
                         line |-> [num |-> num, text |-> issued']]]
        /\ Go(w, "connect", [job[w] EXCEPT !.usr = u])
    BY <2>1 DEF Submit, netVars
  <2>4. last \in [Users -> 0..MaxCmds] /\ client \in [Users -> Client]
    BY DEF Inv, TypeOK
  <2>5. /\ client'[u].line = [num |-> num, text |-> issued'] /\ last'[u] = issued'
        /\ \A v \in Users : v # u => client'[v] = client[v] /\ last'[v] = last[v]
    <3>1. u \in Users
      BY <2>1
    <3> QED
      BY <2>3, <2>4, <3>1
  <2>6. job'[w].msg = job[w].msg
    BY <2>3, WorkerType, SMTT(30) DEF Job
  <2>7. PICK g \in [Cmds -> Nums] :
          g[issued'] = num /\ \A c \in Cmds : c # issued' => g[c] = f[c]
    <3> DEFINE h == [f EXCEPT ![issued'] = num]
    <3>1. h \in [Cmds -> Nums] /\ h[issued'] = num /\ \A c \in Cmds : c # issued' => h[c] = f[c]
      BY <1>0, <2>2
    <3> HIDE DEF h
    <3> QED
      BY <3>1
  <2>8. ASSUME NEW l, Known(f, issued, l) PROVE Known(g, issued', l)
    <3>1. l.text \in 1..issued
      BY <2>8 DEF Known
    <3>2. l.text \in 1..issued' /\ l.text # issued' /\ l.text \in Cmds
      <4> DEFINE t == l.text
      <4>1. t \in 1..issued
        BY <3>1
      <4> HIDE DEF t
      <4>2. t \in 1..(issued + 1) /\ t # issued + 1 /\ t \in 1..MaxCmds
        BY <2>2, <4>1, SMTT(30) DEF ConstantsOK
      <4> QED
        BY <2>2, <4>2 DEF t
    <3>3. g[l.text] = f[l.text]
      BY <2>7, <3>2
    <3> QED
      BY <2>8, <3>2, <3>3 DEF Known
  <2>9. Known(g, issued', client'[u].line)
    <3>1. issued' \in 1..issued'
      BY <2>2
    <3> QED
      BY <2>2, <2>5, <2>7, <3>1 DEF Known
  <2>10. LinesKnown(w, g)'
    <3>1. \A v \in Users : client'[v].state # "IDLE" => Known(g, issued', client'[v].line)
      BY <1>0, <2>5, <2>8, <2>9 DEF LinesKnown
    <3>2. IsCommit(job'[w].msg) => Known(g, issued', job'[w].msg.line)
      BY <1>0, <2>6, <2>8 DEF LinesKnown
    <3>3. \A p \in Peers : \A i \in DOMAIN toPeer'[p] :
            IsCommit(toPeer'[p][i]) => Known(g, issued', toPeer'[p][i].line)
      BY <1>0, <2>3, <2>8 DEF LinesKnown
    <3>4. Unspilled' => \A s \in Servers : \A m \in Messages(file'[s]) : Known(g, issued', m)
      BY <1>0, <2>3, <2>8 DEF LinesKnown, Unspilled
    <3> QED
      BY <3>1, <3>2, <3>3, <3>4 DEF LinesKnown
  <2>11. OwnCommand'
    <3>1. ASSUME NEW v \in Users
          PROVE  last'[v] <= issued' /\ (client'[v].state # "IDLE" => client'[v].line.text = last'[v])
      <4>0. issued' \in Int /\ issued' <= issued'
        <5>1. issued + 1 \in Int /\ issued + 1 <= issued + 1
          BY <2>2
        <5> QED
          BY <2>2, <5>1
      <4>1. CASE v = u
        <5>1. client'[u].line.text = issued'
          BY <2>5
        <5>2. last'[u] = issued'
          BY <2>5
        <5> QED
          BY <4>0, <4>1, <5>1, <5>2
      <4>2. CASE v # u
        <5>1. last[v] <= issued /\ (client[v].state # "IDLE" => client[v].line.text = last[v])
          BY DEF Recorded, OwnCommand
        <5>2. last[v] <= issued + 1
          BY <2>2, <2>4, <5>1, SMTT(30)
        <5>3. client'[v] = client[v] /\ last'[v] = last[v]
          BY <2>5, <4>2
        <5> QED
          BY <2>2, <5>1, <5>2, <5>3
      <4> QED
        BY <4>1, <4>2
    <3> QED
      BY <3>1 DEF OwnCommand
  <2> QED
    BY <2>7, <2>10, <2>11 DEF Recorded, TextsKnown
<1> QED
  BY <1>1, <1>2

LEMMA RecordedInit == ASSUME NEW w, Workers = {w}, Init PROVE Recorded(w)
<1>1. OwnCommand
  BY DEF Init, OwnCommand
<1> DEFINE f == [c \in Cmds |-> c]
<1>2. f \in [Cmds -> Nums]
  OBVIOUS
<1> HIDE DEF f
<1>3. ~IsCommit(job[w].msg)
  BY FreshNoCommit DEF Init
<1>4. LinesKnown(w, f)
  BY <1>3 DEF Init, LinesKnown, Messages
<1> QED
  BY <1>1, <1>2, <1>4 DEF Recorded, TextsKnown

-----------------------------------------------------------------------------
(* Where the worker goes in a step, and for which user. *)

\* From the end of a command to the multicast of PRECOMMIT or the refusal.
AtConnect(l, j) == l \in {"connect", "link", "connected"} \/ (l \in Called /\ j.ret = "connected")

\* A user has been found, whose command will be answered.
AtAnswer(l, j) == l \in {"refuse", "undo", "save", "reply"} \/ (l \in Called /\ j.ret = "reply")

Alike(i, j) == i.usr = j.usr /\ i.ok = j.ok /\ i.answer = j.answer

\* In a loop over the peers, at its end, and back to the caller.
InCall(w) ==
  /\ pc[w] \in Called
  /\ Alike(job'[w], job[w]) /\ job'[w].ret = job[w].ret
  /\ \/ pc'[w] \in Called \cup {job[w].ret}
     \/ pc'[w] = "post" /\ job[w].ret \notin {"waitSave", "reply"}

\* The event is handled.
Done(w) ==
  /\ pc'[w] = "idle" /\ job'[w] = Fresh
  /\ pc[w] \notin {"save", "reply", "clear"}
  /\ pc[w] \in Called => job[w].ret = "idle"

Connects(w) ==
  /\ pc[w] \in {"connect", "link"} /\ AtConnect(pc'[w], job'[w])
  /\ job'[w].usr = job[w].usr
  /\ job'[w].ok = job[w].ok \/ \E p \in Peers : ~up[p]

Issues(w) ==
  /\ Command(w) /\ pc[w] = "idle"
  /\ pc'[w] = "connect" /\ job'[w].ok = job[w].ok

Saves(w) ==
  /\ Save(w) \/ SaveSpills(w)
  /\ pc[w] = "save"
  /\ pc'[w] = "send" /\ job'[w].ret = "reply"
  /\ job'[w].usr = job[w].usr /\ job'[w].ok = job[w].ok

Answers(w) ==
  /\ Refuse(w) \/ Reply(w) \/ Undo(w)
  /\ pc[w] \in {"refuse", "reply", "undo"}
  /\ pc'[w] = "clear" /\ Alike(job'[w], job[w])

Finds(w) ==
  /\ pc[w] \in {"findCommit", "findAbort", "findSave", "findUndo"}
  /\ pc'[w] \in {"commit", "refuse", "save", "undo"}
  /\ client[job'[w].usr].state # "IDLE" /\ UNCHANGED client
  /\ job'[w].ok = job[w].ok

\* To a search, an event, an answer of a peer, or a multicast other than END's.
GoesOn(w) ==
  /\ \/ pc[w] \in {"connected", "post", "note", "once", "idle", "commit", "waitSave"}
     \/ pc[w] = "clear" /\ Clear(w)
  /\ \/ pc'[w] \in {"once", "post", "findCommit", "findAbort", "findSave", "findUndo", "note"}
     \/ pc'[w] \in Called /\ job'[w].ret \in {"idle", "waitSave", "findAbort", "findUndo"}
  /\ job'[w].ok = job[w].ok

LEMMA Moves ==
  ASSUME NEW w, Workers = {w}, Inv, [Next]_vars
  PROVE  \/ UNCHANGED <<pc, job>>
         \/ InCall(w) \/ Done(w) \/ Connects(w) \/ Issues(w) \/ Saves(w) \/ Answers(w)
         \/ Finds(w) \/ GoesOn(w)
<1>0. /\ w \in Workers /\ job[w] \in Job /\ job[w].ret \in Returns
      /\ \A l, j : Go(w, l, j) => pc'[w] = l /\ job'[w] = IF l = "idle" THEN Fresh ELSE j
      /\ \A l, j : Go(w, l, j) /\ l # "idle" => pc'[w] = l /\ job'[w] = j
      /\ pc \in [Workers -> Labels] /\ Returning(pc[w], job[w])
  BY WorkerType DEF Inv, TypeOK
<1>1. \A msg, st, ret : Multicast(w, msg, st, ret) =>
        pc'[w] = "send" /\ job'[w].ret = ret /\ Alike(job'[w], job[w])
  <2>1. SUFFICES ASSUME NEW msg, NEW st, NEW ret, Go(w, "send", Sending(job[w], msg, st, ret))
                 PROVE  pc'[w] = "send" /\ job'[w].ret = ret /\ Alike(job'[w], job[w])
    BY DEF Multicast
  <2>2. pc'[w] = "send" /\ job'[w] = Sending(job[w], msg, st, ret)
    BY <1>0, <2>1
  <2> QED
    BY <1>0, <2>2 DEF Sending, Alike, Job
<1>2. CASE Connect(w) \/ Link(w)
  <2>1. ASSUME NEW ok, NextPeer(w, ok)
        PROVE  /\ AtConnect(pc'[w], job'[w]) /\ job'[w].usr = job[w].usr
               /\ job'[w].ok = ok
    <3> DEFINE j == [job[w] EXCEPT !.ok = ok, !.idx = job[w].idx + 1]
               i == [job[w] EXCEPT !.ok = ok, !.idx = 1, !.st = "IDLE", !.ret = "connected"]
    <3>1. Go(w, "connect", j) \/ Go(w, "check", i)
      BY <2>1 DEF NextPeer
    <3>2. /\ i.usr = job[w].usr /\ j.usr = job[w].usr /\ i.ret = "connected"
          /\ i.ok = ok /\ j.ok = ok
      BY <1>0 DEF Job
    <3> HIDE DEF i, j
    <3>3. /\ job'[w].usr = job[w].usr /\ job'[w].ok = ok
          /\ pc'[w] = "connect" \/ (pc'[w] = "check" /\ job'[w].ret = "connected")
      BY <1>0, <3>1, <3>2
    <3> QED
      BY <3>3 DEF AtConnect, Called
  <2>2. CASE Go(w, "link", job[w])
    <3>1. pc'[w] = "link" /\ job'[w] = job[w]
      BY <1>0, <2>2
    <3> QED
      BY <1>2, <3>1 DEF Connect, Link, Connects, AtConnect
  <2>3. ASSUME NextPeer(w, job[w].ok /\ srv[job[w].idx] # "DISCONNECT"),
               ~(srv[job[w].idx] = "DISCONNECT" /\ up[job[w].idx])
        PROVE  Connects(w)
    <3>1. job[w].ok \in BOOLEAN /\ job[w].idx \in Peers
      BY <1>0 DEF Job
    <3>2. job'[w].ok = job[w].ok \/ \E p \in Peers : ~up[p]
      BY <2>1, <2>3, <3>1
    <3> QED
      BY <1>2, <2>1, <2>3, <3>2 DEF Connects, Connect, Link
  <2>4. ASSUME NextPeer(w, job[w].ok) PROVE Connects(w)
    BY <1>2, <2>1, <2>4 DEF Connects, Connect, Link
  <2> QED
    BY <1>2, <2>2, <2>3, <2>4 DEF Connect, Link
<1>3. CASE Connected(w)
  <2>1. pc[w] = "connected" /\ \/ \E m : Multicast(w, m, "M_PRECOMMIT_MULTICASTED", "idle")
                               \/ Go(w, "idle", Fresh)
    BY <1>3 DEF Connected
  <2> QED
    BY <1>0, <1>1, <2>1 DEF Alike, Called, GoesOn, Done
<1>4. CASE Mark(w) \/ Check(w) \/ SetMaster(w) \/ Send(w)
  <2> DEFINE more == [job[w] EXCEPT !.idx = @ + 1]
             first == [job[w] EXCEPT !.idx = 1]
  <2>1. /\ more.ret = job[w].ret /\ Alike(more, job[w])
        /\ first.ret = job[w].ret /\ Alike(first, job[w])
    BY <1>0 DEF Job, Alike
  <2>2. /\ pc[w] \in Called
        /\ \/ \E l \in Called : Go(w, l, more) \/ Go(w, l, first) \/ Go(w, l, job[w])
           \/ Go(w, job[w].ret, job[w])
           \/ job[w].st \in ReplyStates /\ Go(w, "post", job[w])
    <3>1. CASE Mark(w)
      BY <3>1 DEF Mark, Advance, Called
    <3>2. CASE Check(w)
      BY <3>2 DEF Check, Advance, Called
    <3>3. CASE SetMaster(w)
      BY <3>3 DEF SetMaster, Called
    <3>4. CASE Send(w)
      BY <3>4 DEF Send, Called
    <3> QED
      BY <1>4, <3>1, <3>2, <3>3, <3>4
  <2> HIDE DEF more, first
  <2>3. ASSUME NEW l \in Called, Go(w, l, more) \/ Go(w, l, first) \/ Go(w, l, job[w])
        PROVE  pc'[w] \in Called /\ Alike(job'[w], job[w]) /\ job'[w].ret = job[w].ret
    BY <1>0, <2>1, <2>3 DEF Called, Alike
  <2>4. CASE Go(w, job[w].ret, job[w])
    BY <1>0, <2>2, <2>4 DEF Called, Alike, InCall, Done
  <2>5. CASE job[w].st \in ReplyStates /\ Go(w, "post", job[w])
    BY <1>0, <2>2, <2>5 DEF Returning, Alike, InCall
  <2> QED
    BY <2>2, <2>3, <2>4, <2>5 DEF InCall, Done
<1>5. CASE Post(w) \/ Note(w) \/ Once(w)
  <2>1. /\ pc[w] \in {"post", "note", "once"}
        /\ \/ Go(w, "idle", Fresh) \/ Go(w, "idle", job[w])
           \/ Go(w, "master", job[w]) /\ job[w].ret = "idle"
           \/ \E l \in {"once", "check"} : Go(w, l, [job[w] EXCEPT !.idx = 1]) /\ job[w].ret = "idle"
    <3>1. CASE Post(w)
      BY <3>1 DEF Post
    <3>2. CASE Note(w)
      BY <1>0, <3>2 DEF Note, Returning
    <3>3. CASE Once(w)
      BY <1>0, <3>3 DEF Once, Returning
    <3> QED
      BY <1>5, <3>1, <3>2, <3>3
  <2>2. [job[w] EXCEPT !.idx = 1].ret = job[w].ret /\ [job[w] EXCEPT !.idx = 1].ok = job[w].ok
    BY <1>0 DEF Job
  <2> QED
    BY <1>0, <2>1, <2>2 DEF Called, GoesOn, Done
<1>6. CASE TakeEvent(w)
  <2>1. pc[w] = "idle" /\
        \/ UNCHANGED workerVars
        \/ \E m : Multicast(w, m, "IDLE", "findAbort")
        \/ \E l \in {"findCommit", "findSave", "findUndo"} : \E n, b :
             Go(w, l, [job[w] EXCEPT !.num = n, !.unknown = b])
        \/ \E st : Go(w, "post", [job[w] EXCEPT !.st = st])
    BY <1>6 DEF TakeEvent, Handler
  <2>2. ASSUME NEW l \in {"findCommit", "findSave", "findUndo"}, NEW n, NEW b,
               Go(w, l, [job[w] EXCEPT !.num = n, !.unknown = b])
        PROVE  pc'[w] = l /\ job'[w].ok = job[w].ok
    <3> DEFINE j == [job[w] EXCEPT !.num = n, !.unknown = b]
    <3>1. j.ok = job[w].ok
      BY <1>0 DEF Job
    <3>2. Go(w, l, j) /\ l # "idle"
      BY <2>2
    <3> HIDE DEF j
    <3> QED
      BY <1>0, <3>1, <3>2
  <2>3. ASSUME NEW st, Go(w, "post", [job[w] EXCEPT !.st = st])
        PROVE  pc'[w] = "post" /\ job'[w].ok = job[w].ok
    <3>1. [job[w] EXCEPT !.st = st].ok = job[w].ok
      BY <1>0 DEF Job
    <3> QED
      BY <1>0, <2>3, <3>1
  <2> QED
    BY <1>0, <1>1, <2>1, <2>2, <2>3, ZenonT(40) DEF workerVars, Called, Alike, GoesOn
<1>7. ASSUME NEW loop \in {"findCommit", "findAbort", "findSave", "findUndo"},
             NEW st \in {"U_WAITING_COMMIT", "U_WAITING_SAVE"},
             NEW found \in {"commit", "refuse", "save", "undo"}, NEW nums, Find(w, loop, st, found, nums)
      PROVE  /\ pc[w] = loop /\ UNCHANGED client
             /\ \/ pc'[w] = "idle" /\ job'[w] = Fresh
                \/ /\ pc'[w] = found /\ job'[w].ok = job[w].ok
                   /\ client[job'[w].usr].state # "IDLE"
  <2>1. /\ pc[w] = loop /\ UNCHANGED client
        /\ \/ Go(w, "idle", Fresh)
           \/ \E u \in Waiting(st) : Go(w, found, [job[w] EXCEPT !.usr = u])
    BY <1>7 DEF Find, FirstOf, userVars
  <2>2. ASSUME NEW u \in Waiting(st), Go(w, found, [job[w] EXCEPT !.usr = u])
        PROVE  pc'[w] = found /\ job'[w].ok = job[w].ok /\ client[job'[w].usr].state # "IDLE"
    <3>1. [job[w] EXCEPT !.usr = u].usr = u /\ [job[w] EXCEPT !.usr = u].ok = job[w].ok
      BY <1>0 DEF Job
    <3>2. pc'[w] = found /\ job'[w] = [job[w] EXCEPT !.usr = u]
      BY <1>0, <2>2
    <3>3. client[u].state # "IDLE"
      BY DEF Waiting
    <3> QED
      BY <3>1, <3>2, <3>3
  <2> QED
    BY <1>0, <2>1, <2>2
<1>8. CASE FindCommit(w) \/ FindAbort(w) \/ FindSave(w) \/ FindUndo(w)
  BY <1>7, <1>8 DEF FindCommit, FindAbort, FindSave, FindUndo, Called, Finds, Done
<1>9. CASE Commit(w)
  <2>1. pc[w] = "commit" /\ \E m : Multicast(w, m, "M_COMMITED", "waitSave")
    BY <1>9, Zenon DEF Commit
  <2> QED
    BY <1>1, <2>1 DEF Called, Alike, GoesOn
<1>10. CASE WaitSave(w)
  BY <1>0, <1>10 DEF WaitSave, GoesOn
<1>11. CASE Refuse(w) \/ Reply(w) \/ Undo(w)
  <2>1. /\ pc[w] \in {"refuse", "reply", "undo"}
        /\ \E l : Go(w, "clear", [job[w] EXCEPT !.ret = l])
    BY <1>11 DEF Refuse, Reply, Undo
  <2>2. \A l : Alike([job[w] EXCEPT !.ret = l], job[w])
    BY <1>0 DEF Job, Alike
  <2> QED
    BY <1>0, <1>11, <2>1, <2>2 DEF Answers
<1>12. CASE Save(w) \/ SaveSpills(w)
  <2>1. pc[w] = "save" /\ \E v, m : Go(w, "send", Sending([job[w] EXCEPT !.answer = v], m, "IDLE", "reply"))
    BY <1>12, Zenon DEF Save, SaveSpills, Saved
  <2>2. \A v, m : LET j == Sending([job[w] EXCEPT !.answer = v], m, "IDLE", "reply")
                  IN  j.ret = "reply" /\ j.usr = job[w].usr /\ j.ok = job[w].ok
    BY <1>0 DEF Job, Sending
  <2> QED
    BY <1>0, <1>12, <2>1, <2>2 DEF Saves
<1>13. CASE Clear(w)
  <2>1. pc[w] = "clear" /\ job[w].ret \in {"findAbort", "findSave", "findUndo"} /\
        \/ \E m : Multicast(w, m, "IDLE", "findUndo")
        \/ Go(w, job[w].ret, job[w])
    BY <1>0, <1>13 DEF Clear, Returning
  <2> QED
    BY <1>0, <1>1, <1>13, <2>1 DEF Called, Alike, GoesOn
<1>14. CASE Receive(w)
  <2>1. pc[w] = "idle" /\
        \/ UNCHANGED workerVars
        \/ \E p, st, n, b : Go(w, "note", [job[w] EXCEPT !.idx = p, !.st = st, !.num = n,
                                                       !.unknown = b])
    BY <1>14 DEF Receive, RecvReply, PeerClosed
  <2>2. ASSUME NEW p, NEW st, NEW n, NEW b,
               Go(w, "note", [job[w] EXCEPT !.idx = p, !.st = st, !.num = n, !.unknown = b])
        PROVE  pc'[w] = "note" /\ job'[w].ok = job[w].ok
    <3> DEFINE j == [job[w] EXCEPT !.idx = p, !.st = st, !.num = n, !.unknown = b]
    <3>1. j.ok = job[w].ok
      BY <1>0 DEF Job
    <3> HIDE DEF j
    <3> QED
      BY <1>0, <2>2, <3>1 DEF j
  <2> QED
    BY <2>1, <2>2 DEF workerVars, GoesOn
<1>15. CASE Command(w)
  <2>1. pc[w] = "idle" /\ \E u : Go(w, "connect", [job[w] EXCEPT !.usr = u])
    BY <1>15 DEF Command, SubmitWrite, SubmitReplace, Submit
  <2>2. \A u : [job[w] EXCEPT !.usr = u].ok = job[w].ok
    BY <1>0 DEF Job
  <2> QED
    BY <1>0, <1>15, <2>1, <2>2 DEF Issues
<1>16. ASSUME \/ MasterTimerFires
              \/ \E p \in Peers : PeerRecv(p) \/ SlaveTimeout(p) \/ PeerCrash(p) \/ PeerStart(p)
              \/ \E p \in Peers, k \in 1..MaxRecv : PeerCommitSpills(p, k)
              \/ UNCHANGED vars
       PROVE  UNCHANGED <<pc, job>>
  <2>1. CASE \E p \in Peers, k \in 1..MaxRecv : PeerCommitSpills(p, k)
    BY <2>1 DEF PeerCommitSpills, workerVars
  <2> QED
    BY <1>16, <2>1, OutsideSteps DEF workerVars
<1> QED
  BY <1>2, <1>3, <1>4, <1>5, <1>6, <1>8, <1>9, <1>10, <1>11, <1>12, <1>13, <1>14, <1>15, <1>16
  DEF Next, Exchange, Spilling, Step

-----------------------------------------------------------------------------
(* The exchange implements the replicated board. *)

\* What a command's user has been told, with the answer that the save decided.
LEMMA ToldAs ==
  ASSUME NEW w, Workers = {w}
  PROVE  /\ \A c : Told(c) = IF Decided(w) /\ last[job[w].usr] = c
                               THEN Append(verdict[c], job[w].answer) ELSE verdict[c]
         /\ \A c : Told(c)' = IF Decided(w)' /\ last'[job'[w].usr] = c
                               THEN Append(verdict'[c], job'[w].answer) ELSE verdict'[c]
<1>1. (CHOOSE v \in {w} : TRUE) = w
  OBVIOUS
<1>2. ASSUME NEW c
      PROVE  Told(c) = IF Decided(w) /\ last[job[w].usr] = c
                         THEN Append(verdict[c], job[w].answer) ELSE verdict[c]
  <2>1. Deciding(c) = IF Decided(w) /\ last[job[w].usr] = c THEN {w} ELSE {}
    BY DEF Deciding
  <2> QED
    BY <1>1, <2>1 DEF Told
<1>3. ASSUME NEW c
      PROVE  Told(c)' = IF Decided(w)' /\ last'[job'[w].usr] = c
                          THEN Append(verdict'[c], job'[w].answer) ELSE verdict'[c]
  <2>1. Deciding(c)' = IF Decided(w)' /\ last'[job'[w].usr] = c THEN {w} ELSE {}
    BY DEF Deciding
  <2> QED
    BY <1>1, <2>1 DEF Told
<1> QED
  BY <1>2, <1>3

\* A decision stays until the answer is sent.
LEMMA DecidedSteps ==
  ASSUME NEW w, Workers = {w}, Inv, [Next]_vars
  PROVE  /\ Command(w) \/ Connected(w) \/ Refuse(w) \/ Undo(w) => ~Decided(w) /\ ~Decided(w)'
         /\ Save(w) \/ SaveSpills(w) => ~Decided(w) /\ Decided(w)' /\ job'[w].usr = job[w].usr
         /\ Reply(w) => Decided(w) /\ ~Decided(w)'
         /\ ~Save(w) /\ ~SaveSpills(w) /\ ~Reply(w) =>
              (Decided(w)' <=> Decided(w)) /\ (Decided(w) => Alike(job'[w], job[w]))
<1>1. /\ Command(w) => pc[w] = "idle"
      /\ Connected(w) => pc[w] = "connected"
      /\ Refuse(w) => pc[w] = "refuse"
      /\ Undo(w) => pc[w] = "undo"
      /\ Save(w) \/ SaveSpills(w) => pc[w] = "save"
      /\ Reply(w) => pc[w] = "reply"
      /\ job[w].ret \in Returns
  BY WorkerType DEF Command, SubmitWrite, SubmitReplace, Submit, Connected, Refuse, Undo, Save, SaveSpills, Saved, Reply
<1>2. /\ Decided(w) <=> pc[w] = "reply" \/ (pc[w] \in Called /\ job[w].ret = "reply")
      /\ Decided(w)' <=> pc'[w] = "reply" \/ (pc'[w] \in Called /\ job'[w].ret = "reply")
  BY DEF Decided, Called
<1>3. CASE UNCHANGED <<pc, job>>
  <2>1. ~Save(w) /\ ~SaveSpills(w) /\ ~Reply(w)
    <3>1. Save(w) \/ SaveSpills(w) => \E j : Go(w, "send", j)
      BY Zenon DEF Save, SaveSpills, Saved
    <3>2. Reply(w) => \E j : Go(w, "clear", j)
      BY DEF Reply
    <3> QED
      BY <1>1, <1>3, <3>1, <3>2, WorkerType
  <2> QED
    BY <1>1, <1>2, <1>3, <2>1 DEF Alike, Called
<1>4. CASE InCall(w)
  BY <1>1, <1>2, <1>4 DEF InCall, Called, Returns
<1>5. CASE Done(w)
  BY <1>1, <1>2, <1>5 DEF Done, Called
<1>6. CASE Connects(w) \/ Issues(w)
  BY <1>1, <1>2, <1>6 DEF Connects, Issues, AtConnect, Called
<1>7. CASE Saves(w)
  BY <1>1, <1>2, <1>7 DEF Saves, Called
<1>8. CASE Answers(w)
  BY <1>1, <1>2, <1>8 DEF Answers, Called
<1>9. CASE Finds(w) \/ GoesOn(w)
  BY <1>1, <1>2, <1>9 DEF Finds, GoesOn, Called
<1> QED
  BY <1>3, <1>4, <1>5, <1>6, <1>7, <1>8, <1>9, Moves

LEMMA SameBoard ==
  ASSUME UNCHANGED <<issued, msgNumber, file>>, UNCHANGED Unspilled, \A c \in Cmds : Told(c)' = Told(c)
  PROVE  UNCHANGED Replica!boardVars
<1>1. [s \in Servers |-> Messages(file[s])]' = [s \in Servers |-> Messages(file[s])]
  OBVIOUS
<1>2. [c \in Cmds |-> Told(c)]' = [c \in Cmds |-> Told(c)]
  OBVIOUS
<1> QED
  BY <1>1, <1>2 DEF Replica!boardVars

LEMMA TellStep ==
  ASSUME NEW c \in Cmds, NEW v,
         \A d \in Cmds : Told(d)' = IF d = c THEN Append(Told(d), v) ELSE Told(d)
  PROVE  Replica!Tell(c, v)
<1>1. [d \in Cmds |-> Told(d)]' = [[d \in Cmds |-> Told(d)] EXCEPT ![c] = Append(@, v)]
  OBVIOUS
<1> QED
  BY <1>1 DEF Replica!Tell

\* A text that is stored has one number, since it had one when it was issued.
LEMMA PutStep ==
  ASSUME Inv, NEW f, \A s \in Servers : \A m \in Messages(file[s]) : Known(f, issued, m),
         NEW x \in Servers, NEW l \in Line, Known(f, issued, l), l.num <= msgNumber,
         Messages(file'[x]) = {m \in Messages(file[x]) : m.num # l.num} \cup {l},
         \A s \in Servers : s # x => file'[s] = file[s]
  PROVE  Replica!Put(x, l.num, l.text)
<1> DEFINE B == [s \in Servers |-> Messages(file[s])]
           n == l.num
           c == l.text
<1>1. n \in 1..msgNumber /\ c \in 1..issued
  <2>1. l.num \in Nums /\ l.text \in 1..issued
    BY DEF Known
  <2>2. msgNumber \in 0..issued /\ issued \in 0..MaxCmds
    BY DEF Inv, TypeOK
  <2> QED
    BY <2>1, <2>2, SMTT(30) DEF ConstantsOK
<1>2. \A t \in Servers : \A m \in B[t] : m.text = c => m.num = n
  BY DEF Known
<1>3. l = [num |-> n, text |-> c]
  BY DEF Line
<1>4. B' = [B EXCEPT ![x] = {m \in @ : m.num # n} \cup {[num |-> n, text |-> c]}]
  <2>1. \A s \in Servers : s # x => Messages(file'[s]) = Messages(file[s])
    OBVIOUS
  <2>2. Messages(file'[x]) = {m \in B[x] : m.num # n} \cup {[num |-> n, text |-> c]}
    BY <1>3
  <2> HIDE DEF n, c
  <2> QED
    BY <2>1, <2>2
<1> QED
  BY <1>1, <1>2, <1>4 DEF Replica!Put

\* An answer that no save has decided is an error.
LEMMA FailsStep ==
  ASSUME NEW w, Workers = {w}, Inv, OwnCommand, NEW u \in Users,
         NEW v \in Verdicts \ {"WROTE"}, Answer(u, v),
         ~Decided(w), ~Decided(w)', UNCHANGED <<issued, msgNumber, file>>,
         Unspilled, Unspilled'
  PROVE  [Replica!Next]_(Replica!boardVars)
<1>1. \A c \in Cmds : Told(c) = verdict[c] /\ Told(c)' = verdict'[c]
  BY ToldAs
<1>2. verdict \in [Cmds -> Seq(Verdicts)] /\ last[u] \in 0..MaxCmds /\ issued \in 0..MaxCmds
  BY DEF Inv, TypeOK
<1>3. CASE last[u] = 0
  <2>1. UNCHANGED verdict
    BY <1>3 DEF Answer
  <2> QED
    BY <1>1, <2>1, SameBoard
<1>4. CASE last[u] # 0
  <2> DEFINE c == last[u]
  <2>1. c \in 1..issued /\ c \in Cmds
    BY <1>2, <1>4 DEF OwnCommand
  <2>2. \A d \in Cmds : verdict'[d] = IF d = c THEN Append(verdict[d], v) ELSE verdict[d]
    BY <1>2, <1>4 DEF Answer
  <2> HIDE DEF c
  <2>3. Replica!Tell(c, v)
    BY <1>1, <2>1, <2>2, TellStep
  <2>4. UNCHANGED [s \in Servers |-> Messages(file[s])]
    OBVIOUS
  <2>5. Replica!Fails(c, v)
    BY <2>1, <2>3, <2>4 DEF Replica!Fails
  <2> QED
    BY <2>1, <2>5 DEF Replica!Next, Replica!Keeps, Unspilled
<1> QED
  BY <1>3, <1>4

\* The steps that neither store nor answer.
LEMMA QuietBoard ==
  ASSUME NEW w, Workers = {w}, Inv, OnePlace(w), [Next]_vars,
         ~Save(w), ~SaveSpills(w), ~Reply(w), UNCHANGED verdict, ~Command(w)
  PROVE  \A c \in Cmds : Told(c)' = Told(c)
<1>1. (Decided(w)' <=> Decided(w)) /\ (Decided(w) => Alike(job'[w], job[w]))
  BY DecidedSteps
<1>2. UNCHANGED last
  BY StillWaiting
<1> QED
  BY <1>1, <1>2, ToldAs DEF Alike

LEMMA IssueStep ==
  ASSUME NEW w, Workers = {w}, Inv, [Next]_vars, Command(w)
  PROVE  Replica!Issue
<1>1. /\ issued' = issued + 1 /\ issued < MaxCmds /\ UNCHANGED <<file, verdict>>
      /\ msgNumber' \in {msgNumber, msgNumber + 1}
  BY DEF Command, SubmitWrite, SubmitReplace, Submit
<1>2. issued' \in Cmds
  BY <1>1 DEF Inv, TypeOK
<1>3. \A c \in Cmds : Told(c)' = Told(c)
  BY <1>1, DecidedSteps, ToldAs
<1>4. UNCHANGED <<[s \in Servers |-> Messages(file[s])], [c \in Cmds |-> Told(c)]>>
  BY <1>1, <1>3
<1> QED
  BY <1>1, <1>2, <1>4 DEF Replica!Issue

LEMMA SaveStep ==
  ASSUME NEW w, Workers = {w}, Inv, OnePlace(w), OwnNumber(w), Recorded(w), [Exchange]_vars, Save(w),
         Unspilled, Unspilled'
  PROVE  Replica!Keeps
<1> DEFINE u == job[w].usr
           l == client[u].line
           v == job'[w].answer
<1>0. PICK f : LinesKnown(w, f)
  BY DEF Recorded, TextsKnown
<1>1. /\ l \in Line /\ Known(f, issued, l) /\ l.text = last[u]
      /\ \/ UNCHANGED file /\ v \in Verdicts \ {"WROTE"}
         \/ /\ v = "WROTE" /\ l.num <= msgNumber
            /\ Messages(file'[Master]) = {m \in Messages(file[Master]) : m.num # l.num} \cup {l}
            /\ \A s \in Servers : s # Master => file'[s] = file[s]
  BY <1>0, SaveFacts DEF Recorded
<1>2. /\ l.text \in 1..issued /\ l.text \in Cmds
  <2>1. issued \in 0..MaxCmds /\ l.text \in 1..issued
    BY <1>1 DEF Known, Inv, TypeOK
  <2> QED
    BY <2>1
<1>3. UNCHANGED <<last, verdict, issued, msgNumber>>
  BY DEF Save, Saved, userVars
<1>4. \A c \in Cmds : Told(c) = verdict[c] /\
        Told(c)' = IF c = l.text THEN Append(verdict[c], v) ELSE verdict[c]
  <2>1. ~Decided(w) /\ Decided(w)' /\ job'[w].usr = u
    <3>1. [Next]_vars
      BY DEF Next
    <3> QED
      BY <3>1, DecidedSteps
  <2>2. last'[u] = l.text
    BY <1>1, <1>3
  <2> HIDE DEF l, v
  <2> QED
    BY <1>3, <2>1, <2>2, ToldAs DEF v
<1>5. Replica!Tell(l.text, v)
  BY <1>2, <1>4, TellStep
<1> HIDE DEF v
<1>6. CASE UNCHANGED file /\ v \in Verdicts \ {"WROTE"}
  <2>1. UNCHANGED [s \in Servers |-> Messages(file[s])]
    BY <1>6
  <2>2. Replica!Fails(l.text, v)
    BY <1>2, <1>3, <1>5, <2>1 DEF Replica!Fails
  <2> QED
    BY <1>2, <1>6, <2>2 DEF Replica!Keeps
<1>7. CASE /\ v = "WROTE" /\ l.num <= msgNumber
           /\ Messages(file'[Master]) = {m \in Messages(file[Master]) : m.num # l.num} \cup {l}
           /\ \A s \in Servers : s # Master => file'[s] = file[s]
  <2> HIDE DEF l
  <2>1. Master \in Servers /\ l.num \in 1..msgNumber
    <3>1. l.num \in Nums /\ l.num <= msgNumber /\ msgNumber \in 0..issued /\ issued \in 0..MaxCmds
      BY <1>1, <1>7 DEF Known, Inv, TypeOK
    <3> QED
      BY <3>1 DEF ConstantsOK
  <2>2. Replica!Put(Master, l.num, l.text)
    <3>1. \A s \in Servers : \A m \in Messages(file[s]) : Known(f, issued, m)
      BY <1>0 DEF LinesKnown
    <3> QED
      BY <1>1, <1>7, <2>1, <3>1, PutStep
  <2>3. \E p \in Servers \ {Master} : \E m \in [s \in Servers |-> Messages(file[s])][p] :
          m.num = l.num
    <3>1. l.num = job[w].num /\ l.num \in Nums
      BY <1>1 DEF Save, Saved, OwnNumber, l, Known
    <3>2. Backing(Shown, l.num)
      BY <3>1, WorkerFacts DEF Backed, Save, Saved
    <3>3. PICK p \in Peers : Found(file[p], l.num) # {}
      <4>1. PICK p \in Peers : Found(Shown[p], l.num) # {}
        BY <3>1, <3>2 DEF Backing
      <4>2. p \in Servers
        OBVIOUS
      <4> QED
        BY <4>1, <4>2, AsShown
    <3>4. PICK i \in DOMAIN file[p] : file[p][i].num = l.num
      BY <3>3 DEF Found
    <3>5. file[p][i] \in Messages(file[p])
      BY <3>1, <3>4 DEF Messages
    <3>6. p \in Servers /\ p # Master
      OBVIOUS
    <3> QED
      BY <3>4, <3>5, <3>6
  <2>4. Replica!MasterStores(l.num, l.text)
    BY <1>3, <1>5, <1>7, <2>2, <2>3 DEF Replica!MasterStores
  <2> QED
    BY <1>2, <2>1, <2>4 DEF Replica!Keeps, l
<1> QED
  BY <1>1, <1>6, <1>7

\* Every step of the exchange is a step of the board, or none.
LEMMA ReplicaStep ==
  ASSUME NEW w, Workers = {w}, Inv, OnePlace(w), OwnNumber(w), Recorded(w), [Next]_vars
  PROVE  [Replica!Next]_(Replica!boardVars)
<1>a. CASE ~Unspilled'
  BY <1>a DEF Replica!Next, Replica!Spoil
<1>b. SUFFICES ASSUME Unspilled, Unspilled', [Exchange]_vars
               PROVE  [Replica!Next]_(Replica!boardVars)
  BY <1>a, SpilledSteps
<1>c. Replica!Keeps => Replica!Next
  BY <1>b DEF Replica!Next, Unspilled
<1>d. UNCHANGED Unspilled
  BY <1>b DEF Unspilled
<1>e. ~SaveSpills(w)
  BY <1>b DEF SaveSpills, Unspilled
<1>0. w \in Workers /\ job[w] \in Job /\ job[w].usr \in Users
  BY WorkerType
<1>1. CASE Command(w)
  BY <1>1, <1>c, IssueStep DEF Replica!Keeps
<1>2. CASE Save(w)
  BY <1>2, <1>b, <1>c, SaveStep
<1>3. CASE ~Command(w) /\ ~Save(w)
  <2>0. UNCHANGED <<issued, msgNumber>>
    BY <1>3, StillWaiting
  <2>1. CASE Reply(w)
    <3>1. UNCHANGED <<issued, msgNumber, file, last>> /\ Answer(job[w].usr, job[w].answer)
      BY <2>1 DEF Reply
    <3>2. verdict \in [Cmds -> Seq(Verdicts)]
      BY DEF Inv, TypeOK
    <3>3. \A c \in Cmds : verdict'[c] = IF last[job[w].usr] = c
                                          THEN Append(verdict[c], job[w].answer) ELSE verdict[c]
      BY <3>1, <3>2 DEF Answer
    <3>4. Decided(w) /\ ~Decided(w)'
      BY <2>1, DecidedSteps
    <3>5. \A c \in Cmds : Told(c)' = verdict'[c]
      BY <3>4, ToldAs
    <3>6. \A c \in Cmds : Told(c) = IF last[job[w].usr] = c
                                      THEN Append(verdict[c], job[w].answer) ELSE verdict[c]
      BY <3>4, ToldAs
    <3>7. \A c \in Cmds : Told(c)' = Told(c)
      BY <3>3, <3>5, <3>6, ZenonT(40)
    <3> QED
      BY <1>d, <2>0, <3>1, <3>7, SameBoard
  <2>2. ASSUME NEW v \in Verdicts \ {"WROTE"}, Answer(job[w].usr, v), UNCHANGED file,
               Connected(w) \/ Refuse(w) \/ Undo(w)
        PROVE  [Replica!Next]_(Replica!boardVars)
    BY <1>0, <1>b, <2>0, <2>2, DecidedSteps, FailsStep DEF Recorded
  <2>3. CASE Connected(w) \/ Refuse(w) \/ Undo(w)
    <3>1. UNCHANGED file
      BY <2>3 DEF Connected, Refuse, Undo
    <3>2. UNCHANGED verdict \/ \E v \in Verdicts \ {"WROTE"} : Answer(job[w].usr, v)
      <4>1. {"ERROR", "UNKNOWN"} = Verdicts \ {"WROTE"}
        BY DEF Verdicts
      <4> QED
        BY <2>3, <4>1 DEF Connected, Refuse, Undo
    <3> QED
      BY <1>3, <1>d, <1>e, <2>0, <2>1, <2>2, <2>3, <3>1, <3>2, QuietBoard, SameBoard
  <2>4. CASE UNCHANGED verdict /\ ~Reply(w)
    <3>1. \A c \in Cmds : Told(c)' = Told(c)
      BY <1>3, <1>e, <2>4, QuietBoard
    <3>2. CASE UNCHANGED file
      BY <1>d, <2>0, <3>1, <3>2, SameBoard
    <3>3. ASSUME NEW p \in Peers, NEW k \in 1..MaxRecv, PeerCommit(p, k)
          PROVE  [Replica!Next]_(Replica!boardVars)
      <4>1. PICK f : LinesKnown(w, f)
        BY DEF Recorded, TextsKnown
      <4>2. SUFFICES ASSUME NEW l \in Line, Known(f, issued, l), l.num <= msgNumber,
                            Messages(file'[p]) = {m \in Messages(file[p]) : m.num # l.num} \cup {l},
                            \A s \in Servers : s # p => file'[s] = file[s]
                     PROVE  Replica!Keeps
        BY <1>c, <3>2, <3>3, <4>1, PeerSaveFacts
      <4>3. p \in Servers /\ p # Master /\ l.num \in 1..msgNumber /\ l.text \in 1..issued
        BY <4>2, SMTT(30) DEF Known, Inv, TypeOK
      <4>4. Replica!Put(p, l.num, l.text)
        BY <1>b, <4>1, <4>2, <4>3, PutStep DEF LinesKnown
      <4>5. UNCHANGED [c \in Cmds |-> Told(c)]
        BY <3>1
      <4>6. Replica!PeerStores(p, l.num, l.text)
        BY <2>0, <4>3, <4>4, <4>5 DEF Replica!PeerStores
      <4> QED
        BY <4>3, <4>6 DEF Replica!Keeps
    <3> QED
      BY <1>3, <1>b, <3>2, <3>3, FileSteps
  <2> QED
    BY <2>1, <2>3, <2>4, VerdictSteps
<1> QED
  BY <1>1, <1>2, <1>3

LEMMA ReplicaInit == ASSUME NEW w, Workers = {w}, Init PROVE Replica!Init
<1>1. pc[w] = "idle"
  BY DEF Init
<1>2. \A c \in Cmds : Told(c) = <<>>
  BY <1>1, ToldAs DEF Init, Decided
<1>3. \A s \in Servers : Messages(file[s]) = {}
  BY DEF Init, Messages
<1> QED
  BY <1>2, <1>3 DEF Init, Replica!Init, Unspilled

\* With one worker, whatever the number of users, peers, crashes and timeouts: the
\* exchange implements the replicated board. Every message that a server stores is
\* a command under the number it was given, the master's is stored by a peer before,
\* and a user is told "3.0 WROTE" in the very step of the master's save; until a REPLACE
\* is written over more than its line.
THEOREM BoardReplicatedHolds ==
  ASSUME NEW w, Workers = {w}
  PROVE  Spec => BoardReplicated
<1>1. Init => Replica!Init /\ OnePlace(w) /\ OwnNumber(w) /\ Recorded(w)
  BY ReplicaInit, OnePlaceInit, RecordedInit DEF Init, OwnNumber
<1>2. Inv /\ OnePlace(w) /\ OwnNumber(w) /\ Recorded(w) /\ [Next]_vars
        => OnePlace(w)' /\ OwnNumber(w)' /\ Recorded(w)'
  BY OnePlaceNext, OwnNumberNext, RecordedNext
<1>3. Inv /\ OnePlace(w) /\ OwnNumber(w) /\ Recorded(w) /\ [Next]_vars
        => [Replica!Next]_(Replica!boardVars)
  BY ReplicaStep
<1> QED
  BY <1>1, <1>2, <1>3, Invariant, PTL DEF Spec, BoardReplicated, Replica!Spec

-----------------------------------------------------------------------------
(* A command is answered once. With one worker, what a user waits for has no
   answer yet, or the error of a command that was refused while a peer was down. *)

Unanswered(c) == verdict[c] = <<>> \/ (crashes > 0 /\ verdict[c] = <<"ERROR">>)

\* The answer has been sent and the record is not cleared yet.
Cleared(w, u) == pc[w] = "clear" /\ job[w].usr = u

\* A peer is down, or was found so, only if it has gone down before.
DownCounted(w) ==
  /\ \A p \in Peers : ~up[p] => crashes > 0
  /\ ~job[w].ok => crashes > 0

\* No two users have issued the same command, and none is answered in advance.
OneIssuer ==
  /\ \A u, v \in Users : last[u] = last[v] /\ last[u] # 0 => u = v
  /\ \A c \in Cmds : c > issued => verdict[c] = <<>>

\* What a user waits for.
AwaitedBy(w, u) == last[u] # 0 /\ (Unanswered(last[u]) \/ Cleared(w, u))

\* The commands that will be answered.
Awaited(w) ==
  /\ \A u \in Users : client[u].state # "IDLE" => AwaitedBy(w, u)
  /\ AtConnect(pc[w], job[w]) =>
       last[job[w].usr] # 0 /\ verdict[last[job[w].usr]] = <<>>
  /\ AtAnswer(pc[w], job[w]) => client[job[w].usr].state # "IDLE"

Answering(w) == DownCounted(w) /\ OneIssuer /\ Awaited(w) /\ AnsweredOnce

\* A peer goes down by itself only: no COMMIT with an empty number reaches it.
LEMMA DownStep ==
  ASSUME NEW w, Workers = {w}, Inv, Recorded(w), DownCounted(w), [Next]_vars
  PROVE  DownCounted(w)' /\ (crashes > 0 => crashes' > 0)
<1>0. /\ crashes \in Nat /\ up \in [Peers -> BOOLEAN]
      /\ TypeOK
  BY SMTT(30) DEF Inv, TypeOK, ConstantsOK
<1>1. \/ UNCHANGED <<up, crashes>>
      \/ crashes' = crashes + 1
      \/ UNCHANGED crashes /\ \E p \in Peers : up' = [up EXCEPT ![p] = TRUE]
  <2>1. CASE Step(w)
    BY <2>1, Zenon DEF Step, Connect, Link, Connected, Send, Mark, Check, SetMaster, Post, Note, Once,
       TakeEvent, FindCommit, FindAbort, FindSave, FindUndo, Find, Commit, WaitSave,
       Refuse, Save, Saved, Reply, Undo, Clear, peerVars
  <2>2. CASE Receive(w) \/ Command(w) \/ MasterTimerFires \/ UNCHANGED vars
    BY <2>2 DEF Receive, RecvReply, PeerClosed, Command, SubmitWrite, SubmitReplace, Submit,
       MasterTimerFires, vars, peerVars
  <2>3. ASSUME NEW p \in Peers, NEW k \in 1..MaxRecv,
               PeerPrecommit(p, k) \/ PeerRefuses(p, k) \/ PeerEnd(p, k)
        PROVE  UNCHANGED <<up, crashes>>
    BY <2>3, Zenon DEF PeerPrecommit, PeerRefuses, PeerEnd, peerVars
  <2>4. ASSUME NEW p \in Peers, NEW k \in 1..MaxRecv, PeerCommit(p, k)
        PROVE  UNCHANGED <<up, crashes>>
    <3> DEFINE m == Head(toPeer[p])
    <3>1. IsCommit(m) /\ k <= Len(toPeer[p]) /\ UNCHANGED crashes
      BY <2>4, Zenon DEF PeerCommit, Committed, MayRecv, IsCommit
    <3>2. m = toPeer[p][1] /\ 1 \in DOMAIN toPeer[p]
      <4>1. toPeer[p] \in Seq(ToPeer)
        BY <1>0 DEF TypeOK
      <4>2. Len(toPeer[p]) \in Nat /\ DOMAIN toPeer[p] = 1..Len(toPeer[p])
        BY <4>1, LenProperties
      <4>3. 1 \in DOMAIN toPeer[p]
        <5>1. k \in Nat /\ 1 <= k
          BY DEF ConstantsOK
        <5> QED
          BY <3>1, <4>2, <5>1
      <4> QED
        BY <4>1, <4>3, EmptySeq
    <3>3. m.line.num # NoNum
      <4>1. PICK f : LinesKnown(w, f)
        BY DEF Recorded, TextsKnown
      <4>2. m.line.num \in Nums
        BY <3>1, <3>2, <4>1 DEF LinesKnown, Known
      <4> QED
        BY <4>2
    <3>4. UNCHANGED up
      BY <2>4, <3>3, Zenon DEF PeerCommit, Committed
    <3> QED
      BY <3>1, <3>4
  <2>5. ASSUME NEW p \in Peers, SlaveTimeout(p) \/ PeerCrash(p) \/ PeerStart(p)
        PROVE  \/ UNCHANGED <<up, crashes>>
               \/ crashes' = crashes + 1
               \/ UNCHANGED crashes /\ up' = [up EXCEPT ![p] = TRUE]
    BY <2>5 DEF SlaveTimeout, PeerCrash, PeerStart
  <2>6. CASE Spilling
    BY <2>6 DEF Spilling, SaveSpills, Saved, PeerCommitSpills, Committed, peerVars
  <2> QED
    BY <2>1, <2>2, <2>3, <2>4, <2>5, <2>6 DEF Next, Exchange, PeerRecv
<1>2. crashes > 0 => crashes' > 0
  BY <1>0, <1>1
<1>3. \A p \in Peers : ~up'[p] => crashes' > 0
  <2>1. CASE crashes' = crashes + 1
    BY <1>0, <2>1
  <2>2. CASE UNCHANGED <<up, crashes>>
    BY <2>2 DEF DownCounted
  <2>3. ASSUME NEW r \in Peers, UNCHANGED crashes, up' = [up EXCEPT ![r] = TRUE]
        PROVE  \A p \in Peers : ~up'[p] => crashes' > 0
    BY <1>0, <2>3 DEF DownCounted
  <2> QED
    BY <1>1, <2>1, <2>2, <2>3
<1>4. job'[w].ok = job[w].ok \/ job'[w].ok \/ \E p \in Peers : ~up[p]
  <2>1. Fresh.ok
    BY DEF Fresh
  <2> QED
    BY <2>1, Moves DEF InCall, Done, Connects, Issues, Saves, Answers, Finds, GoesOn, Alike
<1>5. ~job'[w].ok => crashes' > 0
  BY <1>2, <1>4 DEF DownCounted
<1> QED
  BY <1>2, <1>3, <1>5 DEF DownCounted

\* Nobody is put in the place of the user whose command the worker carries out.
LEMMA PlaceSteps ==
  ASSUME NEW w, Workers = {w}, Inv, OnePlace(w), [Next]_vars, ~Command(w)
  PROVE  /\ AtConnect(pc'[w], job'[w]) => AtConnect(pc[w], job[w]) /\ job'[w].usr = job[w].usr
         /\ AtAnswer(pc'[w], job'[w]) =>
              \/ /\ AtAnswer(pc[w], job[w]) /\ job'[w].usr = job[w].usr
                 /\ client[job[w].usr].state # "IDLE" => client'[job[w].usr].state # "IDLE"
              \/ client'[job'[w].usr].state # "IDLE"
         /\ pc[w] = "clear" => UNCHANGED <<pc, job>> \/ Clear(w)
<1>1. job[w].ret \in Returns /\ job[w].usr \in Users /\ client \in [Users -> Client]
  BY WorkerType DEF Inv, TypeOK
<1>2. /\ AtConnect(pc'[w], job'[w]) => AtConnect(pc[w], job[w]) /\ job'[w].usr = job[w].usr
      /\ AtAnswer(pc'[w], job'[w]) =>
           \/ AtAnswer(pc[w], job[w]) /\ job'[w].usr = job[w].usr
           \/ client'[job'[w].usr].state # "IDLE"
      /\ pc[w] = "clear" => UNCHANGED <<pc, job>> \/ Clear(w)
  <2>1. CASE UNCHANGED <<pc, job>>
    BY <2>1
  <2>2. CASE InCall(w)
    BY <1>1, <2>2 DEF InCall, Called, AtConnect, AtAnswer, Returns, Alike
  <2>3. CASE Done(w) \/ Connects(w)
    BY <2>3 DEF Done, Connects, Called, AtConnect, AtAnswer
  <2>4. CASE Issues(w) \/ Saves(w)
    BY <2>4 DEF Issues, Saves, Called, AtConnect, AtAnswer
  <2>5. CASE Answers(w)
    BY <2>5 DEF Answers, Called, AtConnect, AtAnswer
  <2>6. CASE Finds(w) \/ GoesOn(w)
    BY <2>6 DEF Finds, GoesOn, Called, AtConnect, AtAnswer
  <2> QED
    BY <2>1, <2>2, <2>3, <2>4, <2>5, <2>6, Moves
<1>3. client[job[w].usr].state # "IDLE" /\ ~Clear(w) => client'[job[w].usr].state # "IDLE"
  <2>1. CASE UNCHANGED client
    BY <2>1
  <2>2. CASE WaitSave(w)
    BY <1>1, <2>2 DEF WaitSave, Client
  <2> QED
    BY <2>1, <2>2, ClientSteps
<1>4. Clear(w) => ~AtAnswer(pc[w], job[w])
  BY DEF Clear, AtAnswer, Called
<1> QED
  BY <1>2, <1>3, <1>4

\* A step that sends no answer and takes no command.
LEMMA NoAnswerStep ==
  ASSUME NEW w, Workers = {w}, Inv, OnePlace(w), Recorded(w), Answering(w), [Next]_vars,
         UNCHANGED verdict, ~Command(w)
  PROVE  Answering(w)'
<1>1. /\ UNCHANGED <<last, issued>>
      /\ \A u \in Users : client'[u].state # "IDLE" => client[u].state # "IDLE"
  BY StillWaiting
<1>2. DownCounted(w)' /\ (crashes > 0 => crashes' > 0)
  BY DownStep DEF Answering
<1>3. OneIssuer' /\ AnsweredOnce'
  BY <1>1, <1>2 DEF Answering, OneIssuer, AnsweredOnce
<1>4. ASSUME NEW u \in Users, client'[u].state # "IDLE"
      PROVE  AwaitedBy(w, u)'
  <2>1. last[u] # 0 /\ (Unanswered(last[u]) \/ Cleared(w, u))
    BY <1>1, <1>4 DEF Answering, Awaited, AwaitedBy
  <2>2. CASE Cleared(w, u)
    <3>1. UNCHANGED <<pc, job>> \/ Clear(w)
      BY <2>2, PlaceSteps DEF Cleared
    <3>2. Clear(w) => client'[u].state = "IDLE"
      <4> SUFFICES ASSUME Clear(w) PROVE client'[u].state = "IDLE"
        OBVIOUS
      <4> DEFINE c == [client[u] EXCEPT !.state = "IDLE"]
                 d == [c EXCEPT !.line = NoLine]
      <4>1. client \in [Users -> Client] /\ job[w].usr = u
        BY <2>2 DEF Cleared, Inv, TypeOK
      <4>2. client' = [client EXCEPT ![u] = d]
        BY <4>1 DEF Clear
      <4>3. c.state = "IDLE" /\ d.state = c.state
        BY <4>1 DEF Client
      <4> HIDE DEF c, d
      <4> QED
        BY <4>1, <4>2, <4>3
    <3> QED
      BY <1>1, <1>4, <2>1, <2>2, <3>1, <3>2 DEF Cleared, AwaitedBy
  <2>3. CASE Unanswered(last[u])
    BY <1>1, <1>2, <2>1, <2>3 DEF Unanswered, AwaitedBy
  <2> QED
    BY <2>1, <2>2, <2>3
<1>5. AtConnect(pc'[w], job'[w]) =>
        last'[job'[w].usr] # 0 /\ verdict'[last'[job'[w].usr]] = <<>>
  BY <1>1, PlaceSteps DEF Answering, Awaited
<1>6. AtAnswer(pc'[w], job'[w]) => client'[job'[w].usr].state # "IDLE"
  BY PlaceSteps DEF Answering, Awaited
<1> QED
  BY <1>2, <1>3, <1>4, <1>5, <1>6 DEF Answering, Awaited

\* The answer to the command of the user the worker is with.
LEMMA AnswerStep ==
  ASSUME NEW w, Workers = {w}, Inv, Recorded(w), Answering(w), [Next]_vars,
         UNCHANGED <<client, last, issued>>, NEW u \in Users, job[w].usr = u,
         NEW v \in Verdicts, Answer(u, v),
         \/ AtConnect(pc[w], job[w]) /\ v = "ERROR" /\ crashes > 0 /\ pc'[w] = "idle"
         \/ /\ AtAnswer(pc[w], job[w]) /\ pc[w] # "clear"
            /\ pc'[w] = "clear" /\ job'[w].usr = u
  PROVE  Answering(w)'
<1> DEFINE c == last[u]
<1>0. /\ verdict \in [Cmds -> Seq(Verdicts)] /\ c \in 0..MaxCmds /\ issued \in 0..MaxCmds
      /\ c <= issued
  BY DEF Inv, TypeOK, Recorded, OwnCommand
<1>1. DownCounted(w)' /\ (crashes > 0 => crashes' > 0)
  BY DownStep DEF Answering
<1>2. /\ c # 0 /\ Unanswered(c)
      /\ AtConnect(pc[w], job[w]) => verdict[c] = <<>>
  <2>1. CASE AtConnect(pc[w], job[w])
    BY <2>1 DEF Answering, Awaited, Unanswered
  <2>2. CASE AtAnswer(pc[w], job[w]) /\ pc[w] # "clear" /\ ~AtConnect(pc[w], job[w])
    BY <2>2 DEF Answering, Awaited, AwaitedBy, Cleared
  <2> QED
    BY <2>1, <2>2
<1>3. c \in Cmds /\ c <= issued
  BY <1>0, <1>2
<1>4. /\ \A d \in Cmds : d # c => verdict'[d] = verdict[d]
      /\ verdict'[c] = Append(verdict[c], v)
  BY <1>0, <1>2, <1>3 DEF Answer
<1>5. ~AtConnect(pc'[w], job'[w]) /\ ~AtAnswer(pc'[w], job'[w])
  BY DEF AtConnect, AtAnswer, Called
<1>6. OneIssuer'
  <2>1. ASSUME NEW d \in Cmds, d > issued PROVE verdict'[d] = <<>>
    <3>1. d # c
      BY <1>0, <2>1
    <3> QED
      BY <1>4, <2>1, <3>1 DEF Answering, OneIssuer
  <2> QED
    BY <2>1 DEF Answering, OneIssuer
<1>7. AnsweredOnce'
  <2> SUFFICES ASSUME NEW d \in Cmds
               PROVE  \/ Len(verdict'[d]) <= 1
                      \/ crashes' > 0 /\ Len(verdict'[d]) = 2 /\ verdict'[d][1] = "ERROR"
    BY DEF AnsweredOnce
  <2>1. CASE d # c
    BY <1>1, <1>4, <2>1 DEF Answering, AnsweredOnce
  <2>2. /\ Len(verdict'[c]) = Len(verdict[c]) + 1 /\ Len(verdict[c]) \in Nat
        /\ \A i \in 1..Len(verdict[c]) : verdict'[c][i] = verdict[c][i]
    <3>1. verdict[c] \in Seq(Verdicts)
      BY <1>0, <1>3
    <3> QED
      BY <1>4, <3>1, AppendProperties, LenProperties
  <2>3. CASE d = c /\ verdict[c] = <<>>
    <3>1. Len(verdict[c]) = 0
      BY <2>3, EmptySeq
    <3>2. Len(verdict'[c]) = 1
      BY <2>2, <3>1
    <3> QED
      BY <2>3, <3>2
  <2>4. CASE d = c /\ crashes > 0 /\ verdict[c] = <<"ERROR">>
    <3>1. Len(<<"ERROR">>) = 1 /\ <<"ERROR">>[1] = "ERROR"
      OBVIOUS
    <3>2. 1 \in 1..1
      OBVIOUS
    <3> QED
      BY <1>1, <2>2, <2>4, <3>1, <3>2
  <2> QED
    BY <1>2, <2>1, <2>3, <2>4 DEF Unanswered
<1>8. ASSUME NEW x \in Users, client'[x].state # "IDLE"
      PROVE  AwaitedBy(w, x)'
  <2>0. last[x] # 0 /\ (Unanswered(last[x]) \/ Cleared(w, x)) /\ last[x] \in Cmds
    <3>1. last[x] # 0 /\ (Unanswered(last[x]) \/ Cleared(w, x))
      BY <1>8 DEF Answering, Awaited, AwaitedBy
    <3>2. last[x] \in 0..MaxCmds
      BY DEF Inv, TypeOK
    <3> QED
      BY <3>1, <3>2
  <2>1. CASE x # u
    <3>1. last[x] # c
      BY <2>0, <2>1 DEF Answering, OneIssuer
    <3>2. Unanswered(last[x])
      BY <2>0, <2>1 DEF Cleared
    <3> QED
      BY <1>1, <1>4, <2>0, <3>1, <3>2 DEF Unanswered, AwaitedBy
  <2>2. CASE x = u /\ pc'[w] = "clear" /\ job'[w].usr = u
    BY <2>0, <2>2 DEF Cleared, AwaitedBy
  <2>3. CASE x = u /\ AtConnect(pc[w], job[w]) /\ v = "ERROR" /\ crashes > 0
    <3>1. verdict'[c] = Append(<<>>, "ERROR")
      BY <1>2, <1>4, <2>3
    <3>2. verdict'[c] = <<"ERROR">>
      BY <3>1
    <3> QED
      BY <1>1, <2>0, <2>3, <3>2 DEF Unanswered, AwaitedBy
  <2> QED
    BY <2>1, <2>2, <2>3
<1> QED
  BY <1>1, <1>5, <1>6, <1>7, <1>8 DEF Answering, Awaited

\* A new command has no answer yet.
LEMMA NewCommandStep ==
  ASSUME NEW w, Workers = {w}, Inv, Recorded(w), Answering(w), [Next]_vars, Command(w)
  PROVE  Answering(w)'
<1>1. PICK u \in Users : \E cmd, num : Submit(w, u, cmd, num)
  BY DEF Command, SubmitWrite, SubmitReplace
<1> DEFINE c == issued + 1
<1>2. /\ pc[w] = "idle" /\ UNCHANGED verdict
      /\ issued' = c /\ last' = [last EXCEPT ![u] = c]
      /\ \A x \in Users : x # u => client'[x] = client[x]
      /\ Go(w, "connect", [job[w] EXCEPT !.usr = u])
  <2>1. client \in [Users -> Client]
    BY DEF Inv, TypeOK
  <2> QED
    BY <1>1, <2>1 DEF Submit
<1>3. /\ issued \in 0..MaxCmds /\ c \in Cmds /\ last \in [Users -> 0..MaxCmds]
  <2>1. issued < MaxCmds /\ issued \in 0..MaxCmds
    BY <1>1 DEF Submit, Inv, TypeOK
  <2> QED
    BY <2>1, SMTT(30) DEF Inv, TypeOK
<1>4. /\ last'[u] = c /\ \A x \in Users : x # u => last'[x] = last[x]
      /\ \A x \in Users : last[x] # c /\ last[x] \in Int
  <2>1. \A x \in Users : last[x] <= issued /\ last[x] \in 0..MaxCmds
    BY <1>3 DEF Recorded, OwnCommand
  <2> QED
    BY <1>2, <1>3, <2>1
<1>5. verdict[c] = <<>> /\ c # 0
  BY <1>3 DEF Answering, OneIssuer
<1>6. pc'[w] = "connect" /\ job'[w].usr = u
  BY <1>2, WorkerType DEF Job
<1>7. DownCounted(w)' /\ (crashes > 0 => crashes' > 0)
  BY DownStep DEF Answering
<1>8. AnsweredOnce'
  BY <1>2, <1>7 DEF Answering, AnsweredOnce
<1>9. OneIssuer'
  <2>1. \A x, y \in Users : last'[x] = last'[y] /\ last'[x] # 0 => x = y
    BY <1>4 DEF Answering, OneIssuer
  <2>2. \A d \in Cmds : d > c => verdict[d] = <<>>
    <3>1. \A d \in Cmds : d > c => d > issued
      BY <1>3
    <3> QED
      BY <3>1 DEF Answering, OneIssuer
  <2> HIDE DEF c
  <2> QED
    BY <1>2, <2>1, <2>2 DEF OneIssuer
<1> HIDE DEF c
<1>10. ASSUME NEW x \in Users, client'[x].state # "IDLE" PROVE AwaitedBy(w, x)'
  <2>1. CASE x = u
    BY <1>2, <1>4, <1>5, <2>1 DEF AwaitedBy, Unanswered
  <2>2. CASE x # u
    <3>1. last[x] # 0 /\ Unanswered(last[x])
      BY <1>2, <1>10, <2>2 DEF Answering, Awaited, AwaitedBy, Cleared
    <3> QED
      BY <1>2, <1>4, <1>7, <2>2, <3>1 DEF AwaitedBy, Unanswered
  <2> QED
    BY <2>1, <2>2
<1>11. last'[job'[w].usr] # 0 /\ verdict'[last'[job'[w].usr]] = <<>>
  BY <1>2, <1>4, <1>5, <1>6
<1>12. ~AtAnswer(pc'[w], job'[w])
  BY <1>6 DEF AtAnswer, Called
<1> QED
  BY <1>7, <1>8, <1>9, <1>10, <1>11, <1>12 DEF Answering, Awaited

LEMMA AnsweringNext ==
  ASSUME NEW w, Workers = {w}, Inv, OnePlace(w), Recorded(w), Answering(w), [Next]_vars
  PROVE  Answering(w)'
<1>0. /\ job[w].usr \in Users /\ job[w].answer \in Verdicts
      /\ \A l, j : Go(w, l, j) => pc'[w] = l /\ job'[w] = IF l = "idle" THEN Fresh ELSE j
  BY WorkerType DEF Job
<1> DEFINE u == job[w].usr
<1>1. CASE Connected(w) /\ ~UNCHANGED verdict
  <2>1. /\ pc[w] = "connected" /\ ~job[w].ok /\ Answer(u, "ERROR") /\ pc'[w] = "idle"
        /\ UNCHANGED <<client, last, issued>>
    BY <1>0, <1>1 DEF Connected
  <2>2. AtConnect(pc[w], job[w]) /\ crashes > 0 /\ "ERROR" \in Verdicts
    BY <2>1 DEF AtConnect, Answering, DownCounted, Verdicts
  <2> QED
    BY <1>0, <2>1, <2>2, AnswerStep
<1>2. CASE Refuse(w) \/ Reply(w) \/ Undo(w)
  <2>1. /\ pc[w] \in {"refuse", "reply", "undo"} /\ UNCHANGED <<client, last, issued>>
        /\ \E v \in Verdicts : Answer(u, v)
        /\ \E r : Go(w, "clear", [job[w] EXCEPT !.ret = r])
    <3>1. CASE Refuse(w)
      BY <3>1 DEF Refuse, Verdicts
    <3>2. CASE Reply(w)
      BY <1>0, <3>2 DEF Reply
    <3>3. CASE Undo(w)
      BY <3>3 DEF Undo, Verdicts
    <3> QED
      BY <1>2, <3>1, <3>2, <3>3
  <2>2. pc'[w] = "clear" /\ job'[w].usr = u
    <3>1. PICK r : Go(w, "clear", [job[w] EXCEPT !.ret = r])
      BY <2>1
    <3> DEFINE j == [job[w] EXCEPT !.ret = r]
    <3>2. j.usr = u
      BY WorkerType DEF Job
    <3>3. Go(w, "clear", j)
      BY <3>1
    <3> HIDE DEF j
    <3>4. pc'[w] = "clear" /\ job'[w] = j
      BY <1>0, <3>3
    <3> QED
      BY <3>2, <3>4
  <2>3. AtAnswer(pc[w], job[w]) /\ pc[w] # "clear"
    BY <2>1 DEF AtAnswer
  <2> HIDE DEF u
  <2> QED
    BY <1>0, <2>1, <2>2, <2>3, AnswerStep DEF u
<1>3. CASE UNCHANGED verdict
  BY <1>3, NoAnswerStep, NewCommandStep
<1> QED
  BY <1>1, <1>2, <1>3, VerdictSteps

LEMMA AnsweringInit == ASSUME NEW w, Workers = {w}, Init PROVE Answering(w)
<1>1. Fresh.ok /\ job[w] = Fresh /\ pc[w] = "idle"
  BY DEF Fresh, Init
<1>2. AnsweredOnce
  BY DEF Init, AnsweredOnce
<1>3. ~AtConnect(pc[w], job[w]) /\ ~AtAnswer(pc[w], job[w])
  BY <1>1 DEF AtConnect, AtAnswer, Called
<1> QED
  BY <1>1, <1>2, <1>3 DEF Init, Answering, DownCounted, OneIssuer, Awaited

\* With one worker, whatever the number of users, peers, crashes and timeouts: no
\* handler answers a command that another has answered. The one exception is the
\* error of process_client_msg() while a peer is down, which one more answer of a
\* later exchange may follow.
THEOREM AnsweredOnceHolds ==
  ASSUME NEW w, Workers = {w}
  PROVE  Spec => []AnsweredOnce
<1>1. Init => OnePlace(w) /\ Recorded(w) /\ Answering(w)
  BY OnePlaceInit, RecordedInit, AnsweringInit
<1>2. Inv /\ OnePlace(w) /\ Recorded(w) /\ Answering(w) /\ [Next]_vars
        => OnePlace(w)' /\ Recorded(w)' /\ Answering(w)'
  BY OnePlaceNext, RecordedNext, AnsweringNext
<1>3. Answering(w) => AnsweredOnce
  BY DEF Answering
<1> QED
  BY <1>1, <1>2, <1>3, Invariant, PTL DEF Spec

-----------------------------------------------------------------------------
(* The files agree. With one user and one worker an exchange goes through phases
   that follow each other; the phase says what is under way to and from each peer,
   which events are posted, and how far the files have got. As long as no command
   was answered with an error, an exchange that ends leaves nothing behind, so that
   no answer is late and no state is stale in the next one. *)

AllWell == \A c \in Cmds : verdict[c] \in {<<>>, <<"WROTE">>}

Own == client[1]

\* A file with the user's command.
WithOwn(f) ==
  IF Own.cmd = "WRITE" THEN Append(f, Own.line)
  ELSE [i \in DOMAIN f |-> IF i \in FirstOf(Found(f, Own.line.num)) THEN Own.line ELSE f[i]]

IsEnd(m) == m.kind = "END SUCCESS"
IsPrecommit(m) == m.kind = "PRECOMMIT"
IsOrder(m) == /\ m.kind = IF Own.cmd = "WRITE" THEN "COMMIT WRITE" ELSE "COMMIT REPLACE"
              /\ m.line = Own.line

\* The messages left of earlier exchanges, and with the PRECOMMIT of the next.
Ended(s) == \A i \in DOMAIN s : IsEnd(s[i])
Asked(s) == \A i \in DOMAIN s : IsEnd(s[i]) \/ (IsPrecommit(s[i]) /\ i = Len(s))

Silent(p) == toPeer[p] = <<>> /\ toMaster[p] = <<>>
Equal(p) == file[p] = file[Master]
HasOwn(p) == file[p] = WithOwn(file[Master])

\* A peer between exchanges.
Off(p) ==
  /\ Ended(toPeer[p]) /\ toMaster[p] = <<>>
  /\ srv[p] # "M_PRECOMMITED" /\ Equal(p)

\* A peer that is asked to acknowledge, or has done so.
Asks(p) ==
  /\ Equal(p)
  /\ \/ /\ Asked(toPeer[p]) /\ toMaster[p] = <<>>
        /\ srv[p] = "M_PRECOMMITED" => toPeer[p] = <<>>
     \/ /\ toPeer[p] = <<>> /\ toMaster[p] = <<[kind |-> "ACK", num |-> NoNum]>>
        /\ srv[p] # "M_PRECOMMITED"

\* A peer that is told to store the command, or has answered.
Stores(p) ==
  \/ /\ Len(toPeer[p]) = 1 /\ IsOrder(toPeer[p][1])
     /\ toMaster[p] = <<>> /\ Equal(p) /\ srv[p] # "M_OPERATION_PERFORMED"
  \/ /\ toPeer[p] = <<>> /\ Len(toMaster[p]) <= 1
     /\ \A i \in DOMAIN toMaster[p] :
          /\ toMaster[p][i].num = Own.line.num /\ toMaster[p][i].kind # "ACK"
          /\ toMaster[p][i].kind = "SUCCESS" => HasOwn(p)
     /\ srv[p] = "M_OPERATION_PERFORMED" => HasOwn(p) /\ toMaster[p] = <<>>

AllOff == \A p \in Peers : Off(p)
AllAcked == \A p \in Peers : Silent(p) /\ Equal(p) /\ srv[p] # "M_OPERATION_PERFORMED"
AllStored == \A p \in Peers : Silent(p) /\ HasOwn(p) /\ srv[p] # "M_PRECOMMITED"

\* What the peers' steps do to the messages and the file of one.
PeerEffect(p) ==
  \/ toPeer'[p] = toPeer[p] /\ toMaster'[p] = toMaster[p] /\ file'[p] = file[p]
  \/ /\ \E k \in 1..Len(toPeer[p]) : toPeer'[p] = SubSeq(toPeer[p], k + 1, Len(toPeer[p]))
     /\ toMaster'[p] = toMaster[p] /\ file'[p] = file[p]
  \/ /\ 1 <= Len(toPeer[p]) /\ IsPrecommit(toPeer[p][1])
     /\ toPeer'[p] = SubSeq(toPeer[p], 2, Len(toPeer[p]))
     /\ toMaster'[p] = Append(toMaster[p], [kind |-> "ACK", num |-> NoNum])
     /\ file'[p] = file[p]
  \/ \E k \in 1..Len(toPeer[p]) :
       LET m == toPeer[p][1]
       IN /\ IsCommit(m)
          /\ toPeer'[p] = SubSeq(toPeer[p], k + 1, Len(toPeer[p]))
          /\ \E r \in SaveResults(file[p], CmdOf(m), m.line) :
               /\ file'[p] = r.file \o (IF r.result = "WROTE" THEN Rest(k) ELSE <<>>)
               /\ toMaster'[p] = Append(toMaster[p],
                                        [kind |-> AnswerTo(r.result), num |-> m.line.num])
  \/ /\ toPeer'[p] = <<>> /\ file'[p] = file[p]
     /\ \E k \in 0..Len(toMaster[p]) : toMaster'[p] = SubSeq(toMaster[p], 1, k)

LEMMA HeadIsFirst ==
  ASSUME NEW S, NEW s \in Seq(S), NEW k \in Nat, 1 <= k, k <= Len(s)
  PROVE  Head(s) = s[1] /\ 1 \in DOMAIN s
<1>1. Len(s) \in Nat /\ DOMAIN s = 1..Len(s)
  BY LenProperties
<1> QED
  BY <1>1, EmptySeq

LEMMA PeerEffects ==
  ASSUME TypeOK,
         \E p \in Peers : PeerRecv(p) \/ SlaveTimeout(p) \/ PeerCrash(p) \/ PeerStart(p)
  PROVE  /\ \A p \in Peers : PeerEffect(p)
         /\ file'[Master] = file[Master]
         /\ UNCHANGED <<sharedVars, workerVars, userVars>>
<1>1. PICK p \in Peers : PeerRecv(p) \/ SlaveTimeout(p) \/ PeerCrash(p) \/ PeerStart(p)
  OBVIOUS
<1>2. UNCHANGED <<sharedVars, workerVars, userVars>>
  BY <1>1, ZenonT(60) DEF PeerRecv, PeerPrecommit, PeerCommit, Committed, PeerRefuses, PeerEnd, SlaveTimeout,
     PeerCrash, PeerStart
<1>3. /\ toPeer \in [Peers -> Seq(ToPeer)] /\ toMaster \in [Peers -> Seq(ToMaster)]
      /\ file \in [Servers -> Seq(Line)] /\ p \in Servers /\ Master # p /\ Peers \subseteq Servers
      /\ MaxRecv \in Nat /\ \A k \in 1..MaxRecv : k \in Nat /\ 1 <= k
  <2>1. /\ toPeer \in [Peers -> Seq(ToPeer)] /\ toMaster \in [Peers -> Seq(ToMaster)]
        /\ file \in [Servers -> Seq(Line)]
    BY DEF TypeOK
  <2>2. p \in Servers /\ Master # p /\ Peers \subseteq Servers /\ MaxRecv \in Nat
    OBVIOUS
  <2> QED
    BY <2>1, <2>2
<1>4. /\ toPeer[p] \in Seq(ToPeer) /\ Len(toPeer[p]) \in Nat /\ Len(toMaster[p]) \in Nat
  BY <1>3, LenProperties
<1>5. ASSUME NEW k \in 1..MaxRecv, k <= Len(toPeer[p])
      PROVE  Head(toPeer[p]) = toPeer[p][1] /\ k \in 1..Len(toPeer[p]) /\ 1 <= Len(toPeer[p])
  BY <1>3, <1>4, <1>5, HeadIsFirst
<1>6. ASSUME Dies(p), UNCHANGED file PROVE PeerEffect(p)
  BY <1>3, <1>6 DEF Dies, PeerEffect
<1>7. PeerEffect(p)
  <2>1. ASSUME NEW k \in 1..MaxRecv, PeerPrecommit(p, k) PROVE PeerEffect(p)
    <3>1. /\ k <= Len(toPeer[p]) /\ UNCHANGED file
          /\ toPeer'[p] = SubSeq(toPeer[p], k + 1, Len(toPeer[p]))
          /\ \/ UNCHANGED toMaster
             \/ /\ ~(k > 1) /\ Head(toPeer[p]).kind \in {"PRECOMMIT", "ABORT"}
                /\ Head(toPeer[p]).kind # "ABORT"
                /\ toMaster' = [toMaster EXCEPT ![p] = Append(@, [kind |-> "ACK", num |-> NoNum])]
      BY <1>3, <2>1 DEF PeerPrecommit, MayRecv, Received, Tell, userVars
    <3>2. CASE UNCHANGED toMaster
      BY <1>5, <3>1, <3>2 DEF PeerEffect
    <3>3. CASE ~UNCHANGED toMaster
      <4>1. k = 1
        BY <1>3, <3>1, <3>3
      <4>2. toMaster'[p] = Append(toMaster[p], [kind |-> "ACK", num |-> NoNum])
        BY <1>3, <3>1, <3>3
      <4>3. IsPrecommit(toPeer[p][1]) /\ 1 <= Len(toPeer[p])
        BY <1>5, <3>1, <3>3 DEF IsPrecommit
      <4>4. toPeer'[p] = SubSeq(toPeer[p], 2, Len(toPeer[p])) /\ file'[p] = file[p]
        BY <3>1, <4>1
      <4> QED
        BY <4>2, <4>3, <4>4, Zenon DEF PeerEffect
    <3> QED
      BY <3>2, <3>3
  <2>2. ASSUME NEW k \in 1..MaxRecv, PeerRefuses(p, k) \/ PeerEnd(p, k) PROVE PeerEffect(p)
    <3>1. /\ k <= Len(toPeer[p]) /\ UNCHANGED <<file, toMaster>>
          /\ toPeer'[p] = SubSeq(toPeer[p], k + 1, Len(toPeer[p]))
      BY <1>3, <2>2 DEF PeerRefuses, PeerEnd, MayRecv, Received
    <3> QED
      BY <1>5, <3>1 DEF PeerEffect
  <2>3. ASSUME NEW k \in 1..MaxRecv, PeerCommit(p, k) PROVE PeerEffect(p)
    <3> DEFINE m == Head(toPeer[p])
               cmd == CmdOf(m)
               rest == Rest(k)
    <3>1. /\ k <= Len(toPeer[p]) /\ IsCommit(m)
          /\ \/ Dies(p) /\ UNCHANGED file
             \/ /\ Received(p, k)
                /\ \E r \in SaveResults(file[p], cmd, m.line) :
                     /\ file' = [file EXCEPT ![p] =
                                    r.file \o (IF r.result = "WROTE" THEN rest ELSE <<>>)]
                     /\ Tell(p, AnswerTo(r.result), m.line.num)
      BY <2>3, Zenon DEF PeerCommit, Committed, MayRecv, IsCommit, CmdOf
    <3>2. CASE Dies(p) /\ UNCHANGED file
      BY <1>6, <3>2
    <3>3. ASSUME Received(p, k), NEW r \in SaveResults(file[p], cmd, m.line),
                 file' = [file EXCEPT ![p] =
                             r.file \o (IF r.result = "WROTE" THEN rest ELSE <<>>)],
                 Tell(p, AnswerTo(r.result), m.line.num)
          PROVE  PeerEffect(p)
      <4>1. m = toPeer[p][1] /\ k \in 1..Len(toPeer[p])
        BY <1>5, <3>1
      <4>2. /\ toPeer'[p] = SubSeq(toPeer[p], k + 1, Len(toPeer[p]))
            /\ file'[p] = r.file \o (IF r.result = "WROTE" THEN rest ELSE <<>>)
            /\ toMaster'[p] = Append(toMaster[p],
                                     [kind |-> AnswerTo(r.result), num |-> m.line.num])
        BY <1>3, <3>3, Zenon DEF Received, Tell
      <4> QED
        BY <3>1, <4>1, <4>2, Zenon DEF PeerEffect
    <3> QED
      BY <3>1, <3>2, <3>3
  <2>4. ASSUME SlaveTimeout(p) \/ PeerCrash(p) \/ PeerStart(p) PROVE PeerEffect(p)
    <3>1. UNCHANGED file /\ (Dies(p) \/ UNCHANGED netVars)
      BY <2>4 DEF SlaveTimeout, PeerCrash, PeerStart
    <3> QED
      BY <1>6, <3>1 DEF netVars, PeerEffect
  <2> QED
    BY <1>1, <2>1, <2>2, <2>3, <2>4 DEF PeerRecv
<1>8. ASSUME NEW q \in Peers, q # p
      PROVE  toPeer'[q] = toPeer[q] /\ toMaster'[q] = toMaster[q]
  <2>1. ASSUME Dies(p) PROVE toPeer'[q] = toPeer[q] /\ toMaster'[q] = toMaster[q]
    BY <1>3, <1>8, <2>1 DEF Dies
  <2>2. ASSUME NEW k \in 1..MaxRecv, Received(p, k) PROVE toPeer'[q] = toPeer[q]
    BY <1>3, <1>8, <2>2 DEF Received
  <2>3. ASSUME NEW kind, NEW num, Tell(p, kind, num) PROVE toMaster'[q] = toMaster[q]
    BY <1>3, <1>8, <2>3 DEF Tell
  <2>4. ASSUME NEW k \in 1..MaxRecv, PeerPrecommit(p, k)
        PROVE  toPeer'[q] = toPeer[q] /\ toMaster'[q] = toMaster[q]
    BY <2>2, <2>3, <2>4 DEF PeerPrecommit
  <2>5. ASSUME NEW k \in 1..MaxRecv, PeerRefuses(p, k) \/ PeerEnd(p, k)
        PROVE  toPeer'[q] = toPeer[q] /\ toMaster'[q] = toMaster[q]
    BY <2>2, <2>5 DEF PeerRefuses, PeerEnd
  <2>6. ASSUME NEW k \in 1..MaxRecv, PeerCommit(p, k)
        PROVE  toPeer'[q] = toPeer[q] /\ toMaster'[q] = toMaster[q]
    <3>1. Dies(p) \/ (Received(p, k) /\ \E kind, num : Tell(p, kind, num))
      BY <2>6, Zenon DEF PeerCommit, Committed
    <3> QED
      BY <2>1, <2>2, <2>3, <3>1
  <2>7. ASSUME SlaveTimeout(p) \/ PeerCrash(p) \/ PeerStart(p)
        PROVE  toPeer'[q] = toPeer[q] /\ toMaster'[q] = toMaster[q]
    BY <2>1, <2>7 DEF SlaveTimeout, PeerCrash, PeerStart, netVars
  <2> QED
    BY <1>1, <2>4, <2>5, <2>6, <2>7 DEF PeerRecv
<1>9. \A s \in Servers : s # p => file'[s] = file[s]
  <2>1. \/ UNCHANGED file
        \/ \E x : file' = [file EXCEPT ![p] = x]
    BY <1>1, Zenon DEF PeerRecv, PeerPrecommit, PeerCommit, Committed, PeerRefuses, PeerEnd, SlaveTimeout,
     PeerCrash, PeerStart
  <2> QED
    BY <1>3, <2>1
<1>10. ASSUME NEW q \in Peers PROVE PeerEffect(q)
  <2>1. CASE q = p
    BY <1>7, <2>1
  <2>2. CASE q # p
    BY <1>3, <1>8, <1>9, <2>2 DEF PeerEffect
  <2> QED
    BY <2>1, <2>2
<1>11. file'[Master] = file[Master]
  BY <1>3, <1>9 DEF ConstantsOK
<1> QED
  BY <1>2, <1>10, <1>11

\* A message is of one kind.
LEMMA Kinds ==
  ASSUME NEW m
  PROVE  /\ ~(IsEnd(m) /\ IsPrecommit(m)) /\ ~(IsEnd(m) /\ IsCommit(m))
         /\ ~(IsPrecommit(m) /\ IsCommit(m)) /\ (IsOrder(m) => IsCommit(m))
<1>1. IsOrder(m) => IsCommit(m)
  BY Zenon DEF IsOrder, IsCommit
<1>2. ~(IsEnd(m) /\ IsPrecommit(m)) /\ ~(IsEnd(m) /\ IsCommit(m))
  BY Zenon DEF IsEnd, IsPrecommit, IsCommit
<1>3. ~(IsPrecommit(m) /\ IsCommit(m))
  BY Zenon DEF IsPrecommit, IsCommit
<1> QED
  BY <1>1, <1>2, <1>3

\* A save of the user's command.
LEMMA OwnSave ==
  ASSUME NEW f \in Seq(Line), Own \in Client, NEW r \in SaveResults(f, Own.cmd, Own.line)
  PROVE  /\ r.file \in Seq(Line)
         /\ IF r.result = "WROTE" THEN r.file = WithOwn(f) /\ AnswerTo(r.result) = "SUCCESS"
            ELSE r.file = f /\ AnswerTo(r.result) \in {"UNSUCCESS", "UNKNOWN"}
<1> DEFINE l == Own.line
<1>1. l \in Line /\ Own.cmd \in {"WRITE", "REPLACE"}
  BY DEF Client
<1>2. r.file \in Seq(Line)
  BY <1>1, SaveResultsType
<1>3. CASE r.result = "ERROR" \/ r.result = "UNKNOWN"
  <2>1. r.file = f
    BY <1>3 DEF SaveResults
  <2> QED
    BY <1>2, <1>3, <2>1 DEF AnswerTo
<1>4. CASE r.result = "WROTE"
  <2>1. CASE Own.cmd = "WRITE"
    <3>1. r.file = Append(f, l)
      BY <1>4, <2>1 DEF SaveResults
    <3> QED
      BY <1>2, <1>4, <2>1, <3>1 DEF WithOwn, AnswerTo
  <2>2. CASE Own.cmd # "WRITE"
    <3>1. PICK i \in FirstOf(Found(f, l.num)) : r.file = [f EXCEPT ![i] = l]
      BY <1>4, <2>2 DEF SaveResults
    <3>2. /\ f \in [1..Len(f) -> Line] /\ DOMAIN f = 1..Len(f) /\ Len(f) \in Nat
      BY LenProperties
    <3>3. Found(f, l.num) \subseteq Int
      BY <3>2 DEF Found
    <3>4. \A j \in FirstOf(Found(f, l.num)) : j = i
      BY <3>3 DEF FirstOf
    <3>5. r.file = [j \in DOMAIN f |-> IF j \in FirstOf(Found(f, l.num)) THEN l ELSE f[j]]
      <4>1. \A j : j \in FirstOf(Found(f, l.num)) <=> j = i
        BY <3>4
      <4> QED
        BY <3>1, <3>2, <4>1
    <3> QED
      BY <1>2, <1>4, <2>2, <3>5 DEF WithOwn, AnswerTo
  <2> QED
    BY <2>1, <2>2
<1>5. r.result \in {"WROTE", "ERROR", "UNKNOWN"}
  BY <1>1, SaveResultsType DEF Verdicts
<1> QED
  BY <1>3, <1>4, <1>5

\* What is under way to a peer of which no message is a COMMIT.
LEMMA AskedKept ==
  ASSUME TypeOK, NEW p \in Peers, PeerEffect(p), Asked(toPeer[p])
  PROVE  /\ file'[p] = file[p]
         /\ Asked(toPeer'[p]) /\ (Ended(toPeer[p]) => Ended(toPeer'[p]))
         /\ toPeer[p] = <<>> => toPeer'[p] = <<>>
         /\ toMaster[p] = <<>> =>
              \/ toMaster'[p] = <<>>
              \/ /\ toPeer'[p] = <<>> /\ ~Ended(toPeer[p])
                 /\ toMaster'[p] = <<[kind |-> "ACK", num |-> NoNum]>>
         /\ toPeer[p] = <<>> =>
              toMaster'[p] = toMaster[p] \/ \E k \in 0..Len(toMaster[p]) :
                                              toMaster'[p] = SubSeq(toMaster[p], 1, k)
<1> DEFINE s == toPeer[p]
           r == toMaster[p]
<1>1. s \in Seq(ToPeer) /\ Len(s) \in Nat /\ DOMAIN s = 1..Len(s) /\ r \in Seq(ToMaster)
  <2>1. s \in Seq(ToPeer) /\ r \in Seq(ToMaster)
    BY DEF TypeOK
  <2> QED
    BY <2>1, LenProperties
<1>2. s = <<>> => Len(s) = 0
  OBVIOUS
<1>3. ASSUME NEW k \in 1..Len(s)
      PROVE  Asked(SubSeq(s, k + 1, Len(s))) /\ (Ended(s) => Ended(SubSeq(s, k + 1, Len(s))))
  <2>1. ASSUME NEW i \in DOMAIN SubSeq(s, k + 1, Len(s))
        PROVE  /\ i + k \in DOMAIN s /\ i \in Nat
               /\ SubSeq(s, k + 1, Len(s))[i] = s[i + k]
    BY <1>1, RestOfSeq, SMTT(30)
  <2>2. Len(SubSeq(s, k + 1, Len(s))) = Len(s) - k
    <3>1. \A i \in (k + 1)..Len(s) : s[i] \in ToPeer
      BY <1>1
    <3>2. k + 1 \in Int /\ Len(s) \in Int
      BY <1>1
    <3>3. Len(SubSeq(s, k + 1, Len(s))) = IF k + 1 <= Len(s) THEN Len(s) - (k + 1) + 1 ELSE 0
      BY <3>1, <3>2, SubSeqProperties
    <3> QED
      BY <1>1, <3>3
  <2> DEFINE q == SubSeq(s, k + 1, Len(s))
  <2>5. Len(q) = Len(s) - k /\ k \in Nat
    BY <2>2
  <2> HIDE DEF q
  <2>3. ASSUME NEW i \in DOMAIN q
        PROVE  IsEnd(q[i]) \/ (IsPrecommit(q[i]) /\ i = Len(q))
    <3>1. i + k \in DOMAIN s /\ i \in Nat /\ q[i] = s[i + k]
      BY <2>1, <2>3 DEF q
    <3>2. i + k = Len(s) => i = Len(q)
      BY <1>1, <2>5, <3>1, SMTT(30)
    <3>3. IsEnd(s[i + k]) \/ (IsPrecommit(s[i + k]) /\ i + k = Len(s))
      BY <3>1 DEF Asked
    <3> QED
      BY <3>1, <3>2, <3>3
  <2>4. Ended(s) => Ended(q)
    BY <2>1 DEF Ended, q
  <2> QED
    BY <2>3, <2>4 DEF Asked, q
<1>4. Asked(<<>>) /\ Ended(<<>>)
  BY DEF Asked, Ended
<1>5. 1 <= Len(s) => (IsEnd(s[1]) \/ IsPrecommit(s[1])) /\ (IsPrecommit(s[1]) => Len(s) = 1 /\ ~Ended(s))
  <2>1. 1 <= Len(s) => 1 \in DOMAIN s
    BY <1>1
  <2> QED
    BY <2>1, Kinds DEF Asked, Ended
<1>6. CASE toPeer'[p] = s /\ toMaster'[p] = r /\ file'[p] = file[p]
  BY <1>6
<1>7. CASE /\ \E k \in 1..Len(s) : toPeer'[p] = SubSeq(s, k + 1, Len(s))
           /\ toMaster'[p] = r /\ file'[p] = file[p]
  <2>1. s # <<>>
    BY <1>2, <1>7
  <2> QED
    BY <1>3, <1>7, <2>1
<1>8. CASE /\ 1 <= Len(s) /\ IsPrecommit(s[1])
           /\ toPeer'[p] = SubSeq(s, 2, Len(s))
           /\ toMaster'[p] = Append(r, [kind |-> "ACK", num |-> NoNum])
           /\ file'[p] = file[p]
  <2>1. Len(s) = 1 /\ ~Ended(s) /\ s # <<>>
    BY <1>2, <1>5, <1>8
  <2>2. toPeer'[p] = <<>>
    BY <1>8, <2>1, SubSeqEmpty
  <2>3. r = <<>> => toMaster'[p] = <<[kind |-> "ACK", num |-> NoNum]>>
    BY <1>8
  <2> QED
    BY <1>4, <1>8, <2>1, <2>2, <2>3
<1>9. CASE /\ toPeer'[p] = <<>> /\ file'[p] = file[p]
           /\ \E k \in 0..Len(r) : toMaster'[p] = SubSeq(r, 1, k)
  <2>1. r = <<>> => toMaster'[p] = <<>>
    BY <1>9
  <2> QED
    BY <1>4, <1>9, <2>1
<1>10. ~(1 <= Len(s) /\ IsCommit(s[1]))
  BY <1>5, Kinds
<1>11. ASSUME NEW k \in 1..Len(s) PROVE 1 <= Len(s)
  BY <1>1
<1> QED
  BY <1>6, <1>7, <1>8, <1>9, <1>10, <1>11, Zenon DEF PeerEffect

LEMMA OffKept ==
  ASSUME TypeOK, NEW p \in Peers, PeerEffect(p), srv' = srv, file'[Master] = file[Master], Off(p)
  PROVE  Off(p)'
<1>1. Asked(toPeer[p])
  BY DEF Off, Ended, Asked
<1> QED
  BY <1>1, AskedKept DEF Off, Equal

LEMMA SilentKept ==
  ASSUME TypeOK, NEW p \in Peers, PeerEffect(p), Silent(p)
  PROVE  Silent(p)' /\ file'[p] = file[p]
<1>1. Asked(toPeer[p]) /\ Ended(toPeer[p])
  BY DEF Silent, Asked, Ended
<1> QED
  BY <1>1, AskedKept DEF Silent

LEMMA AsksKept ==
  ASSUME TypeOK, NEW p \in Peers, PeerEffect(p), srv' = srv, file'[Master] = file[Master], Asks(p)
  PROVE  Asks(p)'
<1>1. Asked(toPeer[p])
  BY DEF Asks, Asked
<1>2. Equal(p)'
  BY <1>1, AskedKept DEF Asks, Equal
<1>3. CASE Asked(toPeer[p]) /\ toMaster[p] = <<>> /\ (srv[p] = "M_PRECOMMITED" => toPeer[p] = <<>>)
  <2>1. toPeer[p] = <<>> => Ended(toPeer[p])
    BY DEF Ended
  <2> QED
    BY <1>2, <1>3, <2>1, AskedKept DEF Asks
<1>4. CASE /\ toPeer[p] = <<>> /\ toMaster[p] = <<[kind |-> "ACK", num |-> NoNum]>>
           /\ srv[p] # "M_PRECOMMITED"
  <2> DEFINE a == [kind |-> "ACK", num |-> NoNum]
  <2>1. ASSUME NEW k \in 0..Len(<<a>>) PROVE SubSeq(<<a>>, 1, k) \in {<<>>, <<a>>}
    <3>1. k = 0 \/ k = 1
      OBVIOUS
    <3>2. SubSeq(<<a>>, 1, 0) = <<>>
      BY SubSeqEmpty
    <3>3. SubSeq(<<a>>, 1, 1) = <<a>>
      <4>1. a \in ToMaster
        BY DEF ToMaster
      <4>2. <<a>> \in Seq(ToMaster) /\ Len(<<a>>) = 1
        BY <4>1
      <4> QED
        BY <4>2, SubSeqFull
    <3> QED
      BY <3>1, <3>2, <3>3
  <2>2. toMaster'[p] \in {<<>>, <<a>>} /\ toPeer'[p] = <<>>
    BY <1>1, <1>4, <2>1, AskedKept
  <2>3. Asked(<<>>)
    BY DEF Asked
  <2> QED
    BY <1>2, <1>4, <2>2, <2>3 DEF Asks
<1> QED
  BY <1>3, <1>4 DEF Asks

LEMMA OrderCommand ==
  ASSUME Own \in Client, NEW m, IsOrder(m)
  PROVE  CmdOf(m) = Own.cmd /\ m.line = Own.line
<1>1. Own.cmd \in {"WRITE", "REPLACE"}
  BY DEF Client
<1>2. Own.cmd = "WRITE" => CmdOf(m) = "WRITE"
  BY Zenon DEF IsOrder, CmdOf
<1>3. Own.cmd # "WRITE" => CmdOf(m) = "REPLACE"
  BY Zenon DEF IsOrder, CmdOf
<1> QED
  BY <1>1, <1>2, <1>3 DEF IsOrder

\* A peer's answer to the COMMIT of the user's command.
LEMMA OrderAnswered ==
  ASSUME TypeOK, NEW p \in Peers, Own \in Client, client' = client,
         file'[Master] = file[Master], Equal(p),
         NEW r \in SaveResults(file[p], Own.cmd, Own.line),
         file'[p] = r.file \o (IF r.result = "WROTE" THEN Rest(1) ELSE <<>>)
  PROVE  AnswerTo(r.result) # "ACK" /\ (AnswerTo(r.result) = "SUCCESS" => HasOwn(p)')
<1>2. file[p] \in Seq(Line) /\ p \in Servers
  BY DEF TypeOK
<1>3. Rest(1) = <<>>
  <2>1. [i \in 1..(1 - 1) |-> Junk] = <<>>
    <3>1. 1..(1 - 1) = {}
      OBVIOUS
    <3> QED
      BY <3>1
  <2> QED
    BY <2>1 DEF Rest
<1>4. /\ r.file \in Seq(Line)
      /\ IF r.result = "WROTE" THEN r.file = WithOwn(file[p]) /\ AnswerTo(r.result) = "SUCCESS"
         ELSE r.file = file[p] /\ AnswerTo(r.result) \in {"UNSUCCESS", "UNKNOWN"}
  BY <1>2, OwnSave
<1>5. file'[p] = r.file
  BY <1>3, <1>4, ConcatEmptySeq
<1>6. HasOwn(p)' <=> file'[p] = WithOwn(file[Master])
  BY DEF HasOwn, WithOwn, Own
<1> QED
  BY <1>4, <1>5, <1>6 DEF Equal

LEMMA StoresKept ==
  ASSUME TypeOK, NEW p \in Peers, PeerEffect(p), srv' = srv, client' = client, Own \in Client,
         file'[Master] = file[Master], Stores(p)
  PROVE  Stores(p)'
<1> DEFINE s == toPeer[p]
           r == toMaster[p]
           ack == [kind |-> "ACK", num |-> NoNum]
<1>1. s \in Seq(ToPeer) /\ Len(s) \in Nat /\ r \in Seq(ToMaster) /\ Len(r) \in Nat
  <2>1. s \in Seq(ToPeer) /\ r \in Seq(ToMaster)
    BY DEF TypeOK
  <2> QED
    BY <2>1, LenProperties
<1>2. /\ Len(<<>>) = 0 /\ DOMAIN <<>> = {}
      /\ \A k \in 1..Len(s) : 1 <= k /\ k <= Len(s)
  BY <1>1
<1>3. ASSUME file'[p] = file[p] PROVE HasOwn(p)' <=> HasOwn(p)
  BY <1>3 DEF HasOwn, WithOwn, Own
<1>4. ASSUME file'[p] = file[p], toPeer'[p] = <<>>, toMaster'[p] \in {r, <<>>},
             srv[p] # "M_OPERATION_PERFORMED" \/ r = <<>>, s = <<>> \/ r = <<>>
      PROVE  Stores(p)'
  <2>1. Own' = Own
    BY DEF Own
  <2>2. CASE toMaster'[p] = <<>>
    <3>1. srv[p] = "M_OPERATION_PERFORMED" => HasOwn(p)
      BY DEF Stores
    <3> QED
      BY <1>2, <1>3, <1>4, <2>2, <3>1 DEF Stores
  <2>3. CASE toMaster'[p] = r /\ r # <<>>
    <3>1. /\ Len(r) <= 1
          /\ \A i \in DOMAIN r : /\ r[i].num = Own.line.num /\ r[i].kind # "ACK"
                                 /\ r[i].kind = "SUCCESS" => HasOwn(p)
      BY <1>4, <2>3 DEF Stores
    <3> QED
      BY <1>3, <1>4, <2>1, <2>3, <3>1 DEF Stores
  <2> QED
    BY <1>4, <2>2, <2>3
<1>5. CASE toPeer'[p] = s /\ toMaster'[p] = r /\ file'[p] = file[p]
  <2>1. Own' = Own /\ (Equal(p)' <=> Equal(p)) /\ (HasOwn(p)' <=> HasOwn(p))
    BY <1>3, <1>5 DEF Own, Equal
  <2>2. \A m : IsOrder(m)' <=> IsOrder(m)
    BY <2>1, Zenon DEF IsOrder
  <2> QED
    BY <1>5, <2>1, <2>2 DEF Stores
<1>6. CASE /\ toPeer'[p] = <<>> /\ file'[p] = file[p]
           /\ \E k \in 0..Len(r) : toMaster'[p] = SubSeq(r, 1, k)
  <2>1. PICK k \in 0..Len(r) : toMaster'[p] = SubSeq(r, 1, k)
    BY <1>6
  <2>2. Len(r) <= 1 /\ (s = <<>> \/ r = <<>>) /\ (srv[p] # "M_OPERATION_PERFORMED" \/ r = <<>>)
    BY <1>2 DEF Stores
  <2>3. toMaster'[p] \in {r, <<>>}
    <3>1. CASE k = 0
      BY <2>1, <3>1, SubSeqEmpty
    <3>2. CASE k = Len(r)
      BY <1>1, <2>1, <3>2, SubSeqFull
    <3> QED
      BY <1>1, <2>2, <3>1, <3>2
  <2> QED
    BY <1>4, <1>6, <2>2, <2>3
<1>7. CASE Len(s) = 1 /\ IsOrder(s[1]) /\ r = <<>> /\ Equal(p) /\ srv[p] # "M_OPERATION_PERFORMED"
  <2>1. \A k \in 1..Len(s) : k = 1
    BY <1>7
  <2>2. SubSeq(s, 1 + 1, Len(s)) = <<>>
    BY <1>7, SubSeqEmpty
  <2>3. CASE /\ \E k \in 1..Len(s) : toPeer'[p] = SubSeq(s, k + 1, Len(s))
             /\ toMaster'[p] = r /\ file'[p] = file[p]
    <3>1. toPeer'[p] = <<>>
      BY <2>1, <2>2, <2>3
    <3> QED
      BY <1>4, <1>7, <2>3, <3>1
  <2>4. ~IsPrecommit(s[1])
    BY <1>7, Kinds
  <2>5. ASSUME NEW k \in 1..Len(s),
               toPeer'[p] = SubSeq(s, k + 1, Len(s)),
               NEW x \in SaveResults(file[p], Own.cmd, Own.line),
               file'[p] = x.file \o (IF x.result = "WROTE" THEN Rest(k) ELSE <<>>),
               toMaster'[p] = Append(r, [kind |-> AnswerTo(x.result), num |-> Own.line.num])
        PROVE  Stores(p)'
    <3> DEFINE a == [kind |-> AnswerTo(x.result), num |-> Own.line.num]
    <3>1. k = 1 /\ k \in 1..1
      BY <2>1
    <3>2. a.kind # "ACK" /\ (a.kind = "SUCCESS" => HasOwn(p)')
      <4>1. AnswerTo(x.result) # "ACK" /\ (AnswerTo(x.result) = "SUCCESS" => HasOwn(p)')
        BY <1>7, <2>5, <3>1, OrderAnswered
      <4> QED
        BY <4>1
    <3>3. a.num = Own.line.num /\ Own' = Own
      BY DEF Own
    <3>4. toPeer'[p] = <<>> /\ toMaster'[p] = <<a>>
      BY <1>7, <2>2, <2>5, <3>1
    <3> HIDE DEF a
    <3>5. Len(<<a>>) = 1 /\ \A i \in DOMAIN <<a>> : <<a>>[i] = a
      OBVIOUS
    <3> QED
      BY <1>7, <3>2, <3>3, <3>4, <3>5 DEF Stores
  <2>6. CASE \E k \in 1..Len(s) :
               /\ toPeer'[p] = SubSeq(s, k + 1, Len(s))
               /\ \E x \in SaveResults(file[p], CmdOf(s[1]), s[1].line) :
                    /\ file'[p] = x.file \o (IF x.result = "WROTE" THEN Rest(k) ELSE <<>>)
                    /\ toMaster'[p] = Append(r, [kind |-> AnswerTo(x.result), num |-> s[1].line.num])
    <3>1. CmdOf(s[1]) = Own.cmd /\ s[1].line = Own.line
      BY <1>7, OrderCommand
    <3> QED
      BY <2>5, <2>6, <3>1
  <2> QED
    BY <1>5, <1>6, <2>3, <2>4, <2>6, Zenon DEF PeerEffect
<1>8. CASE s = <<>>
  <2>1. ~(1 <= Len(s)) /\ 1..Len(s) = {}
    BY <1>2, <1>8
  <2> QED
    BY <1>5, <1>6, <2>1, Zenon DEF PeerEffect
<1> QED
  BY <1>7, <1>8 DEF Stores

-----------------------------------------------------------------------------
(* The phases of an exchange *)

\* Nothing is posted and no timer runs.
Quiet == queue = <<>> /\ ~masterTimer

\* The state of the list's head between exchanges.
OldState == masterState \in {"NULL", "IDLE", "M_OPERATION_PERFORMED"}

\* Events of one type may follow the timeouts, but only at the end.
TimeoutsThen(t) == \A i \in DOMAIN queue :
  queue[i].type = "TIMEOUT_MASTER" \/ (queue[i].type = t /\ i = Len(queue))

\* No user waits.
Resting(w) ==
  /\ Own.state = "IDLE" /\ pc[w] \in {"idle", "findSave"}
  /\ Quiet /\ OldState /\ AllOff

\* A command has come; the peers are connected to.
Connecting(w) ==
  /\ Own.state = "U_WAITING_COMMIT"
  /\ \/ pc[w] \in {"connect", "link", "connected"}
     \/ pc[w] \in {"check", "master"} /\ job[w].ret = "connected" /\ job[w].st = "IDLE"
  /\ Quiet /\ OldState /\ AllOff

\* PRECOMMIT is multicast.
Asking(w) ==
  /\ Own.state = "U_WAITING_COMMIT"
  /\ pc[w] \in Called /\ job[w].ret = "idle" /\ job[w].st = "M_PRECOMMIT_MULTICASTED"
  /\ IsPrecommit(job[w].msg)
  /\ Quiet /\ OldState
  /\ \A p \in Peers : Asks(p) /\ srv[p] # "M_PRECOMMITED"
  /\ pc[w] = "send" => \A p \in Peers : p >= job[w].idx => Off(p)
  /\ pc[w] = "mark" => \A p \in Peers : p > job[w].idx => Off(p)

\* An acknowledgement is handled.
Acking(w) ==
  /\ pc[w] \in {"idle", "note", "check", "master", "post"}
  /\ pc[w] # "idle" => job[w].st = "M_PRECOMMITED" /\ job[w].ret = "idle"
  /\ pc[w] = "note" => Silent(job[w].idx)
  /\ pc[w] = "check" => \A p \in Peers : p < job[w].idx => srv[p] = "M_PRECOMMITED"
  /\ pc[w] \in {"master", "post"} => AllAcked
  /\ pc[w] = "post" => masterState = "M_PRECOMMITED"

\* The acknowledgements arrive.
Gathering(w) ==
  /\ Own.state = "U_WAITING_COMMIT"
  /\ Acking(w) /\ \A p \in Peers : Asks(p)
  /\ TimeoutsThen("PRECOMMIT_ACK")
  /\ (\E i \in DOMAIN queue : queue[i].type = "PRECOMMIT_ACK") =>
        pc[w] = "idle" /\ AllAcked /\ masterState = "M_PRECOMMITED"
  /\ masterTimer => masterState = "M_PRECOMMIT_MULTICASTED"
  /\ OldState \/ masterState \in {"M_PRECOMMIT_MULTICASTED", "M_PRECOMMITED"}

\* All have acknowledged.
Starting(w) ==
  /\ Own.state = "U_WAITING_COMMIT"
  /\ pc[w] \in {"findCommit", "commit"}
  /\ AllAcked /\ Quiet /\ masterState = "M_PRECOMMITED"

\* COMMIT is multicast.
Ordering(w) ==
  /\ Own.state = "U_WAITING_COMMIT"
  /\ \/ /\ pc[w] \in Called /\ job[w].ret = "waitSave" /\ job[w].st = "M_COMMITED"
        /\ IsOrder(job[w].msg)
        /\ Quiet /\ masterState = "M_PRECOMMITED"
     \/ /\ pc[w] = "waitSave" /\ masterState \in {"M_PRECOMMITED", "M_COMMITED"}
        /\ masterTimer => masterState = "M_COMMITED"
  /\ TimeoutsThen("TIMEOUT_MASTER")
  /\ \A p \in Peers : Stores(p) /\ srv[p] # "M_OPERATION_PERFORMED"
  /\ pc[w] = "send" => \A p \in Peers : p >= job[w].idx => Silent(p) /\ Equal(p)
  /\ pc[w] = "mark" => \A p \in Peers : p > job[w].idx => Silent(p) /\ Equal(p)

\* The answer to a COMMIT is handled.
Hearing(w) ==
  /\ pc[w] \in {"findCommit", "idle", "note", "once", "check", "master", "post"}
  /\ pc[w] \notin {"findCommit", "idle"} => job[w].num = Own.line.num /\ job[w].ret = "idle"
  /\ pc[w] = "note" =>
       /\ Silent(job[w].idx)
       /\ \/ job[w].st = "M_OPERATION_PERFORMED" /\ HasOwn(job[w].idx)
          \/ job[w].st = "M_OPERATION_UNSUCCESS"
  /\ pc[w] = "once" => job[w].st = "M_OPERATION_UNSUCCESS"
  /\ pc[w] = "check" =>
       /\ job[w].st = "M_OPERATION_PERFORMED"
       /\ \A p \in Peers : p < job[w].idx => srv[p] = "M_OPERATION_PERFORMED"
  /\ pc[w] \in {"master", "post"} =>
       \/ job[w].st = "M_OPERATION_UNSUCCESS"
       \/ job[w].st = "M_OPERATION_PERFORMED" /\ AllStored
  /\ pc[w] = "post" => masterState = job[w].st

\* The answers arrive.
Awaiting(w) ==
  /\ Own.state = "U_WAITING_SAVE"
  /\ Hearing(w) /\ \A p \in Peers : Stores(p)
  /\ TimeoutsThen("COMMIT_SUCCESS")
  /\ \A i \in DOMAIN queue : queue[i].type = "COMMIT_SUCCESS" =>
        /\ pc[w] = "idle" /\ AllStored /\ masterState = "M_OPERATION_PERFORMED"
        /\ queue[i].num = Own.line.num
  /\ masterTimer => masterState = "M_COMMITED"
  /\ masterState \in {"M_PRECOMMITED", "M_COMMITED", "M_OPERATION_PERFORMED",
                      "M_OPERATION_UNSUCCESS"}
  /\ masterState = "M_OPERATION_UNSUCCESS" =>
       pc[w] = "post" /\ job[w].st = "M_OPERATION_UNSUCCESS"

\* All have stored the command, and the master does.
Saving(w) ==
  /\ Own.state = "U_WAITING_SAVE"
  /\ pc[w] \in {"findSave", "save"} /\ job[w].num = Own.line.num
  /\ AllStored /\ Quiet /\ masterState = "M_OPERATION_PERFORMED"

\* The command is written: END, the answer and the user's record.
Finishing(w) ==
  /\ Own.state = "U_WAITING_SAVE"
  /\ \/ /\ pc[w] \in Called /\ job[w].ret = "reply" /\ job[w].st = "IDLE"
        /\ IsEnd(job[w].msg) /\ job[w].answer = "WROTE"
     \/ pc[w] = "reply" /\ job[w].answer = "WROTE"
     \/ pc[w] = "clear" /\ job[w].ret = "findSave"
  /\ Quiet /\ OldState /\ AllOff

\* The event that ends the exchange with an error.
Ends(e) ==
  \/ Own.state = "U_WAITING_COMMIT" /\ e.type = "PRECOMMIT_ERR"
  \/ Own.state = "U_WAITING_SAVE" /\ e.type = "COMMIT_UNSUCCESS" /\ e.num \in {NoNum, Own.line.num}

EndNext == \E i \in DOMAIN queue :
  Ends(queue[i]) /\ \A j \in 1..(i - 1) : queue[j].type = "TIMEOUT_MASTER"

\* A worker that handles an answer, or no event.
Handles(w) ==
  /\ pc[w] \in {"idle", "note", "once", "check", "master", "post"} /\ job[w].ret = "idle"
  /\ pc[w] \notin {"idle", "post"} => job[w].st \in ReplyStates

\* The timer has expired, and the event that ends the exchange is about to be posted.
TimedOut(w) ==
  /\ pc[w] = "post" /\ job[w].ret = "idle"
  /\ \A i \in DOMAIN queue : queue[i].type = "TIMEOUT_MASTER"
  /\ \/ Own.state = "U_WAITING_COMMIT" /\ job[w].st = "M_PRECOMMIT_MULTICASTED"
     \/ Own.state = "U_WAITING_SAVE" /\ job[w].st = "M_COMMITED" /\ job[w].num = NoNum

\* The command is going to be answered with an error.
Failing(w) ==
  \/ EndNext /\ Handles(w)
  \/ TimedOut(w)
  \/ /\ Own.state = "U_WAITING_COMMIT"
     /\ \/ pc[w] \in Called /\ job[w].ret = "findAbort" /\ job[w].st = "IDLE"
        \/ pc[w] \in {"findAbort", "refuse"}
  \/ /\ Own.state = "U_WAITING_SAVE"
     /\ \/ pc[w] \in {"findUndo", "undo"} /\ job[w].num \in {NoNum, Own.line.num}
        \/ /\ pc[w] \in Called /\ job[w].ret = "reply" /\ job[w].st = "IDLE"
           /\ job[w].answer # "WROTE"
        \/ pc[w] = "reply" /\ job[w].answer # "WROTE"

Phase(w) ==
  \/ Resting(w) \/ Connecting(w) \/ Asking(w) \/ Gathering(w) \/ Starting(w)
  \/ Ordering(w) \/ Awaiting(w) \/ Saving(w) \/ Finishing(w) \/ Failing(w)

\* A worker that handles no event has no number.
IdleNum(w) == pc[w] = "idle" => job[w].num = NoNum

LEMMA IdleNumNext ==
  ASSUME NEW w, Workers = {w}, Inv, IdleNum(w), [Next]_vars
  PROVE  IdleNum(w)'
<1>1. \A l, j : Go(w, l, j) => IdleNum(w)'
  BY WorkerType DEF IdleNum, Fresh
<1>2. UNCHANGED workerVars => IdleNum(w)'
  BY DEF workerVars, IdleNum
<1>3. CASE Step(w)
  <2>1. UNCHANGED workerVars \/ \E l, j : Go(w, l, j)
    BY <1>3, ZenonT(60) DEF Step, Connect, Link, NextPeer, Connected, Send, Mark, Advance, Check,
       SetMaster, Post, Note, Once, TakeEvent, FindCommit, FindAbort, FindSave, FindUndo, Find,
       Commit, WaitSave, Refuse, Save, Saved, Reply, Undo, Clear, Multicast
  <2> QED
    BY <1>1, <1>2, <2>1
<1>4. CASE Receive(w) \/ Command(w)
  <2>1. UNCHANGED workerVars \/ \E l, j : Go(w, l, j)
    BY <1>4, Zenon DEF Receive, RecvReply, PeerClosed, Command, SubmitWrite, SubmitReplace, Submit
  <2> QED
    BY <1>1, <1>2, <2>1
<1>5. CASE Spilling
  <2>1. ASSUME SaveSpills(w) PROVE IdleNum(w)'
    <3>1. \E l, j : Go(w, l, j)
      BY <2>1, Zenon DEF SaveSpills, Saved
    <3> QED
      BY <1>1, <3>1
  <2>2. ASSUME NEW p \in Peers, NEW k \in 1..MaxRecv, PeerCommitSpills(p, k)
        PROVE  IdleNum(w)'
    <3>1. UNCHANGED workerVars
      BY <2>2, Zenon DEF PeerCommitSpills
    <3> QED
      BY <1>2, <3>1
  <2> QED
    BY <1>5, <2>1, <2>2 DEF Spilling
<1>6. ASSUME NEW p \in Peers, PeerRecv(p) \/ SlaveTimeout(p) \/ PeerCrash(p) \/ PeerStart(p)
      PROVE  UNCHANGED workerVars
  BY <1>6, Zenon DEF PeerRecv, PeerPrecommit, PeerCommit, PeerRefuses, PeerEnd, SlaveTimeout,
     PeerCrash, PeerStart
<1>7. CASE MasterTimerFires \/ UNCHANGED vars
  BY <1>2, <1>7 DEF MasterTimerFires, vars
<1> QED
  BY <1>2, <1>3, <1>4, <1>5, <1>6, <1>7 DEF Next, Exchange

\* A job that differs in its place in the list of peers only.
Same(i, j) ==
  /\ i.st = j.st /\ i.msg = j.msg /\ i.ret = j.ret /\ i.num = j.num /\ i.answer = j.answer

otherVars == <<client, last, verdict>>

LEMMA StepAt ==
  ASSUME NEW w, Step(w)
  PROVE  /\ pc[w] = "connect" => Connect(w)
         /\ pc[w] = "link" => Link(w)
         /\ pc[w] = "connected" => Connected(w)
         /\ pc[w] = "send" => Send(w)
         /\ pc[w] = "mark" => Mark(w)
         /\ pc[w] = "check" => Check(w)
         /\ pc[w] = "master" => SetMaster(w)
         /\ pc[w] = "post" => Post(w)
         /\ pc[w] = "note" => Note(w)
         /\ pc[w] = "once" => Once(w)
         /\ pc[w] = "idle" => TakeEvent(w)
         /\ pc[w] = "findCommit" => FindCommit(w)
         /\ pc[w] = "commit" => Commit(w)
         /\ pc[w] = "waitSave" => WaitSave(w)
         /\ pc[w] = "findAbort" => FindAbort(w)
         /\ pc[w] = "refuse" => Refuse(w)
         /\ pc[w] = "findSave" => FindSave(w)
         /\ pc[w] = "save" => Save(w)
         /\ pc[w] = "reply" => Reply(w)
         /\ pc[w] = "findUndo" => FindUndo(w)
         /\ pc[w] = "undo" => Undo(w)
         /\ pc[w] = "clear" => Clear(w)
<1>1. /\ Connect(w) => pc[w] = "connect"
      /\ Link(w) => pc[w] = "link"
      /\ Connected(w) => pc[w] = "connected"
      /\ Send(w) => pc[w] = "send"
      /\ Mark(w) => pc[w] = "mark"
      /\ Check(w) => pc[w] = "check"
      /\ SetMaster(w) => pc[w] = "master"
      /\ Post(w) => pc[w] = "post"
      /\ Note(w) => pc[w] = "note"
      /\ Once(w) => pc[w] = "once"
      /\ TakeEvent(w) => pc[w] = "idle"
  BY DEF Connect, Link, Connected, Send, Mark, Check, SetMaster, Post, Note, Once, TakeEvent
<1>2. /\ FindCommit(w) => pc[w] = "findCommit"
      /\ FindAbort(w) => pc[w] = "findAbort"
      /\ FindSave(w) => pc[w] = "findSave"
      /\ FindUndo(w) => pc[w] = "findUndo"
  BY DEF FindCommit, FindAbort, FindSave, FindUndo, Find
<1>3. /\ Commit(w) => pc[w] = "commit"
      /\ WaitSave(w) => pc[w] = "waitSave"
      /\ Refuse(w) => pc[w] = "refuse"
      /\ Save(w) => pc[w] = "save"
      /\ Reply(w) => pc[w] = "reply"
      /\ Undo(w) => pc[w] = "undo"
      /\ Clear(w) => pc[w] = "clear"
  BY DEF Commit, WaitSave, Refuse, Save, Saved, Reply, Undo, Clear
<1> QED
  BY <1>1, <1>2, <1>3 DEF Step

\* The worker's steps, by what the phases say of them.
LEMMA SendEffect ==
  ASSUME NEW w, Workers = {w}, Inv, Send(w)
  PROVE  /\ UNCHANGED <<srv, masterState, masterTimer, queue, toMaster, file, otherVars>>
         /\ \A p \in Peers : p # job[w].idx => toPeer'[p] = toPeer[p]
         /\ LET p == job[w].idx IN
              \/ toPeer'[p] = toPeer[p]
              \/ pc'[w] = "mark" /\ toPeer'[p] = Append(toPeer[p], job[w].msg)
         /\ \/ pc'[w] = "mark" /\ job'[w] = job[w]
            \/ pc'[w] = job[w].ret /\ (job[w].ret # "idle" => job'[w] = job[w])
<1>1. /\ \A l, j : Go(w, l, j) => pc'[w] = l /\ (l # "idle" => job'[w] = j)
      /\ job[w].idx \in Peers /\ toPeer \in [Peers -> Seq(ToPeer)]
  BY WorkerType DEF Inv, TypeOK
<1>2. UNCHANGED <<srv, masterState, masterTimer, queue, toMaster, file, otherVars>>
  BY DEF Send, sharedVars, userVars, otherVars
<1>3. /\ \/ toPeer' = toPeer
         \/ toPeer' = [toPeer EXCEPT ![job[w].idx] = Append(@, job[w].msg)] /\ Go(w, "mark", job[w])
      /\ Go(w, job[w].ret, job[w]) \/ Go(w, "mark", job[w])
  BY Zenon DEF Send
<1>4. CASE toPeer' = toPeer
  BY <1>1, <1>2, <1>3, <1>4
<1>5. CASE toPeer' # toPeer
  <2>1. pc'[w] = "mark" /\ job'[w] = job[w]
    BY <1>1, <1>3, <1>5
  <2>2. toPeer' = [toPeer EXCEPT ![job[w].idx] = Append(@, job[w].msg)]
    BY <1>3, <1>5
  <2> QED
    BY <1>1, <1>2, <2>1, <2>2
<1> QED
  BY <1>4, <1>5

\* The next turn of a loop over the peers, or the first of the next loop.
LEMMA AdvanceEffect ==
  ASSUME NEW w, Workers = {w}, Inv, NEW loop, NEW after, Advance(w, loop, after),
         loop # "idle", after # "idle"
  PROVE  /\ Same(job'[w], job[w])
         /\ \/ job[w].idx < N /\ pc'[w] = loop /\ job'[w].idx = job[w].idx + 1
            \/ job[w].idx = N /\ pc'[w] = after /\ job'[w].idx = 1
<1> DEFINE more == [job[w] EXCEPT !.idx = @ + 1]
           first == [job[w] EXCEPT !.idx = 1]
<1>1. /\ \A l, j : Go(w, l, j) /\ l # "idle" => pc'[w] = l /\ job'[w] = j
      /\ job[w] \in Job /\ job[w].idx \in 1..N /\ N \in Nat
  BY WorkerType DEF ConstantsOK
<1>2. /\ Same(more, job[w]) /\ more.idx = job[w].idx + 1
      /\ Same(first, job[w]) /\ first.idx = 1
  BY <1>1 DEF Job, Same
<1>3. IF job[w].idx < N THEN Go(w, loop, more) ELSE Go(w, after, first)
  BY DEF Advance
<1> HIDE DEF more, first
<1> QED
  BY <1>1, <1>2, <1>3

LEMMA MarkEffect ==
  ASSUME NEW w, Workers = {w}, Inv, Mark(w)
  PROVE  /\ UNCHANGED <<masterState, masterTimer, queue, toPeer, toMaster, file, otherVars>>
         /\ srv'[job[w].idx] = job[w].st
         /\ \A p \in Peers : p # job[w].idx => srv'[p] = srv[p]
         /\ Same(job'[w], job[w])
         /\ \/ job[w].idx < N /\ pc'[w] = "send" /\ job'[w].idx = job[w].idx + 1
            \/ job[w].idx = N /\ pc'[w] = "check" /\ job'[w].idx = 1
<1>1. UNCHANGED <<masterState, masterTimer, queue, toPeer, toMaster, file, otherVars>>
  BY DEF Mark, netVars, userVars, otherVars
<1>2. srv \in [Peers -> ServerStates] /\ job[w].idx \in Peers
  BY WorkerType DEF Inv, TypeOK
<1>3. srv' = [srv EXCEPT ![job[w].idx] = job[w].st] /\ Advance(w, "send", "check")
  BY DEF Mark
<1>4. /\ Same(job'[w], job[w])
      /\ \/ job[w].idx < N /\ pc'[w] = "send" /\ job'[w].idx = job[w].idx + 1
         \/ job[w].idx = N /\ pc'[w] = "check" /\ job'[w].idx = 1
  BY <1>3, AdvanceEffect
<1> QED
  BY <1>1, <1>2, <1>3, <1>4

LEMMA CheckEffect ==
  ASSUME NEW w, Workers = {w}, Inv, Check(w)
  PROVE  /\ UNCHANGED <<srv, masterState, masterTimer, queue, toPeer, toMaster, file, otherVars>>
         /\ \/ /\ srv[job[w].idx] = job[w].st /\ Same(job'[w], job[w])
               /\ \/ job[w].idx < N /\ pc'[w] = "check" /\ job'[w].idx = job[w].idx + 1
                  \/ job[w].idx = N /\ pc'[w] = "master"
            \/ /\ srv[job[w].idx] # job[w].st
               /\ pc'[w] = job[w].ret /\ (job[w].ret # "idle" => job'[w] = job[w])
               /\ job[w].ret = "idle" => job'[w] = Fresh
<1>1. UNCHANGED <<srv, masterState, masterTimer, queue, toPeer, toMaster, file, otherVars>>
  BY DEF Check, sharedVars, netVars, userVars, otherVars
<1>2. CASE srv[job[w].idx] = job[w].st
  <2>1. Advance(w, "check", "master")
    BY <1>2 DEF Check
  <2> QED
    BY <1>1, <1>2, <2>1, AdvanceEffect
<1>3. CASE srv[job[w].idx] # job[w].st
  <2>1. Go(w, job[w].ret, job[w])
    BY <1>3 DEF Check
  <2> QED
    BY <1>1, <1>3, <2>1, WorkerType
<1> QED
  BY <1>2, <1>3

LEMMA SetMasterEffect ==
  ASSUME NEW w, Workers = {w}, Inv, SetMaster(w)
  PROVE  /\ UNCHANGED <<srv, queue, toPeer, toMaster, file, otherVars>>
         /\ masterState' = job[w].st
         /\ job[w].st \in ReplyStates => ~masterTimer'
         /\ job[w].st \notin ReplyStates =>
              masterTimer' = masterTimer \/ job[w].st \in {"M_PRECOMMIT_MULTICASTED", "M_COMMITED"}
         /\ job[w].st = "IDLE" => masterTimer' = masterTimer
         /\ IF job[w].st \in ReplyStates THEN pc'[w] = "post" /\ job'[w] = job[w]
            ELSE /\ pc'[w] = job[w].ret
                 /\ job'[w] = IF job[w].ret = "idle" THEN Fresh ELSE job[w]
<1>1. UNCHANGED <<srv, queue, toPeer, toMaster, file, otherVars>>
  BY DEF SetMaster, netVars, userVars, otherVars
<1>2. /\ masterState' = job[w].st
      /\ Go(w, IF job[w].st \in ReplyStates THEN "post" ELSE job[w].ret, job[w])
      /\ masterTimer' = CASE job[w].st \in {"M_PRECOMMIT_MULTICASTED", "M_COMMITED"} -> TRUE
                          [] job[w].st \in ReplyStates -> FALSE
                          [] OTHER -> masterTimer
  BY DEF SetMaster
<1>3. IF job[w].st \in ReplyStates THEN pc'[w] = "post" /\ job'[w] = job[w]
      ELSE pc'[w] = job[w].ret /\ job'[w] = IF job[w].ret = "idle" THEN Fresh ELSE job[w]
  BY <1>2, WorkerType
<1>4. /\ job[w].st \in ReplyStates => ~masterTimer'
      /\ job[w].st \notin ReplyStates =>
           masterTimer' = masterTimer \/ job[w].st \in {"M_PRECOMMIT_MULTICASTED", "M_COMMITED"}
      /\ job[w].st = "IDLE" => masterTimer' = masterTimer
  BY <1>2, Zenon DEF ReplyStates
<1> QED
  BY <1>1, <1>2, <1>3, <1>4

-----------------------------------------------------------------------------
(* What the worker's steps do, in the terms of the phases *)

\* What is said of a peer stays true as long as nothing is sent, read or saved.
LEMMA PeerSame ==
  ASSUME NEW p, toPeer'[p] = toPeer[p], toMaster'[p] = toMaster[p],
         file'[p] = file[p], file'[Master] = file[Master]
  PROVE  /\ Silent(p)' <=> Silent(p)
         /\ Equal(p)' <=> Equal(p)
         /\ Off(p) /\ srv'[p] # "M_PRECOMMITED" => Off(p)'
         /\ Asks(p) /\ (srv'[p] = "M_PRECOMMITED" => srv'[p] = srv[p] \/ Silent(p)) => Asks(p)'
<1>1. (Silent(p)' <=> Silent(p)) /\ (Equal(p)' <=> Equal(p))
  BY DEF Silent, Equal
<1>2. Off(p) /\ srv'[p] # "M_PRECOMMITED" => Off(p)'
  BY <1>1 DEF Off
<1>3. ASSUME Asks(p), srv'[p] = "M_PRECOMMITED" => srv'[p] = srv[p] \/ Silent(p)
      PROVE  Asks(p)'
  <2>1. CASE Asked(toPeer[p]) /\ toMaster[p] = <<>> /\ (srv[p] = "M_PRECOMMITED" => toPeer[p] = <<>>)
    BY <1>1, <1>3, <2>1 DEF Asks, Silent
  <2>2. CASE /\ toPeer[p] = <<>> /\ toMaster[p] = <<[kind |-> "ACK", num |-> NoNum]>>
             /\ srv[p] # "M_PRECOMMITED"
    BY <1>1, <1>3, <2>2 DEF Asks, Silent
  <2> QED
    BY <1>3, <2>1, <2>2 DEF Asks
<1> QED
  BY <1>1, <1>2, <1>3

LEMMA OwnSame ==
  ASSUME NEW p, toPeer'[p] = toPeer[p], toMaster'[p] = toMaster[p],
         file'[p] = file[p], file'[Master] = file[Master],
         Own'.cmd = Own.cmd, Own'.line = Own.line
  PROVE  /\ HasOwn(p)' <=> HasOwn(p)
         /\ /\ Stores(p)
            /\ srv'[p] = "M_OPERATION_PERFORMED" => srv'[p] = srv[p] \/ (Silent(p) /\ HasOwn(p))
            => Stores(p)'
<1>1. (HasOwn(p)' <=> HasOwn(p)) /\ (Equal(p)' <=> Equal(p))
  BY DEF HasOwn, WithOwn, Equal
<1>2. \A m : IsOrder(m)' <=> IsOrder(m)
  BY Zenon DEF IsOrder
<1>3. ASSUME Stores(p),
             srv'[p] = "M_OPERATION_PERFORMED" => srv'[p] = srv[p] \/ (Silent(p) /\ HasOwn(p))
      PROVE  Stores(p)'
  <2>1. CASE /\ Len(toPeer[p]) = 1 /\ IsOrder(toPeer[p][1])
             /\ toMaster[p] = <<>> /\ Equal(p) /\ srv[p] # "M_OPERATION_PERFORMED"
    <3>1. srv'[p] # "M_OPERATION_PERFORMED"
      <4>1. Silent(p) => Len(toPeer[p]) = 0
        BY DEF Silent
      <4> QED
        BY <1>3, <2>1, <4>1
    <3> QED
      BY <1>1, <1>2, <2>1, <3>1 DEF Stores
  <2>2. CASE /\ toPeer[p] = <<>> /\ Len(toMaster[p]) <= 1
             /\ \A i \in DOMAIN toMaster[p] :
                  /\ toMaster[p][i].num = Own.line.num /\ toMaster[p][i].kind # "ACK"
                  /\ toMaster[p][i].kind = "SUCCESS" => HasOwn(p)
             /\ srv[p] = "M_OPERATION_PERFORMED" => HasOwn(p) /\ toMaster[p] = <<>>
    <3>1. srv'[p] = "M_OPERATION_PERFORMED" => HasOwn(p)' /\ toMaster'[p] = <<>>
      BY <1>1, <1>3, <2>2 DEF Silent
    <3>2. \A i \in DOMAIN toMaster'[p] :
            /\ toMaster'[p][i].num = Own'.line.num /\ toMaster'[p][i].kind # "ACK"
            /\ toMaster'[p][i].kind = "SUCCESS" => HasOwn(p)'
      BY <1>1, <2>2
    <3> QED
      BY <2>2, <3>1, <3>2 DEF Stores
  <2> QED
    BY <1>3, <2>1, <2>2 DEF Stores
<1> QED
  BY <1>1, <1>3

\* There is one user.
LEMMA OneUser ==
  ASSUME NEW w, Workers = {w}, NUsers = 1, Inv
  PROVE  /\ Users = {1} /\ job[w].usr = 1
         /\ Own \in Client /\ Own.line \in Line /\ client \in [Users -> Client]
         /\ \A st : /\ Own.state = st => FirstOf(Waiting(st)) = {1}
                    /\ Own.state # st => Waiting(st) = {} /\ FirstOf(Waiting(st)) = {}
<1>1. Users = {1} /\ job[w].usr = 1
  BY WorkerType
<1>2. client \in [Users -> Client] /\ Own \in Client
  BY <1>1 DEF Inv, TypeOK, Own
<1>3. ASSUME NEW st
      PROVE  /\ Own.state = st => FirstOf(Waiting(st)) = {1}
             /\ Own.state # st => Waiting(st) = {} /\ FirstOf(Waiting(st)) = {}
  BY <1>1 DEF Waiting, FirstOf, Own
<1> QED
  BY <1>1, <1>2, <1>3 DEF Client

LEMMA FindEffect ==
  ASSUME NEW w, Workers = {w}, NUsers = 1, Inv,
         NEW loop, NEW st, NEW found, NEW nums, Find(w, loop, st, found, nums), found # "idle"
  PROVE  /\ UNCHANGED <<srv, masterState, masterTimer, queue, toPeer, toMaster, file, otherVars>>
         /\ \/ Own.state # st /\ pc'[w] = "idle"
            \/ /\ Own.state = st /\ Own.line.num \in nums
               /\ pc'[w] = found /\ Same(job'[w], job[w])
<1>1. UNCHANGED <<srv, masterState, masterTimer, queue, toPeer, toMaster, file, otherVars>>
  BY DEF Find, sharedVars, netVars, userVars, otherVars
<1>2. CASE Waiting(st) = {} /\ Go(w, "idle", Fresh)
  <2>1. Own.state # st
    BY <1>2, OneUser DEF FirstOf
  <2> QED
    BY <1>1, <1>2, <2>1, WorkerType
<1>3. ASSUME NEW u \in FirstOf(Waiting(st)), client[u].line.num \in nums,
             Go(w, found, [job[w] EXCEPT !.usr = u])
      PROVE  Own.state = st /\ Own.line.num \in nums /\ pc'[w] = found /\ Same(job'[w], job[w])
  <2> DEFINE j == [job[w] EXCEPT !.usr = u]
  <2>1. u = 1 /\ Own.state = st
    BY <1>3, OneUser
  <2>2. Same(j, job[w]) /\ Go(w, found, j)
    BY <1>3, WorkerType DEF Same, Job
  <2> HIDE DEF j
  <2>3. pc'[w] = found /\ job'[w] = j
    BY <2>2, WorkerType
  <2> QED
    BY <1>3, <2>1, <2>2, <2>3 DEF Own
<1> QED
  BY <1>1, <1>2, <1>3 DEF Find

LEMMA NoteEffect ==
  ASSUME NEW w, Workers = {w}, Inv, Note(w)
  PROVE  /\ UNCHANGED <<masterState, masterTimer, queue, toPeer, toMaster, file, otherVars>>
         /\ srv'[job[w].idx] = job[w].st
         /\ \A p \in Peers : p # job[w].idx => srv'[p] = srv[p]
         /\ Same(job'[w], job[w]) /\ job'[w].idx = 1
         /\ pc'[w] = IF job[w].st = "M_OPERATION_UNSUCCESS" THEN "once" ELSE "check"
<1> DEFINE j == [job[w] EXCEPT !.idx = 1]
<1>1. UNCHANGED <<masterState, masterTimer, queue, toPeer, toMaster, file, otherVars>>
  BY DEF Note, netVars, userVars, otherVars
<1>2. srv \in [Peers -> ServerStates] /\ job[w].idx \in Peers
  BY WorkerType DEF Inv, TypeOK
<1>3. srv' = [srv EXCEPT ![job[w].idx] = job[w].st]
  BY DEF Note
<1>4. /\ Go(w, IF job[w].st = "M_OPERATION_UNSUCCESS" THEN "once" ELSE "check", j)
      /\ Same(j, job[w]) /\ j.idx = 1
  BY WorkerType DEF Note, Same, Job
<1> HIDE DEF j
<1>5. /\ pc'[w] = IF job[w].st = "M_OPERATION_UNSUCCESS" THEN "once" ELSE "check"
      /\ job'[w] = j
  BY <1>4, WorkerType
<1> QED
  BY <1>1, <1>2, <1>3, <1>4, <1>5

LEMMA OnceEffect ==
  ASSUME NEW w, Workers = {w}, Inv, Once(w)
  PROVE  /\ UNCHANGED <<srv, masterState, masterTimer, queue, toPeer, toMaster, file, otherVars>>
         /\ IF masterState # "M_OPERATION_UNSUCCESS" THEN pc'[w] = "master" /\ job'[w] = job[w]
            ELSE pc'[w] = "idle" /\ job'[w] = Fresh
<1>1. UNCHANGED <<srv, masterState, masterTimer, queue, toPeer, toMaster, file, otherVars>>
  BY DEF Once, sharedVars, netVars, userVars, otherVars
<1>2. Go(w, IF masterState # "M_OPERATION_UNSUCCESS" THEN "master" ELSE "idle", job[w])
  BY DEF Once
<1> QED
  BY <1>1, <1>2, WorkerType

\* The event of a state.
EventOf(st) == CASE st = "M_PRECOMMITED" -> "PRECOMMIT_ACK"
                 [] st = "M_PRECOMMIT_MULTICASTED" -> "PRECOMMIT_ERR"
                 [] st = "M_OPERATION_PERFORMED" -> "COMMIT_SUCCESS"
                 [] OTHER -> "COMMIT_UNSUCCESS"

LEMMA PostEffect ==
  ASSUME NEW w, Workers = {w}, Inv, Post(w)
  PROVE  /\ UNCHANGED <<srv, masterState, masterTimer, toPeer, toMaster, file, otherVars>>
         /\ pc'[w] = "idle" /\ job'[w] = Fresh
         /\ \E e : /\ queue' = Append(queue, e) /\ e.num = job[w].num
                   /\ e.type = EventOf(job[w].st)
<1> DEFINE e == [type |-> EventOf(job[w].st), num |-> job[w].num, unknown |-> job[w].unknown]
<1>1. UNCHANGED <<srv, masterState, masterTimer, toPeer, toMaster, file, otherVars>>
  BY DEF Post, netVars, userVars, otherVars
<1>2. Go(w, "idle", Fresh)
  BY DEF Post
<1>3. queue' = Append(queue, e)
  BY Zenon DEF Post, Enqueue, EventOf
<1>4. e.num = job[w].num /\ e.type = EventOf(job[w].st)
  OBVIOUS
<1> HIDE DEF e
<1> QED
  BY <1>1, <1>2, <1>3, <1>4, WorkerType

LEMMA EventOfStates ==
  /\ EventOf("M_PRECOMMITED") = "PRECOMMIT_ACK"
  /\ EventOf("M_OPERATION_PERFORMED") = "COMMIT_SUCCESS"
  /\ EventOf("M_OPERATION_UNSUCCESS") = "COMMIT_UNSUCCESS"
  /\ EventOf("M_PRECOMMIT_MULTICASTED") = "PRECOMMIT_ERR"
  /\ EventOf("M_COMMITED") = "COMMIT_UNSUCCESS"
BY DEF EventOf

LEMMA StateAfterOf ==
  ASSUME NEW m \in ToMaster
  PROVE  /\ StateAfter(m.kind) \in ReplyStates
         /\ m.kind = "ACK" => StateAfter(m.kind) = "M_PRECOMMITED"
         /\ m.kind # "ACK" =>
              \/ StateAfter(m.kind) = "M_OPERATION_PERFORMED" /\ m.kind = "SUCCESS"
              \/ StateAfter(m.kind) = "M_OPERATION_UNSUCCESS"
BY DEF StateAfter, ReplyStates, ToMaster

LEMMA OnlyOne ==
  ASSUME NEW k \in Nat, NEW n \in Nat, 1 <= k, k <= n, n <= 1
  PROVE  k = 1 /\ n = 1
OBVIOUS

\* What is so once worker w has read from peer p.
HasRead(w, p) ==
  /\ UNCHANGED <<srv, masterState, masterTimer, queue, toPeer, file, otherVars>>
  /\ \A q \in Peers : q # p => toMaster'[q] = toMaster[q]
  /\ toMaster[p] # <<>> /\ pc[w] = "idle"
  /\ Len(toMaster[p]) <= 1 => toMaster'[p] = <<>> /\ 1 \in DOMAIN toMaster[p]
  /\ \/ UNCHANGED workerVars /\ Len(toMaster[p]) > 1
     \/ /\ pc'[w] = "note" /\ job'[w].idx = p /\ job'[w].ret = "idle"
        /\ toMaster[p][1] \in ToMaster /\ job'[w].st = StateAfter(toMaster[p][1].kind)
        /\ Len(toMaster[p]) <= 1 => job'[w].num = toMaster[p][1].num

LEMMA RecvEffect ==
  ASSUME NEW w, Workers = {w}, Inv, NEW p \in Peers, NEW k \in 1..MaxRecv, RecvReply(w, p, k)
  PROVE  HasRead(w, p)
<1> DEFINE s == toMaster[p]
           m == Head(s)
           j == [job[w] EXCEPT !.idx = p, !.st = StateAfter(m.kind),
                               !.num = IF k > 1 THEN Garbled ELSE m.num,
                               !.unknown = (m.kind = "UNKNOWN")]
<1>1. UNCHANGED <<srv, masterState, masterTimer, queue, toPeer, file, otherVars>>
  BY DEF RecvReply, sharedVars, userVars, otherVars
<1>2. /\ pc[w] = "idle" /\ k <= Len(s) /\ k \in Nat /\ 1 <= k
      /\ toMaster' = [toMaster EXCEPT ![p] = SubSeq(@, k + 1, Len(@))]
      /\ \/ UNCHANGED workerVars /\ k > 1
         \/ Go(w, "note", j)
  BY DEF RecvReply
<1>3. toMaster \in [Peers -> Seq(ToMaster)] /\ s \in Seq(ToMaster)
  BY DEF Inv, TypeOK
<1>4. /\ Len(s) \in Nat /\ s # <<>> /\ m = s[1] /\ 1 \in DOMAIN s /\ s[1] \in ToMaster
      /\ DOMAIN s = 1..Len(s)
  BY <1>2, <1>3, LenProperties, HeadIsFirst
<1>5. Len(s) <= 1 => k = 1 /\ Len(s) = 1
  <2>1. k <= Len(s) /\ k \in Nat /\ 1 <= k /\ Len(s) \in Nat
    BY <1>2, <1>4
  <2> QED
    BY <2>1, OnlyOne
<1>6. Len(s) <= 1 => toMaster'[p] = <<>>
  BY <1>2, <1>3, <1>5, SubSeqEmpty
<1>7. /\ j.idx = p /\ j.ret = "idle" /\ j.st = StateAfter(m.kind)
      /\ j.num = IF k > 1 THEN Garbled ELSE m.num
  BY <1>2, WorkerType DEF Job, Returning
<1> HIDE DEF j
<1>8. Go(w, "note", j) => pc'[w] = "note" /\ job'[w] = j
  BY WorkerType
<1>9. \A q \in Peers : q # p => toMaster'[q] = toMaster[q]
  BY <1>2, <1>3
<1>10. UNCHANGED workerVars /\ k > 1 => Len(s) > 1
  BY <1>2, <1>4
<1>11. ASSUME Go(w, "note", j)
       PROVE  /\ pc'[w] = "note" /\ job'[w].idx = p /\ job'[w].ret = "idle"
              /\ s[1] \in ToMaster /\ job'[w].st = StateAfter(s[1].kind)
              /\ Len(s) <= 1 => job'[w].num = s[1].num
  BY <1>4, <1>5, <1>7, <1>8, <1>11
<1> QED
  BY <1>1, <1>2, <1>4, <1>6, <1>9, <1>10, <1>11 DEF HasRead

LEMMA ClosedEffect ==
  ASSUME NEW w, Workers = {w}, Inv, NEW p \in Peers, PeerClosed(w, p)
  PROVE  /\ UNCHANGED <<masterState, masterTimer, queue, pc, job, toPeer, toMaster, file, otherVars>>
         /\ \A q \in Peers : srv'[q] = srv[q] \/ srv'[q] = "DISCONNECT"
         /\ pc[w] = "idle"
<1>1. srv \in [Peers -> ServerStates]
  BY DEF Inv, TypeOK
<1> QED
  BY <1>1 DEF PeerClosed, userVars, workerVars, otherVars

\* A multicast starts.
LEMMA MulticastEffect ==
  ASSUME NEW w, Workers = {w}, Inv, NEW m, NEW st, NEW ret, Multicast(w, m, st, ret)
  PROVE  /\ pc'[w] = "send" /\ job'[w].idx = 1
         /\ job'[w].msg = m /\ job'[w].st = st /\ job'[w].ret = ret
         /\ job'[w].num = job[w].num /\ job'[w].answer = job[w].answer
<1> DEFINE j == Sending(job[w], m, st, ret)
<1>1. /\ j.idx = 1 /\ j.msg = m /\ j.st = st /\ j.ret = ret
      /\ j.num = job[w].num /\ j.answer = job[w].answer
  BY WorkerType DEF Sending, Job
<1>2. Go(w, "send", j)
  BY DEF Multicast
<1> HIDE DEF j
<1> QED
  BY <1>1, <1>2, WorkerType

LEMMA HandlerOf ==
  ASSUME NEW t \in EventTypes, t # "TIMEOUT_MASTER", t # "PRECOMMIT_ERR"
  PROVE  /\ t = "PRECOMMIT_ACK" => Handler(t) = "findCommit"
         /\ t = "COMMIT_SUCCESS" => Handler(t) = "findSave"
         /\ t = "COMMIT_UNSUCCESS" => Handler(t) = "findUndo"
         /\ Handler(t) # "idle"
BY DEF Handler, EventTypes

LEMMA TakeEffect ==
  ASSUME NEW w, Workers = {w}, Inv, TakeEvent(w)
  PROVE  /\ UNCHANGED <<srv, masterState, masterTimer, toPeer, toMaster, file, otherVars>>
         /\ queue \in Seq(Event) /\ queue # <<>> /\ queue[1] \in Event /\ 1 \in DOMAIN queue
         /\ queue' = Tail(queue)
         /\ queue[1].type = "TIMEOUT_MASTER" =>
              IF masterState \in {"M_PRECOMMIT_MULTICASTED", "M_COMMITED"}
                THEN /\ pc'[w] = "post" /\ job'[w].st = masterState /\ job'[w].ret = "idle"
                     /\ job'[w].num = job[w].num
                ELSE UNCHANGED workerVars
         /\ queue[1].type = "PRECOMMIT_ERR" =>
              pc'[w] = "send" /\ job'[w].ret = "findAbort" /\ job'[w].st = "IDLE"
         /\ queue[1].type \notin {"TIMEOUT_MASTER", "PRECOMMIT_ERR"} =>
              pc'[w] = Handler(queue[1].type) /\ job'[w].num = queue[1].num
<1> DEFINE e == Head(queue)
           j == [job[w] EXCEPT !.num = e.num, !.unknown = e.unknown]
           i == [job[w] EXCEPT !.st = masterState]
<1>1. UNCHANGED <<srv, masterState, masterTimer, toPeer, toMaster, file, otherVars>>
  BY DEF TakeEvent, netVars, userVars, otherVars
<1>2. queue \in Seq(Event) /\ queue # <<>>
  BY DEF Inv, TypeOK, TakeEvent
<1>3. e = queue[1] /\ 1 \in DOMAIN queue /\ queue[1] \in Event
  <2>1. Len(queue) \in Nat /\ Len(queue) >= 1 /\ DOMAIN queue = 1..Len(queue)
    BY <1>2, LenProperties, EmptySeq
  <2> QED
    BY <1>2, <2>1, HeadIsFirst
<1>4. CASE e.type = "TIMEOUT_MASTER"
  <2>1. /\ queue' = Tail(queue)
        /\ IF masterState \in {"M_PRECOMMIT_MULTICASTED", "M_COMMITED"} THEN Go(w, "post", i)
           ELSE UNCHANGED workerVars
    BY <1>4 DEF TakeEvent
  <2>2. i.st = masterState /\ i.ret = "idle" /\ i.num = job[w].num
    BY WorkerType DEF Job, Returning, TakeEvent
  <2> HIDE DEF i
  <2>3. Go(w, "post", i) => pc'[w] = "post" /\ job'[w] = i
    BY WorkerType
  <2> HIDE DEF e
  <2> QED
    BY <1>1, <1>2, <1>3, <1>4, <2>1, <2>2, <2>3 DEF e
<1>5. CASE e.type = "PRECOMMIT_ERR"
  <2>1. queue' = Tail(queue) /\ Multicast(w, Msg("ABORT", NoLine), "IDLE", "findAbort")
    BY <1>5 DEF TakeEvent
  <2> QED
    BY <1>1, <1>2, <1>3, <1>5, <2>1, MulticastEffect
<1>6. CASE e.type \notin {"TIMEOUT_MASTER", "PRECOMMIT_ERR"}
  <2>1. queue' = Tail(queue) /\ Go(w, Handler(e.type), j)
    BY <1>6 DEF TakeEvent
  <2>2. j.num = e.num
    BY <1>3, WorkerType DEF Job
  <2>3. Handler(e.type) # "idle"
    BY <1>3, <1>6, HandlerOf DEF Event
  <2> HIDE DEF j
  <2>4. pc'[w] = Handler(e.type) /\ job'[w] = j
    BY <2>1, <2>3, WorkerType
  <2> HIDE DEF e
  <2> QED
    BY <1>1, <1>2, <1>3, <1>6, <2>1, <2>2, <2>4
<1> QED
  BY <1>4, <1>5, <1>6

LEMMA CommitEffect ==
  ASSUME NEW w, Workers = {w}, NUsers = 1, Inv, Commit(w)
  PROVE  /\ UNCHANGED <<srv, masterState, masterTimer, queue, toPeer, toMaster, file, otherVars>>
         /\ pc'[w] = "send" /\ job'[w].idx = 1 /\ job'[w].ret = "waitSave"
         /\ job'[w].st = "M_COMMITED" /\ IsOrder(job'[w].msg)
<1> DEFINE m == Msg(IF Own.cmd = "WRITE" THEN "COMMIT WRITE" ELSE "COMMIT REPLACE", Own.line)
<1>1. UNCHANGED <<srv, masterState, masterTimer, queue, toPeer, toMaster, file, otherVars>>
  BY DEF Commit, sharedVars, netVars, userVars, otherVars
<1>2. Multicast(w, m, "M_COMMITED", "waitSave")
  BY OneUser, Zenon DEF Commit, Own
<1>3. IsOrder(m)
  BY Zenon DEF IsOrder, Msg
<1> HIDE DEF m
<1>4. job'[w].msg = m /\ pc'[w] = "send" /\ job'[w].idx = 1 /\ job'[w].ret = "waitSave" /\ job'[w].st = "M_COMMITED"
  BY <1>2, MulticastEffect
<1> QED
  BY <1>1, <1>3, <1>4

LEMMA WaitSaveEffect ==
  ASSUME NEW w, Workers = {w}, NUsers = 1, Inv, WaitSave(w)
  PROVE  /\ UNCHANGED <<srv, masterState, masterTimer, queue, toPeer, toMaster, file, last, verdict>>
         /\ pc'[w] = "findCommit"
         /\ Own'.state = "U_WAITING_SAVE" /\ Own'.cmd = Own.cmd /\ Own'.line = Own.line
<1>1. UNCHANGED <<srv, masterState, masterTimer, queue, toPeer, toMaster, file, last, verdict>>
  BY DEF WaitSave, sharedVars, netVars
<1>2. client' = [client EXCEPT ![1].state = "U_WAITING_SAVE"] /\ 1 \in Users
  BY OneUser DEF WaitSave
<1>3. Own' = [Own EXCEPT !.state = "U_WAITING_SAVE"]
  BY <1>2, OneUser DEF Own
<1>4. Own'.state = "U_WAITING_SAVE" /\ Own'.cmd = Own.cmd /\ Own'.line = Own.line
  <2>1. Own \in Client
    BY OneUser
  <2> QED
    BY <1>3, <2>1 DEF Client
<1> QED
  BY <1>1, <1>4, WorkerType DEF WaitSave

LEMMA SaveEffect ==
  ASSUME NEW w, Workers = {w}, NUsers = 1, Inv, Save(w)
  PROVE  /\ UNCHANGED <<srv, masterState, masterTimer, queue, toPeer, toMaster, otherVars>>
         /\ \A p \in Peers : file'[p] = file[p]
         /\ pc'[w] = "send" /\ job'[w].idx = 1 /\ job'[w].ret = "reply" /\ job'[w].st = "IDLE"
         /\ \/ job'[w].answer # "WROTE"
            \/ /\ job'[w].answer = "WROTE" /\ IsEnd(job'[w].msg)
               /\ file'[Master] = WithOwn(file[Master])
<1>1. UNCHANGED <<srv, masterState, masterTimer, queue, toPeer, toMaster, otherVars>>
  BY DEF Save, Saved, sharedVars, netVars, userVars, otherVars
<1>2. /\ file \in [Servers -> Seq(Line)] /\ Master \in Servers /\ ~(Master \in Peers)
      /\ Peers \subseteq Servers
  BY DEF Inv, TypeOK
<1>3. PICK r \in SaveResults(file[Master], Own.cmd, Own.line) :
        /\ file' = [file EXCEPT ![Master] = r.file]
        /\ Go(w, "send",
             Sending([job[w] EXCEPT !.answer = r.result],
                     Msg(IF r.result = "WROTE" THEN "END SUCCESS" ELSE "END UNSUCCESS",
                         Bare(job[w].num)), "IDLE", "reply"))
  BY OneUser, Zenon DEF Save, Saved, Own
<1> DEFINE m == Msg(IF r.result = "WROTE" THEN "END SUCCESS" ELSE "END UNSUCCESS",
                         Bare(job[w].num))
           i == [job[w] EXCEPT !.answer = r.result]
           j == Sending(i, m, "IDLE", "reply")
<1>4. r.result = "WROTE" => IsEnd(m)
  BY Zenon DEF IsEnd, Msg
<1>5. Go(w, "send", j)
  BY <1>3
<1> HIDE DEF m
<1>6. j.idx = 1 /\ j.ret = "reply" /\ j.st = "IDLE" /\ j.msg = m /\ j.answer = r.result
  BY WorkerType DEF Job, Sending
<1> HIDE DEF j
<1>7. pc'[w] = "send" /\ job'[w] = j
  BY <1>5, WorkerType
<1>8. r.result = "WROTE" => r.file = WithOwn(file[Master])
  BY <1>2, OneUser, OwnSave
<1>9. file'[Master] = r.file /\ \A p \in Peers : file'[p] = file[p]
  BY <1>2, <1>3
<1> QED
  BY <1>1, <1>4, <1>6, <1>7, <1>8, <1>9

LEMMA ClearEffect ==
  ASSUME NEW w, Workers = {w}, NUsers = 1, Inv, Clear(w), job[w].ret = "findSave"
  PROVE  /\ UNCHANGED <<srv, masterState, masterTimer, queue, toPeer, toMaster, file, last, verdict>>
         /\ pc'[w] = "findSave" /\ Own'.state = "IDLE"
<1>1. UNCHANGED <<srv, masterState, masterTimer, queue, toPeer, toMaster, file, last, verdict>>
  BY DEF Clear, sharedVars, netVars
<1>2. client' = [client EXCEPT ![1].state = "IDLE", ![1].line = NoLine] /\ 1 \in Users
  BY OneUser DEF Clear
<1>3. Own'.state = "IDLE"
  <2> DEFINE c == [client[1] EXCEPT !.state = "IDLE"]
             d == [c EXCEPT !.line = NoLine]
  <2>1. client'[1] = d
    BY <1>2, OneUser
  <2>2. d.state = "IDLE"
    BY <1>2, OneUser DEF Client
  <2> QED
    BY <2>1, <2>2 DEF Own
<1>4. Go(w, "findSave", job[w])
  BY DEF Clear
<1> QED
  BY <1>1, <1>3, <1>4, WorkerType

LEMMA NextPeerEffect ==
  ASSUME NEW w, Workers = {w}, Inv, NEW ok, NextPeer(w, ok)
  PROVE  \/ pc'[w] = "connect"
         \/ pc'[w] = "check" /\ job'[w].ret = "connected" /\ job'[w].st = "IDLE"
<1> DEFINE j == [job[w] EXCEPT !.ok = ok, !.idx = @ + 1]
           i == [job[w] EXCEPT !.ok = ok, !.idx = 1, !.st = "IDLE", !.ret = "connected"]
<1>1. Go(w, "connect", j) \/ Go(w, "check", i)
  BY DEF NextPeer
<1>2. i.ret = "connected" /\ i.st = "IDLE"
  BY WorkerType DEF Job
<1> HIDE DEF i, j
<1> QED
  BY <1>1, <1>2, WorkerType

LEMMA ConnectEffect ==
  ASSUME NEW w, Workers = {w}, Inv, Connect(w) \/ Link(w)
  PROVE  /\ UNCHANGED <<masterState, masterTimer, queue, file, otherVars>>
         /\ \A p \in Peers :
              /\ srv'[p] = srv[p] \/ srv'[p] = "IDLE"
              /\ \/ toPeer'[p] = toPeer[p] /\ toMaster'[p] = toMaster[p]
                 \/ toPeer'[p] = <<>> /\ toMaster'[p] = <<>>
         /\ \/ pc'[w] \in {"connect", "link"}
            \/ pc'[w] = "check" /\ job'[w].ret = "connected" /\ job'[w].st = "IDLE"
<1> DEFINE x == job[w].idx
<1>1. UNCHANGED <<masterState, masterTimer, queue, file, otherVars>>
  BY DEF Connect, Link, sharedVars, userVars, otherVars
<1>2. /\ srv \in [Peers -> ServerStates] /\ x \in Peers
      /\ toPeer \in [Peers -> Seq(ToPeer)] /\ toMaster \in [Peers -> Seq(ToMaster)]
  BY WorkerType DEF Inv, TypeOK
<1>3. Go(w, "link", job[w]) \/ \E ok : NextPeer(w, ok)
  BY Zenon DEF Connect, Link
<1>4. \/ pc'[w] \in {"connect", "link"}
      \/ pc'[w] = "check" /\ job'[w].ret = "connected" /\ job'[w].st = "IDLE"
  <2>1. Go(w, "link", job[w]) => pc'[w] = "link"
    BY WorkerType
  <2> QED
    BY <1>3, <2>1, NextPeerEffect
<1>5. /\ srv' = srv \/ srv' = [srv EXCEPT ![x] = "IDLE"]
      /\ \/ UNCHANGED <<toPeer, toMaster>>
         \/ /\ toPeer' = [toPeer EXCEPT ![x] = <<>>]
            /\ toMaster' = [toMaster EXCEPT ![x] = <<>>]
  BY Zenon DEF Connect, Link, sharedVars, netVars
<1>6. \A p \in Peers :
        /\ srv'[p] = srv[p] \/ srv'[p] = "IDLE"
        /\ \/ toPeer'[p] = toPeer[p] /\ toMaster'[p] = toMaster[p]
           \/ toPeer'[p] = <<>> /\ toMaster'[p] = <<>>
  BY <1>2, <1>5
<1> QED
  BY <1>1, <1>4, <1>6

LEMMA ConnectedEffect ==
  ASSUME NEW w, Workers = {w}, NUsers = 1, Inv, Connected(w)
  PROVE  /\ UNCHANGED <<srv, masterState, masterTimer, queue, toPeer, toMaster, file, client, last>>
         /\ \/ Answer(1, "ERROR")
            \/ /\ pc'[w] = "send" /\ job'[w].idx = 1 /\ job'[w].ret = "idle"
               /\ job'[w].st = "M_PRECOMMIT_MULTICASTED" /\ IsPrecommit(job'[w].msg)
<1>1. UNCHANGED <<srv, masterState, masterTimer, queue, toPeer, toMaster, file, client, last>>
  BY DEF Connected, sharedVars, netVars
<1>2. CASE ~job[w].ok
  BY <1>1, <1>2, OneUser DEF Connected
<1>3. CASE job[w].ok
  <2>1. Multicast(w, Msg("PRECOMMIT", NoLine), "M_PRECOMMIT_MULTICASTED", "idle")
    BY <1>3 DEF Connected
  <2> DEFINE m == Msg("PRECOMMIT", NoLine)
  <2>2. IsPrecommit(m)
    BY DEF IsPrecommit, Msg
  <2> HIDE DEF m
  <2> QED
    BY <1>1, <2>1, <2>2, MulticastEffect DEF m
<1> QED
  BY <1>2, <1>3

LEMMA CommandEffect ==
  ASSUME NEW w, Workers = {w}, NUsers = 1, Inv, Command(w)
  PROVE  /\ UNCHANGED <<srv, masterState, masterTimer, queue, toPeer, toMaster, file, verdict>>
         /\ pc[w] = "idle" /\ ~Pending(1)
         /\ pc'[w] = "connect" /\ Own'.state = "U_WAITING_COMMIT"
<1>1. PICK u \in Users : \E cmd, num : Submit(w, u, cmd, num)
  BY DEF Command, SubmitWrite, SubmitReplace
<1>2. u = 1
  BY <1>1, OneUser
<1>3. /\ UNCHANGED <<srv, masterState, masterTimer, queue, toPeer, toMaster, file, verdict>>
      /\ pc[w] = "idle" /\ ~Pending(1)
  BY <1>1, <1>2 DEF Submit, sharedVars, netVars
<1>4. Go(w, "connect", [job[w] EXCEPT !.usr = u])
  BY <1>1 DEF Submit
<1>5. PICK cmd, num : client' = [client EXCEPT ![u] =
                  [state |-> "U_WAITING_COMMIT", cmd |-> cmd,
                   line |-> [num |-> num, text |-> issued']]]
  BY <1>1 DEF Submit
<1>6. Own'.state = "U_WAITING_COMMIT"
  BY <1>2, <1>5, OneUser DEF Own
<1> QED
  BY <1>3, <1>4, <1>6, WorkerType

-----------------------------------------------------------------------------
(* The steps of the peers, of the timer and of arriving commands and answers *)

LEMMA OnlyAnswer ==
  ASSUME NEW s \in Seq(Verdicts), NEW v, v \in Verdicts, Append(s, v) \in {<<>>, <<"WROTE">>}
  PROVE  s = <<>> /\ v = "WROTE"
<1>1. /\ Len(s) \in Nat /\ Len(Append(s, v)) = Len(s) + 1
      /\ Append(s, v)[Len(s) + 1] = v
  BY AppendProperties, LenProperties
<1>2. Len(<<>>) = 0 /\ Len(<<"WROTE">>) = 1 /\ <<"WROTE">>[1] = "WROTE"
  OBVIOUS
<1>3. Append(s, v) = <<"WROTE">> /\ Len(s) = 0
  BY <1>1, <1>2
<1>4. s = <<>>
  BY <1>3, EmptySeq
<1>5. v = "WROTE"
  BY <1>1, <1>2, <1>3
<1> QED
  BY <1>4, <1>5

LEMMA AnswerWell ==
  ASSUME NEW w, Workers = {w}, NUsers = 1, Inv, NEW v, v \in Verdicts, Answer(1, v), AllWell'
  PROVE  AllWell /\ (last[1] # 0 => v = "WROTE")
<1>1. /\ verdict \in [Cmds -> Seq(Verdicts)] /\ last[1] \in 0..MaxCmds
  BY OneUser DEF Inv, TypeOK
<1>2. CASE last[1] = 0
  BY <1>2 DEF Answer, AllWell
<1>3. CASE last[1] # 0
  <2> DEFINE c == last[1]
  <2>1. c \in Cmds /\ verdict[c] \in Seq(Verdicts)
    BY <1>1, <1>3
  <2>2. verdict' = [verdict EXCEPT ![c] = Append(@, v)]
    BY <1>3 DEF Answer
  <2>3. verdict'[c] = Append(verdict[c], v) /\ \A d \in Cmds : d # c => verdict'[d] = verdict[d]
    BY <1>1, <2>1, <2>2
  <2>4. verdict[c] = <<>> /\ v = "WROTE"
    <3>1. Append(verdict[c], v) \in {<<>>, <<"WROTE">>}
      BY <2>1, <2>3 DEF AllWell
    <3> QED
      BY <2>1, <3>1, OnlyAnswer
  <2>5. AllWell
    BY <2>3, <2>4 DEF AllWell
  <2> QED
    BY <2>4, <2>5
<1> QED
  BY <1>2, <1>3

\* The answers are never taken back.
LEMMA WellBefore ==
  ASSUME NEW w, Workers = {w}, NUsers = 1, Inv, [Exchange]_vars, AllWell'
  PROVE  AllWell
<1>0. [Next]_vars
  BY DEF Next
<1>1. \A v \in Verdicts : Answer(1, v) => AllWell
  BY AnswerWell
<1>2. {"ERROR", "UNKNOWN"} \subseteq Verdicts /\ job[w].answer \in Verdicts
  BY WorkerType DEF Verdicts, Job
<1>3. UNCHANGED verdict \/ \E v \in Verdicts : Answer(1, v)
  BY <1>0, <1>2, OneUser, VerdictSteps DEF Connected, Refuse, Reply, Undo
<1> QED
  BY <1>1, <1>3 DEF AllWell

\* A user that waits has no answer.
LEMMA WaitsUnanswered ==
  ASSUME NEW w, Workers = {w}, NUsers = 1, Inv, Answering(w), AllWell,
         Own.state # "IDLE"
  PROVE  last[1] # 0 /\ (pc[w] # "clear" => Pending(1))
<1>1. last[1] \in 0..MaxCmds /\ 1 \in Users
  BY OneUser DEF Inv, TypeOK
<1>2. AwaitedBy(w, 1)
  BY <1>1 DEF Answering, Awaited, Own
<1>3. last[1] # 0 /\ last[1] \in Cmds
  BY <1>1, <1>2 DEF AwaitedBy
<1>4. verdict[last[1]] # <<"ERROR">>
  <2>1. verdict[last[1]] \in {<<>>, <<"WROTE">>}
    BY <1>3 DEF AllWell
  <2>2. <<"ERROR">> # <<>> /\ <<"ERROR">> # <<"WROTE">>
    <3>1. <<"ERROR">>[1] = "ERROR" /\ <<"WROTE">>[1] = "WROTE"
      OBVIOUS
    <3> QED
      BY <3>1
  <2> QED
    BY <2>1, <2>2
<1> QED
  BY <1>2, <1>3, <1>4 DEF AwaitedBy, Unanswered, Cleared, Pending

\* The phases that the peers' steps do not end.
LEMMA PeersPhase ==
  ASSUME NEW w, Workers = {w}, NUsers = 1, Inv, Phase(w),
         \A p \in Peers : PeerEffect(p), file'[Master] = file[Master],
         UNCHANGED <<sharedVars, workerVars, userVars>>
  PROVE  Phase(w)'
<1>0. /\ UNCHANGED <<srv, masterState, masterTimer, queue, pc, job, client>>
      /\ Own \in Client /\ TypeOK /\ Own' = Own
      /\ job[w].idx \in Peers
  BY OneUser, WorkerType DEF sharedVars, workerVars, userVars, Inv, Own
<1>1. \A p \in Peers : (Off(p) => Off(p)') /\ (Asks(p) => Asks(p)') /\ (Stores(p) => Stores(p)')
  BY <1>0, OffKept, AsksKept, StoresKept
<1>2. \A p \in Peers : Silent(p) => /\ Silent(p)'
                                    /\ Equal(p) => Equal(p)'
                                    /\ HasOwn(p) => HasOwn(p)'
  BY <1>0, SilentKept DEF Equal, HasOwn, WithOwn
<1>3. (AllOff => AllOff') /\ (AllAcked => AllAcked') /\ (AllStored => AllStored')
  BY <1>0, <1>1, <1>2 DEF AllOff, AllAcked, AllStored
<1>4. /\ IsOrder(job[w].msg) => IsOrder(job[w].msg)'
      /\ IsPrecommit(job[w].msg) => IsPrecommit(job[w].msg)'
      /\ IsEnd(job[w].msg) => IsEnd(job[w].msg)'
  BY <1>0, Zenon DEF IsOrder, IsPrecommit, IsEnd
<1>5. \A t : TimeoutsThen(t) => TimeoutsThen(t)'
  BY <1>0 DEF TimeoutsThen
<1>6. (Quiet => Quiet') /\ (OldState => OldState')
  BY <1>0 DEF Quiet, OldState
<1>7. Resting(w) => Resting(w)'
  BY <1>0, <1>3, <1>6 DEF Resting
<1>8. Connecting(w) => Connecting(w)'
  BY <1>0, <1>3, <1>6 DEF Connecting
<1>9. Asking(w) => Asking(w)'
  BY <1>0, <1>1, <1>4, <1>6 DEF Asking
<1>10. Gathering(w) => Gathering(w)'
  <2>1. Acking(w) => Acking(w)'
    BY <1>0, <1>2, <1>3 DEF Acking
  <2> QED
    BY <1>0, <1>1, <1>3, <1>5, <1>6, <2>1 DEF Gathering
<1>11. Starting(w) => Starting(w)'
  BY <1>0, <1>3, <1>6 DEF Starting
<1>12. Ordering(w) => Ordering(w)'
  BY <1>0, <1>1, <1>2, <1>4, <1>5, <1>6 DEF Ordering
<1>13. Awaiting(w) => Awaiting(w)'
  <2>1. Hearing(w) => Hearing(w)'
    BY <1>0, <1>2, <1>3 DEF Hearing
  <2> QED
    BY <1>0, <1>1, <1>3, <1>5, <2>1 DEF Awaiting
<1>14. Saving(w) => Saving(w)'
  BY <1>0, <1>3, <1>6 DEF Saving
<1>15. Finishing(w) => Finishing(w)'
  BY <1>0, <1>3, <1>4, <1>6 DEF Finishing
<1>16. Failing(w) => Failing(w)'
  BY <1>0 DEF Failing, TimedOut, EndNext, Ends, Handles
<1> QED
  BY <1>7, <1>8, <1>9, <1>10, <1>11, <1>12, <1>13, <1>14, <1>15, <1>16 DEF Phase

\* An event behind the others.
LEMMA Appended ==
  ASSUME Inv, NEW e, queue' = Append(queue, e)
  PROVE  /\ Len(queue) \in Nat /\ DOMAIN queue = 1..Len(queue)
         /\ DOMAIN queue' = 1..(Len(queue) + 1) /\ Len(queue') = Len(queue) + 1
         /\ queue'[Len(queue) + 1] = e
         /\ \A i \in DOMAIN queue : queue'[i] = queue[i]
         /\ client' = client /\ EndNext => EndNext'
<1>1. queue \in Seq(Event)
  BY DEF Inv, TypeOK
<1>2. /\ Len(queue) \in Nat /\ DOMAIN queue = 1..Len(queue)
      /\ DOMAIN queue' = 1..(Len(queue) + 1) /\ Len(queue') = Len(queue) + 1
      /\ queue'[Len(queue) + 1] = e
      /\ \A i \in DOMAIN queue : queue'[i] = queue[i]
  <2>1. /\ Len(queue) \in Nat /\ DOMAIN queue = 1..Len(queue)
        /\ Len(Append(queue, e)) = Len(queue) + 1
        /\ DOMAIN Append(queue, e) = 1..(Len(queue) + 1)
        /\ Append(queue, e)[Len(queue) + 1] = e
        /\ \A i \in 1..Len(queue) : Append(queue, e)[i] = queue[i]
    BY <1>1, LenProperties, AppendProperties
  <2> QED
    BY <2>1
<1>3. ASSUME client' = client, EndNext PROVE EndNext'
  <2>1. PICK i \in DOMAIN queue :
          Ends(queue[i]) /\ \A j \in 1..(i - 1) : queue[j].type = "TIMEOUT_MASTER"
    BY <1>3 DEF EndNext
  <2>2. /\ Own' = Own /\ i \in DOMAIN queue' /\ queue'[i] = queue[i]
        /\ \A j \in 1..(i - 1) : queue'[j].type = "TIMEOUT_MASTER"
    BY <1>2, <1>3, <2>1 DEF Own
  <2> QED
    BY <2>1, <2>2 DEF EndNext, Ends
<1> QED
  BY <1>2, <1>3

LEMMA TimerPhase ==
  ASSUME NEW w, Workers = {w}, NUsers = 1, Inv, Phase(w), MasterTimerFires
  PROVE  Phase(w)'
<1>0. /\ masterTimer /\ ~masterTimer'
      /\ UNCHANGED <<srv, masterState, pc, job, toPeer, toMaster, file, client>>
  BY DEF MasterTimerFires, workerVars, netVars, userVars
<1>1. PICK e : queue' = Append(queue, e) /\ e.type = "TIMEOUT_MASTER"
  BY DEF MasterTimerFires, Enqueue
<1>2. /\ Len(queue) \in Nat /\ DOMAIN queue = 1..Len(queue)
      /\ DOMAIN queue' = 1..(Len(queue) + 1) /\ Len(queue') = Len(queue) + 1
      /\ queue'[Len(queue) + 1].type = "TIMEOUT_MASTER"
      /\ \A i \in DOMAIN queue : queue'[i] = queue[i]
      /\ EndNext => EndNext'
  BY <1>0, <1>1, Appended
<1>3. \A t : TimeoutsThen(t) /\ (\A i \in DOMAIN queue : queue[i].type # t) => TimeoutsThen(t)'
  BY <1>2 DEF TimeoutsThen
<1>4. TimeoutsThen("TIMEOUT_MASTER") => TimeoutsThen("TIMEOUT_MASTER")'
  BY <1>2 DEF TimeoutsThen
<1>5. \A t : t # "TIMEOUT_MASTER" /\ (\A i \in DOMAIN queue : queue[i].type # t)
        => \A i \in DOMAIN queue' : queue'[i].type # t
  BY <1>2
<1>6. /\ \A p : (Silent(p)' <=> Silent(p)) /\ (Equal(p)' <=> Equal(p)) /\ (HasOwn(p)' <=> HasOwn(p))
      /\ \A p : (Asks(p) => Asks(p)') /\ (Stores(p) => Stores(p)')
      /\ Own' = Own
  BY <1>0, PeerSame, OwnSame DEF Own
<1>7. (AllAcked => AllAcked') /\ (AllStored => AllStored')
  BY <1>0, <1>6 DEF AllAcked, AllStored
<1>8. ~Resting(w) /\ ~Connecting(w) /\ ~Asking(w) /\ ~Starting(w) /\ ~Saving(w) /\ ~Finishing(w)
  BY <1>0 DEF Resting, Connecting, Asking, Starting, Saving, Finishing, Quiet
<1>9. CASE Gathering(w)
  <2>1. \A i \in DOMAIN queue : queue[i].type # "PRECOMMIT_ACK"
    BY <1>0, <1>9 DEF Gathering
  <2>2. Acking(w)'
    BY <1>0, <1>6, <1>7, <1>9 DEF Gathering, Acking
  <2>3. Gathering(w)'
    BY <1>0, <1>3, <1>5, <1>6, <1>9, <2>1, <2>2 DEF Gathering, OldState
  <2> QED
    BY <2>3 DEF Phase
<1>10. CASE Ordering(w)
  <2>1. pc[w] = "waitSave"
    BY <1>0, <1>10 DEF Ordering, Quiet
  <2>2. Ordering(w)'
    BY <1>0, <1>4, <1>6, <1>10, <2>1 DEF Ordering
  <2> QED
    BY <2>2 DEF Phase
<1>11. CASE Awaiting(w)
  <2>1. \A i \in DOMAIN queue : queue[i].type # "COMMIT_SUCCESS"
    BY <1>0, <1>11 DEF Awaiting
  <2>2. Hearing(w)'
    BY <1>0, <1>6, <1>7, <1>11 DEF Awaiting, Hearing
  <2>3. Awaiting(w)'
    BY <1>0, <1>3, <1>5, <1>6, <1>11, <2>1, <2>2 DEF Awaiting
  <2> QED
    BY <2>3 DEF Phase
<1>12. CASE Failing(w)
  <2>1. Failing(w)'
    <3>1. TimedOut(w) => TimedOut(w)'
      BY <1>0, <1>2, <1>6 DEF TimedOut
    <3>2. Handles(w) => Handles(w)'
      BY <1>0 DEF Handles
    <3> QED
      BY <1>0, <1>2, <1>6, <1>12, <3>1, <3>2 DEF Failing
  <2> QED
    BY <2>1 DEF Phase
<1> QED
  BY <1>8, <1>9, <1>10, <1>11, <1>12 DEF Phase

\* Between commands nothing is under way.
LEMMA IdlePhase ==
  ASSUME NEW w, Phase(w), Own.state = "IDLE"
  PROVE  Resting(w)
<1>1. /\ ~Connecting(w) /\ ~Asking(w) /\ ~Gathering(w) /\ ~Starting(w) /\ ~Ordering(w)
  BY DEF Connecting, Asking, Gathering, Starting, Ordering
<1>2. ~Awaiting(w) /\ ~Saving(w) /\ ~Finishing(w) /\ ~Failing(w)
  BY DEF Awaiting, Saving, Finishing, Failing, TimedOut, EndNext, Ends
<1> QED
  BY <1>1, <1>2 DEF Phase

LEMMA CommandPhase ==
  ASSUME NEW w, Workers = {w}, NUsers = 1, Inv, Answering(w), AllWell, Phase(w), Command(w)
  PROVE  Phase(w)'
<1>1. /\ UNCHANGED <<srv, masterState, masterTimer, queue, toPeer, toMaster, file>>
      /\ pc[w] = "idle" /\ ~Pending(1)
      /\ pc'[w] = "connect" /\ Own'.state = "U_WAITING_COMMIT"
  BY CommandEffect
<1>2. Resting(w)
  BY <1>1, WaitsUnanswered, IdlePhase
<1>3. AllOff'
  <2>1. \A p : Off(p) => Off(p)'
    BY <1>1 DEF Off, Equal
  <2> QED
    BY <1>2, <2>1 DEF Resting, AllOff
<1>4. Quiet' /\ OldState'
  BY <1>1, <1>2 DEF Resting, Quiet, OldState
<1>5. Connecting(w)'
  BY <1>1, <1>3, <1>4 DEF Connecting
<1> QED
  BY <1>5 DEF Phase

\* A worker waits for events and answers in four of the phases.
LEMMA IdlePlaces ==
  ASSUME NEW w, Phase(w), pc[w] = "idle"
  PROVE  Resting(w) \/ Gathering(w) \/ Awaiting(w) \/ (EndNext /\ Handles(w))
<1>1. ~Connecting(w) /\ ~Asking(w) /\ ~Starting(w) /\ ~Ordering(w) /\ ~Saving(w) /\ ~Finishing(w)
  BY DEF Connecting, Asking, Starting, Ordering, Saving, Finishing, Called
<1>2. Failing(w) => EndNext /\ Handles(w)
  BY DEF Failing, TimedOut, Called
<1> QED
  BY <1>1, <1>2 DEF Phase

LEMMA ClosedPhase ==
  ASSUME NEW w, Workers = {w}, NUsers = 1, Inv, Phase(w), NEW p \in Peers, PeerClosed(w, p)
  PROVE  Phase(w)'
<1>0. /\ UNCHANGED <<masterState, masterTimer, queue, pc, job, toPeer, toMaster, file, client>>
      /\ \A q \in Peers : srv'[q] = srv[q] \/ srv'[q] = "DISCONNECT"
      /\ pc[w] = "idle" /\ Own' = Own
  BY ClosedEffect DEF otherVars, Own
<1>1. \A q \in Peers : /\ Off(q) => Off(q)'
                       /\ Asks(q) => Asks(q)'
                       /\ Stores(q) => Stores(q)'
                       /\ Silent(q)' <=> Silent(q)
                       /\ Equal(q)' <=> Equal(q)
                       /\ HasOwn(q)' <=> HasOwn(q)
  <2>1. SUFFICES ASSUME NEW q \in Peers
                 PROVE  /\ Off(q) => Off(q)'
                        /\ Asks(q) => Asks(q)'
                        /\ Stores(q) => Stores(q)'
                        /\ Silent(q)' <=> Silent(q)
                        /\ Equal(q)' <=> Equal(q)
                        /\ HasOwn(q)' <=> HasOwn(q)
    OBVIOUS
  <2>2. /\ Off(q) => Off(q)'
        /\ Asks(q) => Asks(q)'
        /\ Silent(q)' <=> Silent(q)
        /\ Equal(q)' <=> Equal(q)
    <3>1. Off(q) => srv'[q] # "M_PRECOMMITED"
      BY <1>0 DEF Off
    <3>2. srv'[q] = "M_PRECOMMITED" => srv'[q] = srv[q]
      BY <1>0
    <3> QED
      BY <1>0, <3>1, <3>2, PeerSame
  <2>3. (Stores(q) => Stores(q)') /\ (HasOwn(q)' <=> HasOwn(q))
    <3>1. srv'[q] = "M_OPERATION_PERFORMED" => srv'[q] = srv[q]
      BY <1>0
    <3> QED
      BY <1>0, <3>1, OwnSame
  <2> QED
    BY <2>2, <2>3
<1>2. (AllOff => AllOff') /\ (AllAcked => AllAcked') /\ (AllStored => AllStored')
  BY <1>0, <1>1 DEF AllOff, AllAcked, AllStored
<1>3. \A t : TimeoutsThen(t) => TimeoutsThen(t)'
  BY <1>0 DEF TimeoutsThen
<1>4. Resting(w) => Resting(w)'
  BY <1>0, <1>2 DEF Resting, Quiet, OldState
<1>5. Gathering(w) => Gathering(w)'
  BY <1>0, <1>1, <1>2, <1>3 DEF Gathering, Acking, OldState
<1>6. Awaiting(w) => Awaiting(w)'
  BY <1>0, <1>1, <1>2, <1>3 DEF Awaiting, Hearing
<1>7. EndNext /\ Handles(w) => Failing(w)'
  BY <1>0 DEF Failing, EndNext, Ends, Handles
<1> QED
  BY <1>0, <1>4, <1>5, <1>6, <1>7, IdlePlaces DEF Phase

LEMMA RecvPhase ==
  ASSUME NEW w, Workers = {w}, NUsers = 1, Inv, Phase(w),
         NEW p \in Peers, NEW k \in 1..MaxRecv, RecvReply(w, p, k)
  PROVE  Phase(w)'
<1> DEFINE s == toMaster[p]
<1>0. /\ UNCHANGED <<srv, masterState, masterTimer, queue, toPeer, file, client>>
      /\ pc[w] = "idle" /\ s # <<>> /\ Own' = Own
      /\ \A q \in Peers : q # p => toMaster'[q] = toMaster[q]
      /\ Len(s) <= 1 => toMaster'[p] = <<>> /\ 1 \in DOMAIN s
      /\ \/ UNCHANGED workerVars /\ Len(s) > 1
         \/ /\ pc'[w] = "note" /\ job'[w].idx = p /\ job'[w].ret = "idle"
            /\ s[1] \in ToMaster /\ job'[w].st = StateAfter(s[1].kind)
            /\ Len(s) <= 1 => job'[w].num = s[1].num
  <2>1. HasRead(w, p)
    BY RecvEffect
  <2> QED
    BY <2>1 DEF HasRead, otherVars, Own
<1>1. \A q \in Peers : q # p => (Asks(q) => Asks(q)') /\ (Stores(q) => Stores(q)')
  BY <1>0, PeerSame, OwnSame
<1>2. Silent(p) => FALSE
  BY <1>0 DEF Silent
<1>3. ~Resting(w)
  BY <1>0 DEF Resting, AllOff, Off
<1>4. \A t : TimeoutsThen(t) => TimeoutsThen(t)'
  BY <1>0 DEF TimeoutsThen
<1>5. CASE Gathering(w)
  <2>1. /\ Equal(p) /\ toPeer[p] = <<>> /\ s = <<[kind |-> "ACK", num |-> NoNum]>>
        /\ srv[p] # "M_PRECOMMITED"
    BY <1>0, <1>5 DEF Gathering, Asks
  <2>2. Len(s) = 1 /\ ~(Len(s) > 1) /\ s[1].kind = "ACK"
    BY <2>1
  <2>3. /\ pc'[w] = "note" /\ job'[w].idx = p /\ job'[w].ret = "idle"
        /\ job'[w].st = "M_PRECOMMITED" /\ toMaster'[p] = <<>>
    BY <1>0, <2>2, StateAfterOf
  <2>4. Asks(p)' /\ Silent(p)'
    <3>1. Asked(<<>>)
      BY DEF Asked
    <3> QED
      BY <1>0, <2>1, <2>3, <3>1 DEF Asks, Silent, Equal
  <2>5. ~AllAcked
    BY <1>2 DEF AllAcked
  <2>6. Acking(w)'
    BY <2>3, <2>4 DEF Acking
  <2>7. \A i \in DOMAIN queue : queue[i].type # "PRECOMMIT_ACK"
    BY <1>5, <2>5 DEF Gathering
  <2>8. \A q \in Peers : Asks(q)'
    BY <1>1, <1>5, <2>4 DEF Gathering
  <2>9. Gathering(w)'
    BY <1>0, <1>4, <1>5, <2>6, <2>7, <2>8 DEF Gathering, OldState
  <2> QED
    BY <2>9 DEF Phase
<1>6. CASE Awaiting(w)
  <2>0. Len(s) # 0
    <3>1. s \in Seq(ToMaster)
      BY DEF Inv, TypeOK
    <3> QED
      BY <1>0, <3>1, EmptySeq
  <2>1. /\ toPeer[p] = <<>> /\ Len(s) <= 1 /\ srv[p] # "M_OPERATION_PERFORMED"
        /\ \A i \in DOMAIN s : /\ s[i].num = Own.line.num /\ s[i].kind # "ACK"
                               /\ s[i].kind = "SUCCESS" => HasOwn(p)
    BY <1>0, <1>6 DEF Awaiting, Stores
  <2>2. /\ toMaster'[p] = <<>> /\ 1 \in DOMAIN s /\ ~(Len(s) > 1)
    <3>1. Len(s) \in Nat
      <4>1. s \in Seq(ToMaster)
        BY DEF Inv, TypeOK
      <4> QED
        BY <4>1, LenProperties
    <3> QED
      BY <1>0, <2>1, <3>1
  <2>3. /\ pc'[w] = "note" /\ job'[w].idx = p /\ job'[w].ret = "idle"
        /\ job'[w].num = Own.line.num
        /\ \/ job'[w].st = "M_OPERATION_PERFORMED" /\ HasOwn(p)
           \/ job'[w].st = "M_OPERATION_UNSUCCESS"
    BY <1>0, <2>1, <2>2, StateAfterOf
  <2>4. Stores(p)' /\ Silent(p)' /\ (HasOwn(p) => HasOwn(p)')
    <3>1. Len(<<>>) = 0 /\ DOMAIN <<>> = {}
      OBVIOUS
    <3> QED
      BY <1>0, <2>1, <2>2, <3>1 DEF Stores, Silent, HasOwn, WithOwn
  <2>5. ~AllStored
    BY <1>2 DEF AllStored
  <2>6. Hearing(w)'
    BY <1>0, <2>3, <2>4 DEF Hearing
  <2>7. \A i \in DOMAIN queue : queue[i].type # "COMMIT_SUCCESS"
    BY <1>6, <2>5 DEF Awaiting
  <2>8. \A q \in Peers : Stores(q)'
    BY <1>1, <1>6, <2>4 DEF Awaiting
  <2>9. masterState # "M_OPERATION_UNSUCCESS"
    BY <1>0, <1>6 DEF Awaiting
  <2>10. Awaiting(w)'
    BY <1>0, <1>4, <1>6, <2>6, <2>7, <2>8, <2>9 DEF Awaiting
  <2> QED
    BY <2>10 DEF Phase
<1>7. CASE EndNext /\ Handles(w)
  <2>1. EndNext'
    BY <1>0, <1>7 DEF EndNext, Ends
  <2>2. Handles(w)'
    BY <1>0, <1>7, StateAfterOf DEF Handles, workerVars
  <2> QED
    BY <2>1, <2>2 DEF Phase, Failing
<1> QED
  BY <1>0, <1>3, <1>5, <1>6, <1>7, IdlePlaces

-----------------------------------------------------------------------------
(* The worker's steps, phase by phase *)

\* A step that no peer and no file takes part in.
LEMMA Still ==
  ASSUME UNCHANGED <<srv, toPeer, toMaster, file>>, Own'.cmd = Own.cmd, Own'.line = Own.line
  PROVE  /\ \A p : /\ Off(p) => Off(p)'
                   /\ Asks(p) => Asks(p)'
                   /\ Stores(p) => Stores(p)'
                   /\ Silent(p)' <=> Silent(p)
                   /\ Equal(p)' <=> Equal(p)
                   /\ HasOwn(p)' <=> HasOwn(p)
         /\ AllOff => AllOff'
         /\ AllAcked => AllAcked'
         /\ AllStored => AllStored'
<1>1. \A p : /\ Off(p) => Off(p)'
             /\ Asks(p) => Asks(p)'
             /\ Silent(p)' <=> Silent(p)
             /\ Equal(p)' <=> Equal(p)
  <2>1. \A p : Off(p) => srv'[p] # "M_PRECOMMITED"
    BY DEF Off
  <2> QED
    BY <2>1, PeerSame
<1>2. \A p : (Stores(p) => Stores(p)') /\ (HasOwn(p)' <=> HasOwn(p))
  BY OwnSame
<1> QED
  BY <1>1, <1>2 DEF AllOff, AllAcked, AllStored

LEMMA OwnUnchanged == ASSUME UNCHANGED otherVars
                      PROVE  client' = client /\ last' = last /\ verdict' = verdict /\ Own' = Own
BY DEF otherVars, Own

LEMMA RestingStep ==
  ASSUME NEW w, Workers = {w}, NUsers = 1, Inv, Resting(w), Step(w)
  PROVE  Phase(w)'
<1>1. pc[w] # "idle"
  BY StepAt, TakeEffect DEF Resting, Quiet
<1>2. FindSave(w)
  BY <1>1, StepAt DEF Resting
<1>3. /\ UNCHANGED <<srv, masterState, masterTimer, queue, toPeer, toMaster, file, otherVars>>
      /\ pc'[w] = "idle"
  BY <1>2, FindEffect DEF FindSave, Resting
<1>4. AllOff' /\ Own' = Own
  BY <1>3, OwnUnchanged, Still DEF Resting
<1>5. Resting(w)'
  BY <1>3, <1>4 DEF Resting, Quiet, OldState
<1> QED
  BY <1>5 DEF Phase

LEMMA ConnectingStep ==
  ASSUME NEW w, Workers = {w}, NUsers = 1, Inv, Answering(w), AllWell, AllWell',
         Connecting(w), Step(w)
  PROVE  Phase(w)'
<1>0. Ended(<<>>)
  BY DEF Ended
<1>1. CASE pc[w] \in {"connect", "link"}
  <2>1. /\ UNCHANGED <<masterState, masterTimer, queue, file, otherVars>>
        /\ \A p \in Peers :
             /\ srv'[p] = srv[p] \/ srv'[p] = "IDLE"
             /\ \/ toPeer'[p] = toPeer[p] /\ toMaster'[p] = toMaster[p]
                \/ toPeer'[p] = <<>> /\ toMaster'[p] = <<>>
        /\ \/ pc'[w] \in {"connect", "link"}
           \/ pc'[w] = "check" /\ job'[w].ret = "connected" /\ job'[w].st = "IDLE"
    BY <1>1, StepAt, ConnectEffect
  <2>2. \A p \in Peers : Off(p) => Off(p)'
    BY <1>0, <2>1 DEF Off, Equal
  <2>3. AllOff' /\ Own' = Own
    BY <2>1, <2>2, OwnUnchanged DEF Connecting, AllOff
  <2>4. Connecting(w)'
    BY <2>1, <2>3 DEF Connecting, Quiet, OldState
  <2> QED
    BY <2>4 DEF Phase
<1>2. CASE pc[w] = "connected"
  <2>1. /\ UNCHANGED <<srv, masterState, masterTimer, queue, toPeer, toMaster, file, client, last>>
        /\ \/ Answer(1, "ERROR")
           \/ /\ pc'[w] = "send" /\ job'[w].idx = 1 /\ job'[w].ret = "idle"
              /\ job'[w].st = "M_PRECOMMIT_MULTICASTED" /\ IsPrecommit(job'[w].msg)
    BY <1>2, StepAt, ConnectedEffect
  <2>2. ~Answer(1, "ERROR")
    <3>1. last[1] # 0
      BY WaitsUnanswered DEF Connecting
    <3>2. "ERROR" \in Verdicts /\ "ERROR" # "WROTE"
      BY DEF Verdicts
    <3> QED
      BY <3>1, <3>2, AnswerWell
  <2>3. AllOff' /\ Own' = Own
    BY <2>1, Still DEF Connecting, Own
  <2>4. \A p : Off(p) => Asks(p) /\ srv[p] # "M_PRECOMMITED"
    BY DEF Off, Asks, Ended, Asked
  <2>5. \A p \in Peers : Asks(p)' /\ srv'[p] # "M_PRECOMMITED" /\ Off(p)'
    BY <2>1, <2>3, <2>4, Still DEF Connecting, AllOff, Own
  <2>6. IsPrecommit(job[w].msg)'
    BY <2>1, <2>2 DEF IsPrecommit
  <2>7. Asking(w)'
    BY <2>1, <2>2, <2>3, <2>5, <2>6 DEF Connecting, Asking, Quiet, OldState, Called
  <2> QED
    BY <2>7 DEF Phase
<1>3. CASE pc[w] = "check"
  <2>1. /\ UNCHANGED <<srv, masterState, masterTimer, queue, toPeer, toMaster, file, otherVars>>
        /\ \/ Same(job'[w], job[w]) /\ pc'[w] \in {"check", "master"}
           \/ pc'[w] = "connected"
    BY <1>3, StepAt, CheckEffect DEF Connecting
  <2>2. AllOff' /\ Own' = Own
    BY <2>1, OwnUnchanged, Still DEF Connecting
  <2>3. Connecting(w)'
    BY <1>3, <2>1, <2>2 DEF Connecting, Quiet, OldState, Same
  <2> QED
    BY <2>3 DEF Phase
<1>4. CASE pc[w] = "master"
  <2>1. "IDLE" \notin ReplyStates /\ job[w].st = "IDLE" /\ job[w].ret = "connected"
    BY <1>4 DEF ReplyStates, Connecting
  <2>2. /\ UNCHANGED <<srv, queue, toPeer, toMaster, file, otherVars>>
        /\ masterState' = "IDLE" /\ masterTimer' = masterTimer /\ pc'[w] = "connected"
    BY <1>4, <2>1, StepAt, SetMasterEffect
  <2>3. AllOff' /\ Own' = Own
    BY <2>2, OwnUnchanged, Still DEF Connecting
  <2>4. Connecting(w)'
    BY <2>2, <2>3 DEF Connecting, Quiet, OldState
  <2> QED
    BY <2>4 DEF Phase
<1> QED
  BY <1>1, <1>2, <1>3, <1>4 DEF Connecting

\* The multicast of PRECOMMIT ends, whole or not.
LEMMA AllAsked ==
  ASSUME NEW w, Asking(w), Own'.state = Own.state, \A p \in Peers : Asks(p)',
         queue' = queue, pc'[w] = "idle",
         \/ masterState' = masterState /\ masterTimer' = masterTimer
         \/ masterState' = "M_PRECOMMIT_MULTICASTED"
  PROVE  Phase(w)'
<1>1. Acking(w)'
  BY DEF Acking
<1>2. queue' = <<>> /\ Own'.state = "U_WAITING_COMMIT"
  BY DEF Asking, Quiet
<1>3. /\ masterTimer' => masterState' = "M_PRECOMMIT_MULTICASTED"
      /\ OldState' \/ masterState' = "M_PRECOMMIT_MULTICASTED"
  BY DEF Asking, Quiet, OldState
<1>4. TimeoutsThen("PRECOMMIT_ACK")' /\ ~(\E i \in DOMAIN queue' : queue'[i].type = "PRECOMMIT_ACK")
  BY <1>2 DEF TimeoutsThen
<1>5. Gathering(w)'
  BY <1>1, <1>2, <1>3, <1>4 DEF Gathering
<1> QED
  BY <1>5 DEF Phase

LEMMA AskSent ==
  ASSUME Inv, NEW p \in Peers, Off(p), NEW m, IsPrecommit(m), file' = file,
         srv'[p] = srv[p], toPeer'[p] = Append(toPeer[p], m), toMaster'[p] = toMaster[p]
  PROVE  Asks(p)'
<1>1. toPeer[p] \in Seq(ToPeer)
  BY DEF Inv, TypeOK
<1>2. /\ Len(toPeer[p]) \in Nat /\ DOMAIN toPeer[p] = 1..Len(toPeer[p])
      /\ Len(toPeer'[p]) = Len(toPeer[p]) + 1 /\ DOMAIN toPeer'[p] = 1..(Len(toPeer[p]) + 1)
      /\ \A i \in DOMAIN toPeer[p] : toPeer'[p][i] = toPeer[p][i]
      /\ toPeer'[p][Len(toPeer[p]) + 1] = m
  BY <1>1, LenProperties, AppendProperties
<1>3. Asked(toPeer[p])'
  <2>1. SUFFICES ASSUME NEW i \in DOMAIN toPeer'[p]
                 PROVE  IsEnd(toPeer'[p][i]) \/ (IsPrecommit(toPeer'[p][i]) /\ i = Len(toPeer'[p]))
    BY DEF Asked, IsEnd, IsPrecommit
  <2>2. i \in DOMAIN toPeer[p] \/ i = Len(toPeer[p]) + 1
    BY <1>2
  <2>3. CASE i \in DOMAIN toPeer[p]
    BY <1>2, <2>3 DEF Off, Ended
  <2>4. CASE i = Len(toPeer[p]) + 1
    BY <1>2, <2>4
  <2> QED
    BY <2>2, <2>3, <2>4
<1> QED
  BY <1>3 DEF Off, Asks, Equal

LEMMA AskingStep ==
  ASSUME NEW w, Workers = {w}, NUsers = 1, Inv, Asking(w), Step(w)
  PROVE  Phase(w)'
<1>0. /\ job[w].ret = "idle" /\ job[w].st = "M_PRECOMMIT_MULTICASTED"
      /\ IsPrecommit(job[w].msg) /\ Quiet /\ OldState /\ Own.state = "U_WAITING_COMMIT"
      /\ \A p \in Peers : Asks(p) /\ srv[p] # "M_PRECOMMITED"
      /\ job[w].idx \in Peers
  BY WorkerType DEF Asking
<1>1. CASE pc[w] = "send"
  <2>1. /\ UNCHANGED <<srv, masterState, masterTimer, queue, toMaster, file, otherVars>>
        /\ \A p \in Peers : p # job[w].idx => toPeer'[p] = toPeer[p]
        /\ LET p == job[w].idx IN
             \/ toPeer'[p] = toPeer[p]
             \/ pc'[w] = "mark" /\ toPeer'[p] = Append(toPeer[p], job[w].msg)
        /\ \/ pc'[w] = "mark" /\ job'[w] = job[w]
           \/ pc'[w] = "idle"
    BY <1>0, <1>1, StepAt, SendEffect
  <2>2. \A p \in Peers : p >= job[w].idx => Off(p)
    BY <1>1 DEF Asking
  <2>3. \A p \in Peers : toPeer'[p] = toPeer[p] => Asks(p)' /\ (Off(p) => Off(p)')
    <3>1. \A p : Off(p) => srv[p] # "M_PRECOMMITED"
      BY DEF Off
    <3> QED
      BY <1>0, <2>1, <3>1, PeerSame
  <2>4. \A p \in Peers : Asks(p)'
    <3>1. CASE toPeer'[job[w].idx] = toPeer[job[w].idx]
      BY <2>1, <2>3, <3>1
    <3>2. CASE toPeer'[job[w].idx] = Append(toPeer[job[w].idx], job[w].msg)
      <4>1. Off(job[w].idx)
        BY <1>0, <2>2
      <4>2. Asks(job[w].idx)'
        <5> DEFINE q == job[w].idx
                   m == job[w].msg
        <5>1. /\ q \in Peers /\ Off(q) /\ IsPrecommit(m) /\ file' = file /\ srv'[q] = srv[q]
              /\ toPeer'[q] = Append(toPeer[q], m) /\ toMaster'[q] = toMaster[q]
          BY <1>0, <2>1, <3>2, <4>1
        <5>2. \A p \in Peers : p = q => Asks(p)'
          <6> HIDE DEF q, m
          <6> QED
            BY <5>1, AskSent
        <5> QED
          BY <2>1, <5>1, <5>2
      <4> QED
        BY <2>1, <2>3, <4>2
    <3> QED
      BY <2>1, <3>1, <3>2
  <2>5. Own' = Own
    BY <2>1, OwnUnchanged
  <2>6. CASE pc'[w] = "idle"
    BY <2>1, <2>4, <2>5, <2>6, AllAsked
  <2>7. CASE pc'[w] = "mark" /\ job'[w] = job[w]
    <3>1. \A p \in Peers : p > job'[w].idx => Off(p)'
      <4>1. \A p \in Peers : p > job[w].idx => p >= job[w].idx /\ p # job[w].idx
        BY <1>0
      <4> QED
        BY <2>1, <2>2, <2>3, <2>7, <4>1
    <3>2. IsPrecommit(job[w].msg)'
      BY <1>0, <2>7 DEF IsPrecommit
    <3>3. Asking(w)'
      BY <1>0, <2>1, <2>4, <2>5, <2>7, <3>1, <3>2 DEF Asking, Called, Quiet, OldState
    <3> QED
      BY <3>3 DEF Phase
  <2> QED
    BY <2>1, <2>6, <2>7
<1>2. CASE pc[w] = "mark"
  <2>1. /\ UNCHANGED <<masterState, masterTimer, queue, toPeer, toMaster, file, otherVars>>
        /\ srv'[job[w].idx] = "M_PRECOMMIT_MULTICASTED"
        /\ \A p \in Peers : p # job[w].idx => srv'[p] = srv[p]
        /\ Same(job'[w], job[w])
        /\ \/ pc'[w] = "send" /\ job'[w].idx = job[w].idx + 1
           \/ pc'[w] = "check" /\ job'[w].idx = 1
    BY <1>0, <1>2, StepAt, MarkEffect
  <2>2. \A p \in Peers : srv'[p] # "M_PRECOMMITED"
    BY <1>0, <2>1
  <2>3. \A p \in Peers : Asks(p)' /\ (Off(p) => Off(p)')
    BY <1>0, <2>1, <2>2, PeerSame
  <2>4. pc'[w] = "send" => \A p \in Peers : p >= job'[w].idx => Off(p)'
    BY <1>0, <1>2, <2>1, <2>3 DEF Asking
  <2>5. /\ IsPrecommit(job[w].msg)' /\ job'[w].ret = "idle"
        /\ job'[w].st = "M_PRECOMMIT_MULTICASTED" /\ Own' = Own
    BY <1>0, <2>1, OwnUnchanged DEF Same, IsPrecommit
  <2>6. Asking(w)'
    BY <1>0, <2>1, <2>2, <2>3, <2>4, <2>5 DEF Asking, Called, Quiet, OldState
  <2> QED
    BY <2>6 DEF Phase
<1>3. CASE pc[w] = "check"
  <2>1. /\ UNCHANGED <<srv, masterState, masterTimer, queue, toPeer, toMaster, file, otherVars>>
        /\ \/ Same(job'[w], job[w]) /\ pc'[w] \in {"check", "master"}
           \/ pc'[w] = "idle"
    BY <1>0, <1>3, StepAt, CheckEffect
  <2>2. Own' = Own /\ \A p \in Peers : Asks(p)' /\ srv'[p] # "M_PRECOMMITED"
    BY <1>0, <2>1, OwnUnchanged, Still
  <2>3. CASE pc'[w] = "idle"
    BY <2>1, <2>2, <2>3, AllAsked
  <2>4. CASE Same(job'[w], job[w]) /\ pc'[w] \in {"check", "master"}
    <3>1. /\ IsPrecommit(job[w].msg)' /\ job'[w].ret = "idle"
          /\ job'[w].st = "M_PRECOMMIT_MULTICASTED"
      BY <1>0, <2>4 DEF Same, IsPrecommit
    <3>2. Asking(w)'
      BY <1>0, <2>1, <2>2, <2>4, <3>1 DEF Asking, Called, Quiet, OldState
    <3> QED
      BY <3>2 DEF Phase
  <2> QED
    BY <2>1, <2>3, <2>4
<1>4. CASE pc[w] = "master"
  <2>1. "M_PRECOMMIT_MULTICASTED" \notin ReplyStates
    BY DEF ReplyStates
  <2>2. /\ UNCHANGED <<srv, queue, toPeer, toMaster, file, otherVars>>
        /\ masterState' = "M_PRECOMMIT_MULTICASTED" /\ pc'[w] = "idle"
    BY <1>0, <1>4, <2>1, StepAt, SetMasterEffect
  <2>3. Own' = Own /\ \A p \in Peers : Asks(p)'
    BY <1>0, <2>2, OwnUnchanged, Still
  <2> QED
    BY <2>2, <2>3, AllAsked
<1> QED
  BY <1>1, <1>2, <1>3, <1>4 DEF Asking, Called

\* The first event is taken.
LEMMA Taken ==
  ASSUME NEW q \in Seq(Event), q # <<>>
  PROVE  /\ Len(q) \in Nat /\ Len(q) >= 1 /\ DOMAIN q = 1..Len(q)
         /\ DOMAIN Tail(q) = 1..(Len(q) - 1) /\ Len(Tail(q)) = Len(q) - 1
         /\ \A i \in 1..(Len(q) - 1) : Tail(q)[i] = q[i + 1]
<1>1. /\ Len(q) \in Nat /\ Len(q) >= 1 /\ DOMAIN q = 1..Len(q)
  BY LenProperties, EmptySeq
<1>2. /\ Tail(q) \in Seq(Event) /\ Len(Tail(q)) = Len(q) - 1
      /\ \A i \in 1..(Len(q) - 1) : Tail(q)[i] = q[i + 1]
  BY HeadTailProperties
<1>3. DOMAIN Tail(q) = 1..(Len(q) - 1)
  BY <1>2, LenProperties
<1> QED
  BY <1>1, <1>2, <1>3

\* The event of an expired timer ends the exchange.
LEMMA LastOfAll ==
  ASSUME Inv, NEW e, queue' = Append(queue, e),
         \A i \in DOMAIN queue : queue[i].type = "TIMEOUT_MASTER",
         Own' = Own, Ends(e)
  PROVE  EndNext'
<1> DEFINE n == Len(queue) + 1
<1>1. n \in DOMAIN queue' /\ queue'[n] = e /\ \A j \in 1..(n - 1) : queue'[j].type = "TIMEOUT_MASTER"
  BY Appended
<1> HIDE DEF n
<1> QED
  BY <1>1 DEF EndNext, Ends

LEMMA GatheringStep ==
  ASSUME NEW w, Workers = {w}, NUsers = 1, Inv, Gathering(w), Step(w)
  PROVE  Phase(w)'
<1>0. /\ Own.state = "U_WAITING_COMMIT" /\ Acking(w) /\ job[w].ret = "idle"
      /\ \A p \in Peers : Asks(p)
      /\ job[w].idx \in Peers
      /\ masterTimer => masterState = "M_PRECOMMIT_MULTICASTED"
  BY WorkerType DEF Gathering, Acking, Returning
<1>1. CASE pc[w] = "idle"
  <2>1. /\ UNCHANGED <<srv, masterState, masterTimer, toPeer, toMaster, file, otherVars>>
        /\ queue \in Seq(Event) /\ queue # <<>> /\ queue[1] \in Event /\ 1 \in DOMAIN queue
        /\ queue' = Tail(queue)
        /\ queue[1].type = "TIMEOUT_MASTER" =>
             IF masterState \in {"M_PRECOMMIT_MULTICASTED", "M_COMMITED"}
               THEN pc'[w] = "post" /\ job'[w].st = masterState /\ job'[w].ret = "idle"
               ELSE UNCHANGED workerVars
        /\ queue[1].type \notin {"TIMEOUT_MASTER", "PRECOMMIT_ERR"} =>
             pc'[w] = Handler(queue[1].type)
    BY <1>1, StepAt, TakeEffect
  <2>2. /\ Own' = Own /\ \A p \in Peers : Asks(p)'
        /\ AllAcked => AllAcked'
    BY <1>0, <2>1, OwnUnchanged, Still
  <2>3. /\ Len(queue) \in Nat /\ Len(queue) >= 1 /\ DOMAIN queue = 1..Len(queue)
        /\ DOMAIN Tail(queue) = 1..(Len(queue) - 1) /\ Len(Tail(queue)) = Len(queue) - 1
        /\ \A i \in 1..(Len(queue) - 1) : Tail(queue)[i] = queue[i + 1]
    BY <2>1, Taken
  <2>4. /\ queue[1].type = "TIMEOUT_MASTER" \/ (queue[1].type = "PRECOMMIT_ACK" /\ 1 = Len(queue))
        /\ \A i \in DOMAIN queue :
             queue[i].type = "TIMEOUT_MASTER" \/ (queue[i].type = "PRECOMMIT_ACK" /\ i = Len(queue))
    BY <2>1 DEF Gathering, TimeoutsThen
  <2>5. CASE queue[1].type = "TIMEOUT_MASTER" /\ masterState = "M_PRECOMMIT_MULTICASTED"
    <3>1. \A i \in DOMAIN queue : queue[i].type = "TIMEOUT_MASTER"
      BY <2>4, <2>5 DEF Gathering
    <3>2. \A i \in DOMAIN queue' : queue'[i].type = "TIMEOUT_MASTER"
      BY <2>1, <2>3, <3>1
    <3>3. TimedOut(w)'
      BY <1>0, <2>1, <2>2, <2>5, <3>2 DEF TimedOut
    <3> QED
      BY <3>3 DEF Phase, Failing
  <2>6. CASE queue[1].type = "TIMEOUT_MASTER" /\ masterState # "M_PRECOMMIT_MULTICASTED"
    <3>1. masterState # "M_COMMITED"
      BY DEF Gathering, OldState
    <3>2. queue' = Tail(queue) /\ UNCHANGED workerVars
      BY <2>1, <2>6, <3>1
    <3>3. TimeoutsThen("PRECOMMIT_ACK")'
      BY <2>3, <2>4, <3>2 DEF TimeoutsThen
    <3>4. (\E i \in DOMAIN queue' : queue'[i].type = "PRECOMMIT_ACK") =>
            AllAcked /\ masterState = "M_PRECOMMITED"
      <4>1. ASSUME NEW i \in DOMAIN queue', queue'[i].type = "PRECOMMIT_ACK"
            PROVE  \E j \in DOMAIN queue : queue[j].type = "PRECOMMIT_ACK"
        <5>1. i + 1 \in DOMAIN queue /\ queue[i + 1] = queue'[i]
          BY <2>3, <3>2, <4>1
        <5> QED
          BY <4>1, <5>1
      <4> QED
        BY <4>1 DEF Gathering
    <3>5. Acking(w)'
      BY <1>1, <3>2 DEF Acking, workerVars
    <3>6. Gathering(w)'
      BY <1>0, <1>1, <2>1, <2>2, <3>2, <3>3, <3>4, <3>5 DEF Gathering, OldState, workerVars
    <3> QED
      BY <3>6 DEF Phase
  <2>7. CASE queue[1].type = "PRECOMMIT_ACK" /\ 1 = Len(queue)
    <3>1. AllAcked /\ masterState = "M_PRECOMMITED" /\ ~masterTimer
      BY <1>0, <2>1, <2>7 DEF Gathering
    <3>2. queue' = <<>>
      <4>1. Tail(queue) \in Seq(Event)
        BY <2>1, HeadTailProperties
      <4> QED
        BY <2>1, <2>3, <2>7, <4>1, EmptySeq
    <3>3. pc'[w] = "findCommit"
      BY <2>1, <2>7, HandlerOf DEF Event
    <3>4. Starting(w)'
      BY <1>0, <2>1, <2>2, <3>1, <3>2, <3>3 DEF Starting, Quiet
    <3> QED
      BY <3>4 DEF Phase
  <2> QED
    BY <2>4, <2>5, <2>6, <2>7
<1>2. ASSUME pc[w] # "idle"
      PROVE  ~(\E i \in DOMAIN queue : queue[i].type = "PRECOMMIT_ACK")
  BY <1>2 DEF Gathering
<1>3. CASE pc[w] = "note"
  <2>1. /\ UNCHANGED <<masterState, masterTimer, queue, toPeer, toMaster, file, otherVars>>
        /\ srv'[job[w].idx] = "M_PRECOMMITED"
        /\ \A p \in Peers : p # job[w].idx => srv'[p] = srv[p]
        /\ job'[w].st = "M_PRECOMMITED" /\ job'[w].ret = "idle" /\ job'[w].idx = 1
        /\ pc'[w] = "check"
    BY <1>0, <1>3, StepAt, NoteEffect DEF Acking, Same
  <2>2. \A p \in Peers : Asks(p)'
    <3>1. Silent(job[w].idx)
      BY <1>0, <1>3 DEF Acking
    <3>2. \A p \in Peers : srv'[p] = "M_PRECOMMITED" => srv'[p] = srv[p] \/ Silent(p)
      BY <2>1, <3>1
    <3> QED
      BY <1>0, <2>1, <3>2, PeerSame
  <2>3. Acking(w)' /\ Own' = Own
    BY <2>1, OwnUnchanged DEF Acking
  <2>4. Gathering(w)'
    BY <1>0, <1>2, <1>3, <2>1, <2>2, <2>3 DEF Gathering, TimeoutsThen, OldState
  <2> QED
    BY <2>4 DEF Phase
<1>4. CASE pc[w] = "check"
  <2>1. /\ UNCHANGED <<srv, masterState, masterTimer, queue, toPeer, toMaster, file, otherVars>>
        /\ \/ /\ srv[job[w].idx] = job[w].st /\ Same(job'[w], job[w])
              /\ \/ pc'[w] = "check" /\ job'[w].idx = job[w].idx + 1
                 \/ job[w].idx = N /\ pc'[w] = "master"
           \/ pc'[w] = "idle"
    BY <1>0, <1>4, StepAt, CheckEffect
  <2>2. /\ job[w].st = "M_PRECOMMITED"
        /\ \A p \in Peers : p < job[w].idx => srv[p] = "M_PRECOMMITED"
    BY <1>0, <1>4 DEF Acking
  <2>3. /\ Own' = Own /\ \A p \in Peers : Asks(p)'
        /\ AllAcked => AllAcked'
    BY <1>0, <2>1, OwnUnchanged, Still
  <2>4. Acking(w)'
    <3>1. CASE pc'[w] = "idle"
      BY <3>1 DEF Acking
    <3>2. CASE /\ srv[job[w].idx] = job[w].st /\ Same(job'[w], job[w])
               /\ pc'[w] = "check" /\ job'[w].idx = job[w].idx + 1
      <4>1. \A p \in Peers : p < job'[w].idx => srv'[p] = "M_PRECOMMITED"
        BY <1>0, <2>1, <2>2, <3>2
      <4>2. job'[w].st = "M_PRECOMMITED" /\ job'[w].ret = "idle"
        BY <1>0, <2>2, <3>2 DEF Same
      <4> QED
        BY <3>2, <4>1, <4>2 DEF Acking
    <3>3. CASE /\ srv[job[w].idx] = job[w].st /\ Same(job'[w], job[w])
               /\ job[w].idx = N /\ pc'[w] = "master"
      <4>1. \A p \in Peers : srv[p] = "M_PRECOMMITED"
        BY <1>0, <2>2, <3>3
      <4>2. AllAcked
        BY <1>0, <4>1 DEF AllAcked, Asks, Silent
      <4>3. job'[w].st = "M_PRECOMMITED" /\ job'[w].ret = "idle"
        BY <1>0, <2>2, <3>3 DEF Same
      <4> QED
        BY <2>3, <3>3, <4>2, <4>3 DEF Acking
    <3> QED
      BY <2>1, <3>1, <3>2, <3>3
  <2>5. Gathering(w)'
    BY <1>0, <1>2, <1>4, <2>1, <2>3, <2>4 DEF Gathering, TimeoutsThen, OldState
  <2> QED
    BY <2>5 DEF Phase
<1>5. CASE pc[w] = "master"
  <2>1. job[w].st = "M_PRECOMMITED" /\ job[w].st \in ReplyStates /\ AllAcked
    BY <1>0, <1>5 DEF Acking, ReplyStates
  <2>2. /\ UNCHANGED <<srv, queue, toPeer, toMaster, file, otherVars>>
        /\ masterState' = "M_PRECOMMITED" /\ ~masterTimer'
        /\ pc'[w] = "post" /\ job'[w] = job[w]
    BY <1>5, <2>1, StepAt, SetMasterEffect
  <2>3. /\ Own' = Own /\ \A p \in Peers : Asks(p)'
        /\ AllAcked'
    BY <1>0, <2>1, <2>2, OwnUnchanged, Still
  <2>4. Acking(w)'
    BY <1>0, <2>1, <2>2, <2>3 DEF Acking
  <2>5. Gathering(w)'
    BY <1>0, <1>2, <1>5, <2>2, <2>3, <2>4 DEF Gathering, TimeoutsThen
  <2> QED
    BY <2>5 DEF Phase
<1>6. CASE pc[w] = "post"
  <2>1. job[w].st = "M_PRECOMMITED" /\ masterState = "M_PRECOMMITED" /\ AllAcked
    BY <1>0, <1>6 DEF Acking
  <2>2. /\ UNCHANGED <<srv, masterState, masterTimer, toPeer, toMaster, file, otherVars>>
        /\ pc'[w] = "idle"
        /\ \E e : queue' = Append(queue, e) /\ e.type = "PRECOMMIT_ACK"
    BY <1>6, <2>1, StepAt, PostEffect, EventOfStates
  <2>3. /\ Own' = Own /\ \A p \in Peers : Asks(p)'
        /\ AllAcked'
    BY <1>0, <2>1, <2>2, OwnUnchanged, Still
  <2>4. /\ Len(queue) \in Nat /\ DOMAIN queue = 1..Len(queue)
        /\ DOMAIN queue' = 1..(Len(queue) + 1) /\ Len(queue') = Len(queue) + 1
        /\ queue'[Len(queue) + 1].type = "PRECOMMIT_ACK"
        /\ \A i \in DOMAIN queue : queue'[i] = queue[i]
    BY <2>2, Appended
  <2>5. TimeoutsThen("PRECOMMIT_ACK")'
    BY <1>2, <1>6, <2>4 DEF Gathering, TimeoutsThen
  <2>6. Acking(w)'
    BY <2>2 DEF Acking
  <2>7. Gathering(w)'
    BY <1>0, <2>1, <2>2, <2>3, <2>5, <2>6 DEF Gathering
  <2> QED
    BY <2>7 DEF Phase
<1> QED
  BY <1>0, <1>1, <1>3, <1>4, <1>5, <1>6 DEF Acking

LEMMA StartingStep ==
  ASSUME NEW w, Workers = {w}, NUsers = 1, Inv, Starting(w), Step(w)
  PROVE  Phase(w)'
<1>1. CASE pc[w] = "findCommit"
  <2>1. /\ UNCHANGED <<srv, masterState, masterTimer, queue, toPeer, toMaster, file, otherVars>>
        /\ pc'[w] = "commit"
    BY <1>1, StepAt, FindEffect DEF FindCommit, Starting
  <2>2. Own' = Own /\ AllAcked'
    BY <2>1, OwnUnchanged, Still DEF Starting
  <2>3. Starting(w)'
    BY <2>1, <2>2 DEF Starting, Quiet
  <2> QED
    BY <2>3 DEF Phase
<1>2. CASE pc[w] = "commit"
  <2>1. /\ UNCHANGED <<srv, masterState, masterTimer, queue, toPeer, toMaster, file, otherVars>>
        /\ pc'[w] = "send" /\ job'[w].idx = 1 /\ job'[w].ret = "waitSave"
        /\ job'[w].st = "M_COMMITED" /\ IsOrder(job'[w].msg)
    BY <1>2, StepAt, CommitEffect
  <2>2. Own' = Own /\ AllAcked'
    BY <2>1, OwnUnchanged, Still DEF Starting
  <2>3. \A p \in Peers : Stores(p)' /\ srv'[p] # "M_OPERATION_PERFORMED"
    <3>1. Len(<<>>) = 0 /\ DOMAIN <<>> = {}
      OBVIOUS
    <3> QED
      BY <2>2, <3>1 DEF AllAcked, Silent, Stores
  <2>4. IsOrder(job[w].msg)'
    BY <2>1, <2>2, Zenon DEF IsOrder
  <2>5. TimeoutsThen("TIMEOUT_MASTER")'
    BY <2>1 DEF TimeoutsThen, Starting, Quiet
  <2>6. Ordering(w)'
    BY <2>1, <2>2, <2>3, <2>4, <2>5 DEF Starting, AllAcked, Ordering, Quiet, Called
  <2> QED
    BY <2>6 DEF Phase
<1> QED
  BY <1>1, <1>2 DEF Starting

LEMMA OrderSent ==
  ASSUME NEW p \in Peers, Silent(p), Equal(p), NEW m, IsOrder(m), file' = file, Own' = Own,
         srv'[p] # "M_OPERATION_PERFORMED",
         toPeer'[p] = Append(toPeer[p], m), toMaster'[p] = toMaster[p]
  PROVE  Stores(p)'
<1>1. toPeer'[p] = <<m>> /\ toMaster'[p] = <<>> /\ Len(<<m>>) = 1 /\ <<m>>[1] = m
  BY DEF Silent
<1>2. \A x : IsOrder(x)' <=> IsOrder(x)
  BY Zenon DEF IsOrder
<1>3. Equal(p)'
  BY DEF Equal
<1>4. Len(toPeer'[p]) = 1 /\ toPeer'[p][1] = m
  BY <1>1
<1> QED
  BY <1>1, <1>2, <1>3, <1>4 DEF Stores

\* The multicast of COMMIT ends, whole or not.
LEMMA AllOrdered ==
  ASSUME NEW w, Ordering(w), pc[w] # "waitSave", Own'.state = Own.state,
         \A p \in Peers : Stores(p)' /\ srv'[p] # "M_OPERATION_PERFORMED",
         queue' = queue, pc'[w] = "waitSave",
         \/ masterState' = masterState /\ masterTimer' = masterTimer
         \/ masterState' = "M_COMMITED"
  PROVE  Phase(w)'
<1>1. queue' = <<>> /\ Own'.state = "U_WAITING_COMMIT"
  BY DEF Ordering, Quiet
<1>2. /\ masterState' \in {"M_PRECOMMITED", "M_COMMITED"}
      /\ masterTimer' => masterState' = "M_COMMITED"
  BY DEF Ordering, Quiet
<1>3. TimeoutsThen("TIMEOUT_MASTER")'
  BY <1>1 DEF TimeoutsThen
<1>4. Ordering(w)'
  BY <1>1, <1>2, <1>3 DEF Ordering
<1> QED
  BY <1>4 DEF Phase

LEMMA OrderingCall ==
  ASSUME NEW w, Workers = {w}, NUsers = 1, Inv, Ordering(w), Step(w), pc[w] \in Called
  PROVE  Phase(w)'
<1>0. /\ job[w].ret = "waitSave" /\ job[w].st = "M_COMMITED" /\ pc[w] # "waitSave"
      /\ IsOrder(job[w].msg) /\ Quiet /\ masterState = "M_PRECOMMITED"
      /\ Own.state = "U_WAITING_COMMIT" /\ TimeoutsThen("TIMEOUT_MASTER")
      /\ \A p \in Peers : Stores(p) /\ srv[p] # "M_OPERATION_PERFORMED"
      /\ job[w].idx \in Peers
  BY WorkerType DEF Ordering, Called
<1>1. ASSUME UNCHANGED <<masterState, masterTimer, queue, otherVars>>,
             job'[w].ret = "waitSave", job'[w].st = "M_COMMITED", job'[w].msg = job[w].msg,
             pc'[w] \in Called,
             \A p \in Peers : Stores(p)' /\ srv'[p] # "M_OPERATION_PERFORMED",
             pc'[w] = "send" => \A p \in Peers : p >= job'[w].idx => Silent(p)' /\ Equal(p)',
             pc'[w] = "mark" => \A p \in Peers : p > job'[w].idx => Silent(p)' /\ Equal(p)'
      PROVE  Phase(w)'
  <2>1. Own' = Own
    BY <1>1, OwnUnchanged
  <2>2. IsOrder(job[w].msg)'
    BY <1>0, <1>1, <2>1, Zenon DEF IsOrder
  <2>3. TimeoutsThen("TIMEOUT_MASTER")' /\ Quiet'
    BY <1>0, <1>1 DEF TimeoutsThen, Quiet
  <2>4. Ordering(w)'
    BY <1>0, <1>1, <2>1, <2>2, <2>3 DEF Ordering
  <2> QED
    BY <2>4 DEF Phase
<1>2. CASE pc[w] = "send"
  <2>1. /\ UNCHANGED <<srv, masterState, masterTimer, queue, toMaster, file, otherVars>>
        /\ \A p \in Peers : p # job[w].idx => toPeer'[p] = toPeer[p]
        /\ LET p == job[w].idx IN
             \/ toPeer'[p] = toPeer[p]
             \/ pc'[w] = "mark" /\ toPeer'[p] = Append(toPeer[p], job[w].msg)
        /\ \/ pc'[w] = "mark" /\ job'[w] = job[w]
           \/ pc'[w] = "waitSave"
    BY <1>0, <1>2, StepAt, SendEffect
  <2>2. Own' = Own
    BY <2>1, OwnUnchanged
  <2>3. \A p \in Peers : p >= job[w].idx => Silent(p) /\ Equal(p)
    BY <1>2 DEF Ordering
  <2>4. \A p \in Peers : toPeer'[p] = toPeer[p] =>
          Stores(p)' /\ (Silent(p) => Silent(p)') /\ (Equal(p) => Equal(p)')
    BY <1>0, <2>1, <2>2, PeerSame, OwnSame
  <2>5. \A p \in Peers : Stores(p)'
    <3>1. CASE toPeer'[job[w].idx] = toPeer[job[w].idx]
      BY <2>1, <2>4, <3>1
    <3>2. CASE toPeer'[job[w].idx] = Append(toPeer[job[w].idx], job[w].msg)
      <4> DEFINE q == job[w].idx
                 m == job[w].msg
      <4>1. q >= job[w].idx
        BY <1>0
      <4>2. /\ q \in Peers /\ Silent(q) /\ Equal(q) /\ IsOrder(m) /\ file' = file
            /\ srv'[q] # "M_OPERATION_PERFORMED"
            /\ toPeer'[q] = Append(toPeer[q], m) /\ toMaster'[q] = toMaster[q]
        BY <1>0, <2>1, <2>3, <3>2, <4>1
      <4>3. \A p \in Peers : p # q => Stores(p)'
        BY <2>1, <2>4
      <4> HIDE DEF q, m
      <4>4. \A p \in Peers : p = q => Stores(p)'
        BY <2>2, <4>2, OrderSent
      <4> QED
        BY <4>3, <4>4
    <3> QED
      BY <2>1, <3>1, <3>2
  <2>6. CASE pc'[w] = "waitSave"
    BY <1>0, <2>1, <2>2, <2>5, <2>6, AllOrdered
  <2>7. CASE pc'[w] = "mark" /\ job'[w] = job[w]
    <3>1. \A p \in Peers : p > job[w].idx => p >= job[w].idx /\ p # job[w].idx
      BY <1>0
    <3>2. \A p \in Peers : p > job'[w].idx => Silent(p)' /\ Equal(p)'
      BY <2>1, <2>3, <2>4, <2>7, <3>1
    <3> QED
      BY <1>0, <1>1, <2>1, <2>5, <2>7, <3>2 DEF Called
  <2> QED
    BY <2>1, <2>6, <2>7
<1>3. CASE pc[w] = "mark"
  <2>1. /\ UNCHANGED <<masterState, masterTimer, queue, toPeer, toMaster, file, otherVars>>
        /\ srv'[job[w].idx] = "M_COMMITED"
        /\ \A p \in Peers : p # job[w].idx => srv'[p] = srv[p]
        /\ Same(job'[w], job[w])
        /\ \/ pc'[w] = "send" /\ job'[w].idx = job[w].idx + 1
           \/ pc'[w] = "check" /\ job'[w].idx = 1
    BY <1>0, <1>3, StepAt, MarkEffect
  <2>2. Own' = Own /\ \A p \in Peers : srv'[p] # "M_OPERATION_PERFORMED"
    BY <1>0, <2>1, OwnUnchanged
  <2>3. \A p \in Peers : Stores(p)' /\ (Silent(p) => Silent(p)') /\ (Equal(p) => Equal(p)')
    BY <1>0, <2>1, <2>2, PeerSame, OwnSame
  <2>4. pc'[w] = "send" => \A p \in Peers : p >= job'[w].idx => Silent(p)' /\ Equal(p)'
    BY <1>0, <1>3, <2>1, <2>3 DEF Ordering
  <2> QED
    BY <1>0, <1>1, <2>1, <2>2, <2>3, <2>4 DEF Called, Same
<1>4. CASE pc[w] = "check"
  <2>1. /\ UNCHANGED <<srv, masterState, masterTimer, queue, toPeer, toMaster, file, otherVars>>
        /\ \/ Same(job'[w], job[w]) /\ pc'[w] \in {"check", "master"}
           \/ pc'[w] = "waitSave"
    BY <1>0, <1>4, StepAt, CheckEffect
  <2>2. Own' = Own /\ \A p \in Peers : Stores(p)' /\ srv'[p] # "M_OPERATION_PERFORMED"
    BY <1>0, <2>1, OwnUnchanged, Still
  <2>3. CASE pc'[w] = "waitSave"
    BY <1>0, <2>1, <2>2, <2>3, AllOrdered
  <2>4. CASE Same(job'[w], job[w]) /\ pc'[w] \in {"check", "master"}
    BY <1>0, <1>1, <2>1, <2>2, <2>4 DEF Same, Called
  <2> QED
    BY <2>1, <2>3, <2>4
<1>5. CASE pc[w] = "master"
  <2>1. "M_COMMITED" \notin ReplyStates
    BY DEF ReplyStates
  <2>2. /\ UNCHANGED <<srv, queue, toPeer, toMaster, file, otherVars>>
        /\ masterState' = "M_COMMITED" /\ pc'[w] = "waitSave"
    BY <1>0, <1>5, <2>1, StepAt, SetMasterEffect
  <2>3. Own' = Own /\ \A p \in Peers : Stores(p)' /\ srv'[p] # "M_OPERATION_PERFORMED"
    BY <1>0, <2>2, OwnUnchanged, Still
  <2> QED
    BY <1>0, <2>2, <2>3, AllOrdered
<1> QED
  BY <1>2, <1>3, <1>4, <1>5 DEF Called

LEMMA OrderingStep ==
  ASSUME NEW w, Workers = {w}, NUsers = 1, Inv, Ordering(w), Step(w)
  PROVE  Phase(w)'
<1>1. CASE pc[w] = "waitSave"
  <2>1. /\ UNCHANGED <<srv, masterState, masterTimer, queue, toPeer, toMaster, file>>
        /\ pc'[w] = "findCommit"
        /\ Own'.state = "U_WAITING_SAVE" /\ Own'.cmd = Own.cmd /\ Own'.line = Own.line
    BY <1>1, StepAt, WaitSaveEffect
  <2>2. \A p \in Peers : Stores(p)'
    BY <2>1, Still DEF Ordering
  <2>3. /\ masterState \in {"M_PRECOMMITED", "M_COMMITED"}
        /\ masterTimer => masterState = "M_COMMITED"
    BY <1>1 DEF Ordering, Called
  <2>4. \A i \in DOMAIN queue' : queue'[i].type = "TIMEOUT_MASTER"
    BY <2>1 DEF Ordering, TimeoutsThen
  <2>5. Hearing(w)'
    BY <2>1 DEF Hearing
  <2>6. TimeoutsThen("COMMIT_SUCCESS")' /\ \A i \in DOMAIN queue' : queue'[i].type # "COMMIT_SUCCESS"
    BY <2>4 DEF TimeoutsThen
  <2>7. Awaiting(w)'
    BY <2>1, <2>2, <2>3, <2>5, <2>6 DEF Awaiting
  <2> QED
    BY <2>7 DEF Phase
<1>2. CASE pc[w] \in Called
  BY <1>2, OrderingCall
<1> QED
  BY <1>1, <1>2 DEF Ordering

\* An event is taken while the answers to a COMMIT arrive.
LEMMA AwaitingTake ==
  ASSUME NEW w, Workers = {w}, NUsers = 1, Inv, IdleNum(w), Awaiting(w), Step(w),
         pc[w] = "idle"
  PROVE  Phase(w)'
<1>0. Own.state = "U_WAITING_SAVE" /\ job[w].ret = "idle" /\ \A p \in Peers : Stores(p)
  BY WorkerType DEF Awaiting, Returning
<1>1. /\ UNCHANGED <<srv, masterState, masterTimer, toPeer, toMaster, file, otherVars>>
      /\ queue \in Seq(Event) /\ queue # <<>> /\ queue[1] \in Event /\ 1 \in DOMAIN queue
      /\ queue' = Tail(queue)
      /\ queue[1].type = "TIMEOUT_MASTER" =>
           IF masterState \in {"M_PRECOMMIT_MULTICASTED", "M_COMMITED"}
             THEN /\ pc'[w] = "post" /\ job'[w].st = masterState /\ job'[w].ret = "idle"
                  /\ job'[w].num = job[w].num
             ELSE UNCHANGED workerVars
      /\ queue[1].type \notin {"TIMEOUT_MASTER", "PRECOMMIT_ERR"} =>
           pc'[w] = Handler(queue[1].type) /\ job'[w].num = queue[1].num
  BY StepAt, TakeEffect
<1>2. /\ Own' = Own /\ \A p \in Peers : Stores(p)'
      /\ AllStored => AllStored'
  BY <1>0, <1>1, OwnUnchanged, Still
<1>3. /\ Len(queue) \in Nat /\ Len(queue) >= 1 /\ DOMAIN queue = 1..Len(queue)
      /\ DOMAIN Tail(queue) = 1..(Len(queue) - 1) /\ Len(Tail(queue)) = Len(queue) - 1
      /\ \A i \in 1..(Len(queue) - 1) : Tail(queue)[i] = queue[i + 1]
  BY <1>1, Taken
<1>4. /\ queue[1].type = "TIMEOUT_MASTER" \/ (queue[1].type = "COMMIT_SUCCESS" /\ 1 = Len(queue))
      /\ \A i \in DOMAIN queue :
           queue[i].type = "TIMEOUT_MASTER" \/ (queue[i].type = "COMMIT_SUCCESS" /\ i = Len(queue))
  BY <1>1 DEF Awaiting, TimeoutsThen
<1>5. CASE queue[1].type = "TIMEOUT_MASTER" /\ masterState = "M_COMMITED"
  <2>1. \A i \in DOMAIN queue : queue[i].type = "TIMEOUT_MASTER"
    BY <1>4, <1>5 DEF Awaiting
  <2>2. \A i \in DOMAIN queue' : queue'[i].type = "TIMEOUT_MASTER"
    BY <1>1, <1>3, <2>1
  <2>3. job[w].num = NoNum
    BY DEF IdleNum
  <2>4. TimedOut(w)'
    BY <1>0, <1>1, <1>2, <1>5, <2>2, <2>3 DEF TimedOut
  <2> QED
    BY <2>4 DEF Phase, Failing
<1>6. CASE queue[1].type = "TIMEOUT_MASTER" /\ masterState # "M_COMMITED"
  <2>1. masterState # "M_PRECOMMIT_MULTICASTED"
    BY DEF Awaiting
  <2>2. queue' = Tail(queue) /\ UNCHANGED workerVars
    BY <1>1, <1>6, <2>1
  <2>3. TimeoutsThen("COMMIT_SUCCESS")'
    BY <1>3, <1>4, <2>2 DEF TimeoutsThen
  <2>4. \A i \in DOMAIN queue' : queue'[i].type = "COMMIT_SUCCESS" =>
          /\ AllStored /\ masterState = "M_OPERATION_PERFORMED"
          /\ queue'[i].num = Own.line.num
    <3>1. \A i \in DOMAIN queue' : i + 1 \in DOMAIN queue /\ queue'[i] = queue[i + 1]
      BY <1>3, <2>2
    <3> QED
      BY <3>1 DEF Awaiting
  <2>5. Hearing(w)' /\ pc'[w] = "idle"
    BY <2>2 DEF Hearing, workerVars
  <2>6. masterState # "M_OPERATION_UNSUCCESS"
    BY DEF Awaiting
  <2>7. Awaiting(w)'
    BY <1>0, <1>1, <1>2, <2>3, <2>4, <2>5, <2>6 DEF Awaiting
  <2> QED
    BY <2>7 DEF Phase
<1>7. CASE queue[1].type = "COMMIT_SUCCESS" /\ 1 = Len(queue)
  <2>1. /\ AllStored /\ masterState = "M_OPERATION_PERFORMED" /\ ~masterTimer
        /\ queue[1].num = Own.line.num
    BY <1>1, <1>7 DEF Awaiting
  <2>2. queue' = <<>>
    <3>1. Tail(queue) \in Seq(Event)
      BY <1>1, HeadTailProperties
    <3> QED
      BY <1>1, <1>3, <1>7, <3>1, EmptySeq
  <2>3. pc'[w] = "findSave" /\ job'[w].num = queue[1].num
    BY <1>1, <1>7, HandlerOf DEF Event
  <2>4. Saving(w)'
    BY <1>0, <1>1, <1>2, <2>1, <2>2, <2>3 DEF Saving, Quiet
  <2> QED
    BY <2>4 DEF Phase
<1> QED
  BY <1>4, <1>5, <1>6, <1>7

\* A peer's answer is handled.
LEMMA AwaitingHear ==
  ASSUME NEW w, Workers = {w}, NUsers = 1, Inv, Awaiting(w), Step(w),
         pc[w] \in {"note", "once", "check", "master"}
  PROVE  Phase(w)'
<1>0. /\ Own.state = "U_WAITING_SAVE" /\ job[w].ret = "idle" /\ Hearing(w)
      /\ job[w].num = Own.line.num /\ job[w].idx \in Peers
      /\ \A p \in Peers : Stores(p)
      /\ masterTimer => masterState = "M_COMMITED"
      /\ masterState \in {"M_PRECOMMITED", "M_COMMITED", "M_OPERATION_PERFORMED"}
      /\ \A i \in DOMAIN queue : queue[i].type # "COMMIT_SUCCESS"
      /\ TimeoutsThen("COMMIT_SUCCESS")
  BY WorkerType DEF Awaiting, Hearing
<1>1. ASSUME Hearing(w)', Own' = Own, queue' = queue, \A p \in Peers : Stores(p)',
             \/ UNCHANGED <<masterState, masterTimer>>
             \/ /\ masterState' \in {"M_OPERATION_PERFORMED", "M_OPERATION_UNSUCCESS"}
                /\ ~masterTimer' /\ pc'[w] = "post" /\ job'[w].st = masterState'
      PROVE  Phase(w)'
  <2>1. TimeoutsThen("COMMIT_SUCCESS")'
    BY <1>0, <1>1 DEF TimeoutsThen
  <2>2. Awaiting(w)'
    BY <1>0, <1>1, <2>1 DEF Awaiting
  <2> QED
    BY <2>2 DEF Phase
<1>2. CASE pc[w] = "note"
  <2>1. /\ UNCHANGED <<masterState, masterTimer, queue, toPeer, toMaster, file, otherVars>>
        /\ srv'[job[w].idx] = job[w].st
        /\ \A p \in Peers : p # job[w].idx => srv'[p] = srv[p]
        /\ Same(job'[w], job[w]) /\ job'[w].idx = 1
        /\ pc'[w] = IF job[w].st = "M_OPERATION_UNSUCCESS" THEN "once" ELSE "check"
    BY <1>2, StepAt, NoteEffect
  <2>2. /\ Silent(job[w].idx)
        /\ \/ job[w].st = "M_OPERATION_PERFORMED" /\ HasOwn(job[w].idx)
           \/ job[w].st = "M_OPERATION_UNSUCCESS"
    BY <1>0, <1>2 DEF Hearing
  <2>3. Own' = Own
    BY <2>1, OwnUnchanged
  <2>4. \A p \in Peers : Stores(p)'
    <3>1. \A p \in Peers : srv'[p] = "M_OPERATION_PERFORMED" =>
            srv'[p] = srv[p] \/ (Silent(p) /\ HasOwn(p))
      BY <2>1, <2>2
    <3> QED
      BY <1>0, <2>1, <2>3, <3>1, OwnSame
  <2>5. Hearing(w)'
    BY <1>0, <2>1, <2>2, <2>3 DEF Hearing, Same
  <2> QED
    BY <1>1, <2>1, <2>3, <2>4, <2>5
<1>3. CASE pc[w] = "once"
  <2>1. /\ UNCHANGED <<srv, masterState, masterTimer, queue, toPeer, toMaster, file, otherVars>>
        /\ pc'[w] = "master" /\ job'[w] = job[w]
    BY <1>0, <1>3, StepAt, OnceEffect
  <2>2. job[w].st = "M_OPERATION_UNSUCCESS"
    BY <1>0, <1>3 DEF Hearing
  <2>3. Own' = Own /\ \A p \in Peers : Stores(p)'
    BY <1>0, <2>1, OwnUnchanged, Still
  <2>4. Hearing(w)'
    BY <1>0, <2>1, <2>2, <2>3 DEF Hearing
  <2> QED
    BY <1>1, <2>1, <2>3, <2>4
<1>4. CASE pc[w] = "check"
  <2>1. /\ UNCHANGED <<srv, masterState, masterTimer, queue, toPeer, toMaster, file, otherVars>>
        /\ \/ /\ srv[job[w].idx] = job[w].st /\ Same(job'[w], job[w])
              /\ \/ pc'[w] = "check" /\ job'[w].idx = job[w].idx + 1
                 \/ job[w].idx = N /\ pc'[w] = "master"
           \/ pc'[w] = "idle"
    BY <1>0, <1>4, StepAt, CheckEffect
  <2>2. /\ job[w].st = "M_OPERATION_PERFORMED"
        /\ \A p \in Peers : p < job[w].idx => srv[p] = "M_OPERATION_PERFORMED"
    BY <1>0, <1>4 DEF Hearing
  <2>3. /\ Own' = Own /\ \A p \in Peers : Stores(p)'
        /\ AllStored => AllStored'
    BY <1>0, <2>1, OwnUnchanged, Still
  <2>4. Hearing(w)'
    <3>1. CASE pc'[w] = "idle"
      BY <3>1 DEF Hearing
    <3>2. CASE /\ srv[job[w].idx] = job[w].st /\ Same(job'[w], job[w])
               /\ pc'[w] = "check" /\ job'[w].idx = job[w].idx + 1
      <4>1. \A p \in Peers : p < job'[w].idx => srv'[p] = "M_OPERATION_PERFORMED"
        BY <1>0, <2>1, <2>2, <3>2
      <4>2. /\ job'[w].st = "M_OPERATION_PERFORMED" /\ job'[w].ret = "idle"
            /\ job'[w].num = Own'.line.num
        BY <1>0, <2>2, <2>3, <3>2 DEF Same
      <4> QED
        BY <3>2, <4>1, <4>2 DEF Hearing
    <3>3. CASE /\ srv[job[w].idx] = job[w].st /\ Same(job'[w], job[w])
               /\ job[w].idx = N /\ pc'[w] = "master"
      <4>1. \A p \in Peers : srv[p] = "M_OPERATION_PERFORMED"
        BY <1>0, <2>2, <3>3
      <4>2. AllStored
        BY <1>0, <4>1 DEF AllStored, Stores, Silent
      <4>3. /\ job'[w].st = "M_OPERATION_PERFORMED" /\ job'[w].ret = "idle"
            /\ job'[w].num = Own'.line.num
        BY <1>0, <2>2, <2>3, <3>3 DEF Same
      <4> QED
        BY <2>3, <3>3, <4>2, <4>3 DEF Hearing
    <3> QED
      BY <2>1, <3>1, <3>2, <3>3
  <2> QED
    BY <1>1, <2>1, <2>3, <2>4
<1>5. CASE pc[w] = "master"
  <2>1. /\ \/ job[w].st = "M_OPERATION_UNSUCCESS"
           \/ job[w].st = "M_OPERATION_PERFORMED" /\ AllStored
        /\ job[w].st \in ReplyStates
    BY <1>0, <1>5 DEF Hearing, ReplyStates
  <2>2. /\ UNCHANGED <<srv, queue, toPeer, toMaster, file, otherVars>>
        /\ masterState' = job[w].st /\ ~masterTimer'
        /\ pc'[w] = "post" /\ job'[w] = job[w]
    BY <1>5, <2>1, StepAt, SetMasterEffect
  <2>3. /\ Own' = Own /\ \A p \in Peers : Stores(p)'
        /\ AllStored => AllStored'
    BY <1>0, <2>2, OwnUnchanged, Still
  <2>4. Hearing(w)'
    BY <1>0, <2>1, <2>2, <2>3 DEF Hearing
  <2> QED
    BY <1>1, <2>1, <2>2, <2>3, <2>4
<1> QED
  BY <1>2, <1>3, <1>4, <1>5

LEMMA AwaitingPost ==
  ASSUME NEW w, Workers = {w}, NUsers = 1, Inv, Awaiting(w), Step(w), pc[w] = "post"
  PROVE  Phase(w)'
<1>0. /\ Own.state = "U_WAITING_SAVE"
      /\ job[w].num = Own.line.num /\ masterState = job[w].st
      /\ \/ job[w].st = "M_OPERATION_UNSUCCESS"
         \/ job[w].st = "M_OPERATION_PERFORMED" /\ AllStored
      /\ \A p \in Peers : Stores(p)
      /\ ~masterTimer
      /\ \A i \in DOMAIN queue : queue[i].type = "TIMEOUT_MASTER"
  BY DEF Awaiting, Hearing, TimeoutsThen
<1>1. /\ UNCHANGED <<srv, masterState, masterTimer, toPeer, toMaster, file, otherVars>>
      /\ pc'[w] = "idle" /\ job'[w] = Fresh
      /\ \E e : /\ queue' = Append(queue, e) /\ e.num = job[w].num
                /\ e.type = EventOf(job[w].st)
  BY StepAt, PostEffect
<1>2. PICK e : queue' = Append(queue, e) /\ e.num = job[w].num /\ e.type = EventOf(job[w].st)
  BY <1>1
<1>3. /\ Len(queue) \in Nat /\ DOMAIN queue = 1..Len(queue)
      /\ DOMAIN queue' = 1..(Len(queue) + 1) /\ Len(queue') = Len(queue) + 1
      /\ queue'[Len(queue) + 1] = e
      /\ \A i \in DOMAIN queue : queue'[i] = queue[i]
  BY <1>2, Appended
<1>4. /\ Own' = Own /\ \A p \in Peers : Stores(p)'
      /\ AllStored => AllStored'
  BY <1>0, <1>1, OwnUnchanged, Still
<1>5. CASE job[w].st = "M_OPERATION_UNSUCCESS"
  <2>1. e.type = "COMMIT_UNSUCCESS"
    BY <1>2, <1>5, EventOfStates
  <2> DEFINE n == Len(queue) + 1
  <2>2. n \in DOMAIN queue' /\ queue'[n] = e /\ \A j \in 1..(n - 1) : queue'[j].type = "TIMEOUT_MASTER"
    BY <1>0, <1>3
  <2> HIDE DEF n
  <2>3. EndNext'
    BY <1>0, <1>2, <1>4, <2>1, <2>2 DEF EndNext, Ends
  <2>4. Handles(w)'
    BY <1>1 DEF Handles, Fresh
  <2> QED
    BY <2>3, <2>4 DEF Phase, Failing
<1>6. CASE job[w].st = "M_OPERATION_PERFORMED" /\ AllStored
  <2>1. e.type = "COMMIT_SUCCESS"
    BY <1>2, <1>6, EventOfStates
  <2>2. \A i \in DOMAIN queue' :
          /\ queue'[i].type = "TIMEOUT_MASTER" \/ (queue'[i].type = "COMMIT_SUCCESS" /\ i = Len(queue'))
          /\ queue'[i].type = "COMMIT_SUCCESS" => queue'[i].num = Own'.line.num
    BY <1>0, <1>2, <1>3, <1>4, <2>1
  <2>3. TimeoutsThen("COMMIT_SUCCESS")'
    BY <2>2 DEF TimeoutsThen
  <2>4. Hearing(w)'
    BY <1>1 DEF Hearing
  <2>5. Awaiting(w)'
    BY <1>0, <1>1, <1>4, <1>6, <2>2, <2>3, <2>4 DEF Awaiting
  <2> QED
    BY <2>5 DEF Phase
<1> QED
  BY <1>0, <1>5, <1>6

LEMMA AwaitingStep ==
  ASSUME NEW w, Workers = {w}, NUsers = 1, Inv, IdleNum(w), Awaiting(w), Step(w)
  PROVE  Phase(w)'
<1>1. CASE pc[w] = "findCommit"
  <2>1. Own.state = "U_WAITING_SAVE" /\ \A p \in Peers : Stores(p)
    BY DEF Awaiting
  <2>2. /\ UNCHANGED <<srv, masterState, masterTimer, queue, toPeer, toMaster, file, otherVars>>
        /\ pc'[w] = "idle"
    <3>1. Find(w, "findCommit", "U_WAITING_COMMIT", "commit", AnyNumber)
      BY <1>1, StepAt DEF FindCommit
    <3>2. Own.state # "U_WAITING_COMMIT"
      BY <2>1
    <3> QED
      BY <3>1, <3>2, FindEffect
  <2>3. Own' = Own /\ \A p \in Peers : Stores(p)'
    BY <2>1, <2>2, OwnUnchanged, Still
  <2>4. Hearing(w)'
    BY <2>2 DEF Hearing
  <2>5. Awaiting(w)'
    BY <1>1, <2>1, <2>2, <2>3, <2>4 DEF Awaiting, TimeoutsThen
  <2> QED
    BY <2>5 DEF Phase
<1>2. pc[w] \in {"findCommit", "idle", "note", "once", "check", "master", "post"}
  BY DEF Awaiting, Hearing
<1> QED
  BY <1>1, <1>2, AwaitingTake, AwaitingHear, AwaitingPost

LEMMA SavingStep ==
  ASSUME NEW w, Workers = {w}, NUsers = 1, Inv, Saving(w), Step(w)
  PROVE  Phase(w)'
<1>1. CASE pc[w] = "findSave"
  <2>1. Find(w, "findSave", "U_WAITING_SAVE", "save", {job[w].num})
    BY <1>1, StepAt DEF FindSave
  <2>2. /\ UNCHANGED <<srv, masterState, masterTimer, queue, toPeer, toMaster, file, otherVars>>
        /\ pc'[w] = "save" /\ Same(job'[w], job[w])
    BY <2>1, FindEffect DEF Saving
  <2>3. Own' = Own /\ AllStored'
    BY <2>2, OwnUnchanged, Still DEF Saving
  <2>4. Saving(w)'
    BY <2>2, <2>3 DEF Saving, Quiet, Same
  <2> QED
    BY <2>4 DEF Phase
<1>2. CASE pc[w] = "save"
  <2>1. /\ UNCHANGED <<srv, masterState, masterTimer, queue, toPeer, toMaster, otherVars>>
        /\ \A p \in Peers : file'[p] = file[p]
        /\ pc'[w] = "send" /\ job'[w].idx = 1 /\ job'[w].ret = "reply" /\ job'[w].st = "IDLE"
        /\ \/ job'[w].answer # "WROTE"
           \/ /\ job'[w].answer = "WROTE" /\ IsEnd(job'[w].msg)
              /\ file'[Master] = WithOwn(file[Master])
    BY <1>2, StepAt, SaveEffect
  <2>2. Own' = Own /\ Own.state = "U_WAITING_SAVE"
    BY <2>1, OwnUnchanged DEF Saving
  <2>3. CASE job'[w].answer # "WROTE"
    BY <2>1, <2>2, <2>3 DEF Phase, Failing, Called
  <2>4. CASE /\ job'[w].answer = "WROTE" /\ IsEnd(job'[w].msg)
             /\ file'[Master] = WithOwn(file[Master])
    <3>1. AllOff'
      <4>1. SUFFICES ASSUME NEW p \in Peers PROVE Off(p)'
        BY DEF AllOff
      <4>2. Silent(p) /\ HasOwn(p) /\ srv[p] # "M_PRECOMMITED"
        BY DEF Saving, AllStored
      <4>3. Equal(p)'
        BY <2>1, <2>4, <4>2 DEF Equal, HasOwn
      <4>4. Ended(<<>>)
        BY DEF Ended
      <4> QED
        BY <2>1, <4>2, <4>3, <4>4 DEF Off, Silent
    <3>2. IsEnd(job[w].msg)'
      BY <2>4 DEF IsEnd
    <3>3. Quiet' /\ OldState'
      BY <2>1 DEF Saving, Quiet, OldState
    <3>4. Finishing(w)'
      BY <2>1, <2>2, <2>4, <3>1, <3>2, <3>3 DEF Finishing, Called
    <3> QED
      BY <3>4 DEF Phase
  <2> QED
    BY <2>1, <2>3, <2>4
<1> QED
  BY <1>1, <1>2 DEF Saving

LEMMA EndSent ==
  ASSUME Inv, NEW p \in Peers, Off(p), NEW m, IsEnd(m), file' = file,
         srv'[p] = srv[p], toPeer'[p] = Append(toPeer[p], m), toMaster'[p] = toMaster[p]
  PROVE  Off(p)'
<1>1. toPeer[p] \in Seq(ToPeer)
  BY DEF Inv, TypeOK
<1>2. /\ DOMAIN toPeer[p] = 1..Len(toPeer[p]) /\ DOMAIN toPeer'[p] = 1..(Len(toPeer[p]) + 1)
      /\ Len(toPeer[p]) \in Nat
      /\ \A i \in DOMAIN toPeer[p] : toPeer'[p][i] = toPeer[p][i]
      /\ toPeer'[p][Len(toPeer[p]) + 1] = m
  BY <1>1, LenProperties, AppendProperties
<1>3. \A i \in DOMAIN toPeer'[p] : i \in DOMAIN toPeer[p] \/ i = Len(toPeer[p]) + 1
  BY <1>2
<1>4. \A i \in DOMAIN toPeer[p] : IsEnd(toPeer[p][i])
  BY DEF Off, Ended
<1>5. Ended(toPeer[p])'
  BY <1>2, <1>3, <1>4 DEF Ended, IsEnd
<1> QED
  BY <1>5 DEF Off, Equal

LEMMA ReplyEffect ==
  ASSUME NEW w, Workers = {w}, Inv, Reply(w)
  PROVE  /\ UNCHANGED <<srv, masterState, masterTimer, queue, toPeer, toMaster, file, client>>
         /\ pc'[w] = "clear" /\ job'[w].ret = "findSave"
<1> DEFINE j == [job[w] EXCEPT !.ret = "findSave"]
<1>1. UNCHANGED <<srv, masterState, masterTimer, queue, toPeer, toMaster, file, client>>
  BY DEF Reply, sharedVars, netVars
<1>2. Go(w, "clear", j) /\ j.ret = "findSave"
  BY WorkerType DEF Reply, Job
<1> HIDE DEF j
<1> QED
  BY <1>1, <1>2, WorkerType

LEMMA FinishingCall ==
  ASSUME NEW w, Workers = {w}, NUsers = 1, Inv, Finishing(w), Step(w), pc[w] \in Called
  PROVE  Phase(w)'
<1>0. /\ job[w].ret = "reply" /\ job[w].st = "IDLE" /\ IsEnd(job[w].msg)
      /\ job[w].answer = "WROTE" /\ Quiet /\ OldState /\ Own.state = "U_WAITING_SAVE"
      /\ \A p \in Peers : Off(p)
      /\ job[w].idx \in Peers
  BY WorkerType DEF Finishing, Called, AllOff
<1>1. ASSUME UNCHANGED <<queue, masterTimer, otherVars>>, masterState' \in {masterState, "IDLE"},
             Same(job'[w], job[w]), pc'[w] \in Called \cup {"reply"},
             \A p \in Peers : Off(p)'
      PROVE  Phase(w)'
  <2>1. Own' = Own
    BY <1>1, OwnUnchanged
  <2>2. /\ IsEnd(job[w].msg)' /\ job'[w].ret = "reply" /\ job'[w].st = "IDLE"
        /\ job'[w].answer = "WROTE"
    BY <1>0, <1>1 DEF Same, IsEnd
  <2>3. Quiet' /\ OldState' /\ AllOff'
    BY <1>0, <1>1 DEF Quiet, OldState, AllOff
  <2>4. Finishing(w)'
    BY <1>0, <1>1, <2>1, <2>2, <2>3 DEF Finishing
  <2> QED
    BY <2>4 DEF Phase
<1>2. Same(job[w], job[w])
  BY DEF Same
<1>3. CASE pc[w] = "send"
  <2>1. /\ UNCHANGED <<srv, masterState, masterTimer, queue, toMaster, file, otherVars>>
        /\ \A p \in Peers : p # job[w].idx => toPeer'[p] = toPeer[p]
        /\ LET p == job[w].idx IN
             \/ toPeer'[p] = toPeer[p]
             \/ pc'[w] = "mark" /\ toPeer'[p] = Append(toPeer[p], job[w].msg)
        /\ pc'[w] \in {"mark", "reply"} /\ job'[w] = job[w]
    BY <1>0, <1>3, StepAt, SendEffect
  <2>2. \A p \in Peers : toPeer'[p] = toPeer[p] => Off(p)'
    <3>1. \A p \in Peers : srv[p] # "M_PRECOMMITED"
      BY <1>0 DEF Off
    <3> QED
      BY <1>0, <2>1, <3>1, PeerSame
  <2>3. \A p \in Peers : Off(p)'
    <3>1. CASE toPeer'[job[w].idx] = toPeer[job[w].idx]
      BY <2>1, <2>2, <3>1
    <3>2. CASE toPeer'[job[w].idx] = Append(toPeer[job[w].idx], job[w].msg)
      <4> DEFINE q == job[w].idx
                 m == job[w].msg
      <4>1. /\ q \in Peers /\ Off(q) /\ IsEnd(m) /\ file' = file /\ srv'[q] = srv[q]
            /\ toPeer'[q] = Append(toPeer[q], m) /\ toMaster'[q] = toMaster[q]
        BY <1>0, <2>1, <3>2
      <4>2. \A p \in Peers : p # q => Off(p)'
        BY <2>1, <2>2
      <4> HIDE DEF q, m
      <4>3. \A p \in Peers : p = q => Off(p)'
        BY <4>1, EndSent
      <4> QED
        BY <4>2, <4>3
    <3> QED
      BY <2>1, <3>1, <3>2
  <2> QED
    BY <1>1, <1>2, <2>1, <2>3 DEF Called
<1>4. CASE pc[w] = "mark"
  <2>1. /\ UNCHANGED <<masterState, masterTimer, queue, toPeer, toMaster, file, otherVars>>
        /\ srv'[job[w].idx] = "IDLE"
        /\ \A p \in Peers : p # job[w].idx => srv'[p] = srv[p]
        /\ Same(job'[w], job[w]) /\ pc'[w] \in {"send", "check"}
    BY <1>0, <1>4, StepAt, MarkEffect
  <2>2. \A p \in Peers : srv'[p] # "M_PRECOMMITED"
    BY <1>0, <2>1 DEF Off
  <2>3. \A p \in Peers : Off(p)'
    BY <1>0, <2>1, <2>2, PeerSame
  <2> QED
    BY <1>1, <2>1, <2>3 DEF Called
<1>5. CASE pc[w] = "check"
  <2>1. /\ UNCHANGED <<srv, masterState, masterTimer, queue, toPeer, toMaster, file, otherVars>>
        /\ Same(job'[w], job[w]) /\ pc'[w] \in {"check", "master", "reply"}
    BY <1>0, <1>2, <1>5, StepAt, CheckEffect
  <2>2. \A p \in Peers : Off(p)'
    BY <1>0, <2>1, OwnUnchanged, Still
  <2> QED
    BY <1>1, <2>1, <2>2 DEF Called
<1>6. CASE pc[w] = "master"
  <2>1. "IDLE" \notin ReplyStates
    BY DEF ReplyStates
  <2>2. /\ UNCHANGED <<srv, queue, masterTimer, toPeer, toMaster, file, otherVars>>
        /\ masterState' = "IDLE" /\ pc'[w] = "reply" /\ job'[w] = job[w]
    BY <1>0, <1>6, <2>1, StepAt, SetMasterEffect
  <2>3. \A p \in Peers : Off(p)'
    BY <1>0, <2>2, OwnUnchanged, Still
  <2> QED
    BY <1>1, <1>2, <2>2, <2>3
<1> QED
  BY <1>3, <1>4, <1>5, <1>6 DEF Called

LEMMA FinishingStep ==
  ASSUME NEW w, Workers = {w}, NUsers = 1, Inv, Finishing(w), Step(w)
  PROVE  Phase(w)'
<1>1. CASE pc[w] = "reply"
  <2>1. /\ UNCHANGED <<srv, masterState, masterTimer, queue, toPeer, toMaster, file, client>>
        /\ pc'[w] = "clear" /\ job'[w].ret = "findSave"
    BY <1>1, StepAt, ReplyEffect
  <2>2. Own' = Own /\ AllOff'
    BY <2>1, Still DEF Finishing, Own
  <2>3. Finishing(w)'
    BY <2>1, <2>2 DEF Finishing, Quiet, OldState
  <2> QED
    BY <2>3 DEF Phase
<1>2. CASE pc[w] = "clear"
  <2>1. job[w].ret = "findSave"
    BY <1>2 DEF Finishing, Called
  <2>2. /\ UNCHANGED <<srv, masterState, masterTimer, queue, toPeer, toMaster, file, last, verdict>>
        /\ pc'[w] = "findSave" /\ Own'.state = "IDLE"
    BY <1>2, <2>1, StepAt, ClearEffect
  <2>3. AllOff'
    <3>1. \A p : Off(p) => Off(p)'
      BY <2>2 DEF Off, Equal
    <3> QED
      BY <3>1 DEF Finishing, AllOff
  <2>4. Resting(w)'
    BY <2>2, <2>3 DEF Finishing, Resting, Quiet, OldState
  <2> QED
    BY <2>4 DEF Phase
<1>3. CASE pc[w] \in Called
  BY <1>3, FinishingCall
<1> QED
  BY <1>1, <1>2, <1>3 DEF Finishing

\* Every step of a multicast, and of the loops after it.
LEMMA CallEffect ==
  ASSUME NEW w, Workers = {w}, Inv, Step(w), pc[w] \in Called,
         job[w].ret # "idle", job[w].st = "IDLE"
  PROVE  UNCHANGED otherVars /\ Same(job'[w], job[w]) /\ pc'[w] \in Called \cup {job[w].ret}
<1>1. Same(job[w], job[w])
  BY DEF Same
<1>2. CASE pc[w] = "send"
  <2>1. /\ UNCHANGED otherVars /\ job'[w] = job[w] /\ pc'[w] \in {"mark", job[w].ret}
    BY <1>2, StepAt, SendEffect
  <2> QED
    BY <1>1, <2>1 DEF Called
<1>3. CASE pc[w] = "mark"
  <2>1. UNCHANGED otherVars /\ Same(job'[w], job[w]) /\ pc'[w] \in {"send", "check"}
    BY <1>3, StepAt, MarkEffect
  <2> QED
    BY <2>1 DEF Called
<1>4. CASE pc[w] = "check"
  <2>1. UNCHANGED otherVars /\ Same(job'[w], job[w]) /\ pc'[w] \in {"check", "master", job[w].ret}
    BY <1>1, <1>4, StepAt, CheckEffect
  <2> QED
    BY <2>1 DEF Called
<1>5. CASE pc[w] = "master"
  <2>1. "IDLE" \notin ReplyStates
    BY DEF ReplyStates
  <2>2. UNCHANGED otherVars /\ job'[w] = job[w] /\ pc'[w] = job[w].ret
    BY <1>5, <2>1, StepAt, SetMasterEffect
  <2> QED
    BY <1>1, <2>2
<1> QED
  BY <1>2, <1>3, <1>4, <1>5 DEF Called

\* A timeout is taken before the event that ends the exchange.
LEMMA EndShifted ==
  ASSUME Inv, queue # <<>>, queue' = Tail(queue), Own' = Own,
         EndNext, ~Ends(queue[1])
  PROVE  EndNext'
<1> DEFINE n == Len(queue)
<1>0. queue \in Seq(Event)
  BY DEF Inv, TypeOK
<1>1. /\ n \in Nat /\ n >= 1 /\ DOMAIN queue = 1..n
      /\ 1..(n - 1) \subseteq DOMAIN queue'
      /\ \A i \in 1..(n - 1) : queue'[i] = queue[i + 1]
  <2>1. /\ n \in Nat /\ n >= 1 /\ DOMAIN queue = 1..n
        /\ DOMAIN queue' = 1..(n - 1)
        /\ \A i \in 1..(n - 1) : queue'[i] = queue[i + 1]
    BY <1>0, Taken
  <2> HIDE DEF n
  <2> QED
    BY <2>1
<1> HIDE DEF n
<1>2. PICK i \in DOMAIN queue :
        Ends(queue[i]) /\ \A j \in 1..(i - 1) : queue[j].type = "TIMEOUT_MASTER"
  BY DEF EndNext
<1>3. i # 1 /\ i \in Nat /\ i - 1 \in 1..(n - 1) /\ (i - 1) + 1 = i
  BY <1>1, <1>2
<1> DEFINE k == i - 1
<1>4. k \in DOMAIN queue' /\ Ends(queue'[k])
  BY <1>1, <1>2, <1>3
<1>5. \A j \in 1..(k - 1) : queue'[j].type = "TIMEOUT_MASTER"
  <2>1. \A j \in 1..(k - 1) : j + 1 \in 1..(i - 1) /\ j \in 1..(n - 1)
    BY <1>1, <1>3
  <2> QED
    BY <1>1, <1>2, <2>1
<1> HIDE DEF k
<1> QED
  BY <1>4, <1>5 DEF EndNext, Ends

LEMMA FailingTake ==
  ASSUME NEW w, Workers = {w}, NUsers = 1, Inv, EndNext, Handles(w), Step(w), pc[w] = "idle"
  PROVE  Phase(w)'
<1>1. /\ UNCHANGED <<srv, masterState, masterTimer, toPeer, toMaster, file, otherVars>>
      /\ queue \in Seq(Event) /\ queue # <<>> /\ queue[1] \in Event /\ 1 \in DOMAIN queue
      /\ queue' = Tail(queue)
      /\ queue[1].type = "TIMEOUT_MASTER" =>
           (pc'[w] = "post" /\ job'[w].ret = "idle") \/ UNCHANGED workerVars
      /\ queue[1].type = "PRECOMMIT_ERR" =>
           pc'[w] = "send" /\ job'[w].ret = "findAbort" /\ job'[w].st = "IDLE"
      /\ queue[1].type \notin {"TIMEOUT_MASTER", "PRECOMMIT_ERR"} =>
           pc'[w] = Handler(queue[1].type) /\ job'[w].num = queue[1].num
  BY StepAt, TakeEffect
<1>2. Own' = Own
  BY <1>1, OwnUnchanged
<1>3. Ends(queue[1]) \/ queue[1].type = "TIMEOUT_MASTER"
  <2>1. PICK i \in DOMAIN queue :
          Ends(queue[i]) /\ \A j \in 1..(i - 1) : queue[j].type = "TIMEOUT_MASTER"
    BY DEF EndNext
  <2>2. i \in Nat /\ i >= 1
    BY <1>1, LenProperties
  <2>3. i = 1 \/ 1 \in 1..(i - 1)
    BY <2>2
  <2> QED
    BY <2>1, <2>3
<1>4. CASE queue[1].type = "TIMEOUT_MASTER"
  <2>2. ~Ends(queue[1])
    BY <1>4 DEF Ends
  <2>3. EndNext'
    BY <1>1, <1>2, <2>2, EndShifted
  <2>4. Handles(w)'
    BY <1>1, <1>4 DEF Handles, workerVars
  <2> QED
    BY <2>3, <2>4 DEF Phase, Failing
<1>5. CASE Own.state = "U_WAITING_COMMIT" /\ queue[1].type = "PRECOMMIT_ERR"
  <2>1. Failing(w)'
    BY <1>1, <1>2, <1>5 DEF Failing, Called
  <2> QED
    BY <2>1 DEF Phase
<1>6. CASE /\ Own.state = "U_WAITING_SAVE" /\ queue[1].type = "COMMIT_UNSUCCESS"
           /\ queue[1].num \in {NoNum, Own.line.num}
  <2>1. pc'[w] = "findUndo" /\ job'[w].num = queue[1].num
    BY <1>1, <1>6, HandlerOf DEF Event
  <2>2. Failing(w)'
    BY <1>2, <1>6, <2>1 DEF Failing
  <2> QED
    BY <2>2 DEF Phase
<1> QED
  BY <1>3, <1>4, <1>5, <1>6 DEF Ends

LEMMA FailingHandles ==
  ASSUME NEW w, Workers = {w}, NUsers = 1, Inv, EndNext, Handles(w), Step(w), pc[w] # "idle"
  PROVE  Phase(w)'
<1>0. /\ job[w].ret = "idle" /\ Fresh.ret = "idle"
      /\ pc[w] # "post" => job[w].st \in ReplyStates
  BY DEF Handles, Fresh
<1>1. ASSUME queue' = queue, UNCHANGED otherVars, pc[w] # "post",
             \/ pc'[w] = "idle" /\ job'[w] = Fresh
             \/ pc'[w] \in {"once", "check", "master", "post"} /\ Same(job'[w], job[w])
      PROVE  Phase(w)'
  <2>1. EndNext'
    BY <1>1, OwnUnchanged DEF EndNext, Ends
  <2>2. Handles(w)'
    BY <1>0, <1>1 DEF Handles, Same
  <2> QED
    BY <2>1, <2>2 DEF Phase, Failing
<1>2. Same(job[w], job[w])
  BY DEF Same
<1>3. CASE pc[w] = "note"
  <2>1. /\ queue' = queue /\ UNCHANGED otherVars /\ Same(job'[w], job[w])
        /\ pc'[w] \in {"once", "check"}
    BY <1>3, StepAt, NoteEffect
  <2> QED
    BY <1>1, <1>3, <2>1
<1>4. CASE pc[w] = "once"
  <2>1. /\ queue' = queue /\ UNCHANGED otherVars
        /\ \/ pc'[w] = "idle" /\ job'[w] = Fresh
           \/ pc'[w] = "master" /\ job'[w] = job[w]
    BY <1>4, StepAt, OnceEffect
  <2> QED
    BY <1>1, <1>4, <1>2, <2>1
<1>5. CASE pc[w] = "check"
  <2>1. /\ queue' = queue /\ UNCHANGED otherVars
        /\ \/ pc'[w] = "idle" /\ job'[w] = Fresh
           \/ pc'[w] \in {"check", "master"} /\ Same(job'[w], job[w])
    BY <1>0, <1>5, StepAt, CheckEffect
  <2> QED
    BY <1>1, <1>5, <2>1
<1>6. CASE pc[w] = "master"
  <2>1. queue' = queue /\ UNCHANGED otherVars /\ pc'[w] = "post" /\ job'[w] = job[w]
    BY <1>0, <1>6, StepAt, SetMasterEffect
  <2> QED
    BY <1>1, <1>6, <1>2, <2>1
<1>7. CASE pc[w] = "post"
  <2>1. /\ UNCHANGED otherVars /\ pc'[w] = "idle" /\ job'[w] = Fresh
        /\ \E e : queue' = Append(queue, e)
    BY <1>7, StepAt, PostEffect
  <2>2. EndNext'
    BY <2>1, OwnUnchanged, Appended
  <2>3. Handles(w)'
    BY <1>0, <2>1 DEF Handles
  <2> QED
    BY <2>2, <2>3 DEF Phase, Failing
<1> QED
  BY <1>3, <1>4, <1>5, <1>6, <1>7 DEF Handles

\* The answer would be an error.
LEMMA NoErrorAnswer ==
  ASSUME NEW w, Workers = {w}, NUsers = 1, Inv, Answering(w), AllWell, AllWell',
         Own.state # "IDLE", NEW v \in Verdicts, v # "WROTE"
  PROVE  ~Answer(1, v)
BY AnswerWell, WaitsUnanswered

LEMMA FailingStep ==
  ASSUME NEW w, Workers = {w}, NUsers = 1, Inv, Answering(w), AllWell, AllWell',
         Failing(w), Step(w)
  PROVE  Phase(w)'
<1>0. job[w].usr = 1 /\ job[w].answer \in Verdicts /\ {"ERROR", "UNKNOWN"} \subseteq Verdicts
  BY OneUser, WorkerType DEF Verdicts, Job
<1>1. CASE EndNext /\ Handles(w)
  BY <1>1, FailingTake, FailingHandles
<1>9. CASE TimedOut(w)
  <2>1. /\ UNCHANGED otherVars /\ pc'[w] = "idle" /\ job'[w] = Fresh
        /\ \E e : /\ queue' = Append(queue, e) /\ e.num = job[w].num
                  /\ e.type = EventOf(job[w].st)
    BY <1>9, StepAt, PostEffect DEF TimedOut
  <2>2. PICK e : queue' = Append(queue, e) /\ e.num = job[w].num /\ e.type = EventOf(job[w].st)
    BY <2>1
  <2>3. Ends(e)
    BY <1>9, <2>2, EventOfStates DEF TimedOut, Ends
  <2>4. EndNext'
    BY <1>9, <2>1, <2>2, <2>3, OwnUnchanged, LastOfAll DEF TimedOut
  <2>5. Handles(w)'
    BY <2>1 DEF Handles, Fresh
  <2> QED
    BY <2>4, <2>5 DEF Phase, Failing
<1>2. CASE Own.state = "U_WAITING_COMMIT" /\ pc[w] = "refuse"
  <2>1. Answer(1, "ERROR")
    BY <1>0, <1>2, StepAt DEF Refuse
  <2> QED
    BY <1>0, <1>2, <2>1, NoErrorAnswer
<1>3. CASE Own.state = "U_WAITING_COMMIT" /\ pc[w] = "findAbort"
  <2>1. Find(w, "findAbort", "U_WAITING_COMMIT", "refuse", AnyNumber)
    BY <1>3, StepAt DEF FindAbort
  <2>2. UNCHANGED otherVars /\ pc'[w] = "refuse"
    BY <1>3, <2>1, FindEffect
  <2>3. Failing(w)'
    BY <1>3, <2>2, OwnUnchanged DEF Failing
  <2> QED
    BY <2>3 DEF Phase
<1>4. CASE Own.state = "U_WAITING_SAVE" /\ pc[w] = "undo"
  <2>1. Answer(1, "ERROR") \/ Answer(1, "UNKNOWN")
    BY <1>0, <1>4, StepAt DEF Undo
  <2> QED
    BY <1>0, <1>4, <2>1, NoErrorAnswer
<1>5. CASE /\ Own.state = "U_WAITING_SAVE" /\ pc[w] = "findUndo"
           /\ job[w].num \in {NoNum, Own.line.num}
  <2>1. Find(w, "findUndo", "U_WAITING_SAVE", "undo",
             IF job[w].num = NoNum THEN AnyNumber ELSE {job[w].num})
    BY <1>5, StepAt DEF FindUndo
  <2>2. UNCHANGED otherVars /\ pc'[w] = "undo" /\ Same(job'[w], job[w])
    BY <1>5, <2>1, FindEffect
  <2>3. Failing(w)'
    BY <1>5, <2>2, OwnUnchanged DEF Failing, Same
  <2> QED
    BY <2>3 DEF Phase
<1>6. CASE Own.state = "U_WAITING_SAVE" /\ pc[w] = "reply" /\ job[w].answer # "WROTE"
  <2>1. Answer(1, job[w].answer)
    BY <1>0, <1>6, StepAt DEF Reply
  <2> QED
    BY <1>0, <1>6, <2>1, NoErrorAnswer
<1>7. CASE /\ Own.state = "U_WAITING_COMMIT" /\ pc[w] \in Called
           /\ job[w].ret = "findAbort" /\ job[w].st = "IDLE"
  <2>1. UNCHANGED otherVars /\ Same(job'[w], job[w]) /\ pc'[w] \in Called \cup {"findAbort"}
    BY <1>7, CallEffect
  <2>2. Failing(w)'
    BY <1>7, <2>1, OwnUnchanged DEF Failing, Same
  <2> QED
    BY <2>2 DEF Phase
<1>8. CASE /\ Own.state = "U_WAITING_SAVE" /\ pc[w] \in Called
           /\ job[w].ret = "reply" /\ job[w].st = "IDLE" /\ job[w].answer # "WROTE"
  <2>1. UNCHANGED otherVars /\ Same(job'[w], job[w]) /\ pc'[w] \in Called \cup {"reply"}
    BY <1>8, CallEffect
  <2>2. Failing(w)'
    BY <1>8, <2>1, OwnUnchanged DEF Failing, Same
  <2> QED
    BY <2>2 DEF Phase
<1> QED
  BY <1>1, <1>2, <1>3, <1>4, <1>5, <1>6, <1>7, <1>8, <1>9 DEF Failing

-----------------------------------------------------------------------------
(* Every step leads from a phase to a phase *)

\* As long as every answer is a success, and no REPLACE has run over other lines, an
\* exchange is in one of its phases.
InPhase(w) == AllWell /\ Unspilled => Phase(w)

LEMMA PhaseStep ==
  ASSUME NEW w, Workers = {w}, NUsers = 1, Inv, IdleNum(w), Answering(w), AllWell, AllWell',
         Phase(w), Step(w)
  PROVE  Phase(w)'
BY RestingStep, ConnectingStep, AskingStep, GatheringStep, StartingStep, OrderingStep,
   AwaitingStep, SavingStep, FinishingStep, FailingStep DEF Phase

LEMMA PhaseNext ==
  ASSUME NEW w, Workers = {w}, NUsers = 1, Inv, IdleNum(w), Answering(w), InPhase(w), [Next]_vars
  PROVE  InPhase(w)'
<1>1. SUFFICES ASSUME AllWell', Unspilled' PROVE Phase(w)'
  BY DEF InPhase
<1>2. AllWell /\ Phase(w) /\ [Exchange]_vars
  BY <1>1, WellBefore, SpilledSteps DEF InPhase
<1>3. CASE Step(w)
  BY <1>1, <1>2, <1>3, PhaseStep
<1>4. CASE Receive(w)
  BY <1>2, <1>4, RecvPhase, ClosedPhase DEF Receive
<1>5. CASE Command(w)
  BY <1>2, <1>5, CommandPhase
<1>6. CASE MasterTimerFires
  BY <1>2, <1>6, TimerPhase
<1>7. CASE \E p \in Peers : PeerRecv(p) \/ SlaveTimeout(p) \/ PeerCrash(p) \/ PeerStart(p)
  <2>1. /\ \A p \in Peers : PeerEffect(p)
        /\ file'[Master] = file[Master]
        /\ UNCHANGED <<sharedVars, workerVars, userVars>>
    BY <1>7, PeerEffects DEF Inv
  <2> QED
    BY <1>2, <2>1, PeersPhase
<1>8. CASE UNCHANGED vars
  <2>1. /\ \A p \in Peers : PeerEffect(p)
        /\ file'[Master] = file[Master]
        /\ UNCHANGED <<sharedVars, workerVars, userVars>>
    BY <1>8 DEF vars, netVars, PeerEffect
  <2> QED
    BY <1>2, <2>1, PeersPhase
<1> QED
  BY <1>2, <1>3, <1>4, <1>5, <1>6, <1>7, <1>8 DEF Exchange

LEMMA PhaseInit == ASSUME NEW w, Workers = {w}, NUsers = 1, Init PROVE InPhase(w)
<1>1. Own.state = "IDLE" /\ pc[w] = "idle"
  BY DEF Init, Own
<1>2. Quiet /\ OldState
  BY DEF Init, Quiet, OldState
<1>3. AllOff
  <2>1. SUFFICES ASSUME NEW p \in Peers PROVE Off(p)
    BY DEF AllOff
  <2>2. p \in Servers /\ Master \in Servers
    OBVIOUS
  <2>3. /\ toPeer[p] = <<>> /\ toMaster[p] = <<>> /\ srv[p] = "DISCONNECT"
        /\ file[p] = file[Master]
    BY <2>2 DEF Init
  <2> QED
    BY <2>3 DEF Off, Ended, Equal
<1>4. Resting(w)
  BY <1>1, <1>2, <1>3 DEF Resting
<1> QED
  BY <1>4 DEF InPhase, Phase

\* Between commands, and once the answer is sent, the files are the same.
LEMMA PhaseAgrees ==
  ASSUME NEW w, Workers = {w}, NUsers = 1, Inv, Recorded(w), Answering(w), InPhase(w)
  PROVE  FilesAgree
<1>1. SUFFICES ASSUME Unspilled, \A c \in 1..issued : verdict[c] = <<"WROTE">>
               PROVE  AllOff
  BY DEF FilesAgree, AllOff, Off, Equal
<1>2. issued \in 0..MaxCmds /\ last[1] \in 0..MaxCmds /\ 1 \in Users
  BY OneUser DEF Inv, TypeOK
<1>3. AllWell
  <2>1. \A c \in Cmds : c \in 1..issued \/ c > issued
    BY <1>2
  <2> QED
    BY <1>1, <2>1 DEF Answering, OneIssuer, AllWell
<1>4. Phase(w)
  BY <1>1, <1>3 DEF InPhase
<1>5. CASE Own.state = "IDLE"
  BY <1>4, <1>5, IdlePhase DEF Resting
<1>6. CASE Own.state # "IDLE"
  <2>1. last[1] # 0 /\ (pc[w] # "clear" => Pending(1))
    BY <1>3, <1>6, WaitsUnanswered
  <2>2. last[1] \in 1..issued
    BY <1>2, <2>1 DEF Recorded, OwnCommand
  <2>3. verdict[last[1]] # <<>>
    <3>1. <<"WROTE">> # <<>>
      OBVIOUS
    <3> QED
      BY <1>1, <2>2, <3>1
  <2>4. pc[w] = "clear"
    BY <2>1, <2>3 DEF Pending
  <2>5. /\ ~Connecting(w) /\ ~Asking(w) /\ ~Gathering(w) /\ ~Starting(w) /\ ~Ordering(w)
        /\ ~Awaiting(w) /\ ~Saving(w) /\ ~Failing(w) /\ ~Resting(w)
    BY <2>4 DEF Connecting, Asking, Gathering, Acking, Starting, Ordering, Awaiting, Hearing,
       Saving, Failing, TimedOut, Handles, Resting, Called
  <2> QED
    BY <1>4, <2>5 DEF Phase, Finishing
<1> QED
  BY <1>5, <1>6

\* With one worker and one user, whatever the number of peers, commands, crashes
\* and timeouts and however messages merge: if every command so far was answered
\* "3.0 WROTE", once, every peer's bbfile is line by line the master's, until a REPLACE
\* runs over other lines. A late acknowledgement, an expired timer or a closed
\* connection between the two phases always ends in an answer that is not a success.
THEOREM FilesAgreeHolds ==
  ASSUME NEW w, Workers = {w}, NUsers = 1
  PROVE  Spec => []FilesAgree
<1>1. Init => OnePlace(w) /\ Recorded(w) /\ Answering(w) /\ IdleNum(w) /\ InPhase(w)
  <2>1. Init => IdleNum(w)
    BY DEF Init, IdleNum, Fresh
  <2> QED
    BY <2>1, OnePlaceInit, RecordedInit, AnsweringInit, PhaseInit
<1>2. Inv /\ OnePlace(w) /\ Recorded(w) /\ Answering(w) /\ IdleNum(w) /\ InPhase(w) /\ [Next]_vars
        => OnePlace(w)' /\ Recorded(w)' /\ Answering(w)' /\ IdleNum(w)' /\ InPhase(w)'
  BY OnePlaceNext, RecordedNext, AnsweringNext, IdleNumNext, PhaseNext
<1>3. Inv /\ Recorded(w) /\ Answering(w) /\ InPhase(w) => FilesAgree
  BY PhaseAgrees
<1> QED
  BY <1>1, <1>2, <1>3, Invariant, PTL DEF Spec
=============================================================================
