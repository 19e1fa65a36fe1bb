---------------------------- MODULE Connections -----------------------------
(***************************************************************************)
(* The connections of a server (connection.cpp) and the records of their   *)
(* clients (list.cpp): the thread that calls select() every millisecond,   *)
(* the workers that accept, receive and disconnect (event.cpp), the        *)
(* connection to the peer that a WRITE makes, and the messages sent        *)
(* through the descriptor of the peer's record, which it keeps when the    *)
(* connection has ended (sync.cpp).                                        *)
(*                                                                         *)
(* The kernel gives the lowest free descriptor. A client is a user or the  *)
(* master of another server; of what they send only its effect on the      *)
(* connections matters. Any idle worker may take the first event: when     *)
(* that is so is the subject of EventQueue.                                *)
(***************************************************************************)
EXTENDS Integers, Sequences, FiniteSets, FiniteSetsExt, SequencesExt

CONSTANTS
  Workers,
  Users, Masters,  \* clients of the user port and of the sync port
  Peer,            \* the one server in PEERS
  NFd,             \* descriptors the process can have for connections
  MaxConn,         \* size of connections[] without the two listening sockets
  MaxQueue, MaxConnects, MaxSends, MaxPeerStops, MaxMulticasts  \* bounds of the instance

Clients == Users \cup Masters

ASSUME ConnectionConstantsOK ==
  /\ Users \cap Masters = {} /\ Peer \notin Clients
  /\ {NFd, MaxConn, MaxQueue} \subseteq Nat \ {0}
  /\ {MaxConnects, MaxSends, MaxPeerStops, MaxMulticasts} \subseteq Nat
  /\ {"nobody", "lost"} \cap (Clients \cup {Peer}) = {}

VARIABLES
  backlog,     \* clients that wait in front of each listening socket
  sock,        \* the descriptors
  connections, \* the table of connections, 0 in an empty entry
  readSet,     \* read_fd_set
  thread,      \* where the connection thread is
  entry,       \* the table's entry that conn_check_fd_set() is at
  queue,       \* clientEvQueue
  clientList,  \* the records, the newest first
  pc, job,     \* each worker's position and local variables
  server,      \* the record of the peer in syncServerList
  peerUp,      \* the peer runs
  exited,      \* the process has ended by CHECK_EXIT
  dropped,     \* history: the descriptors conn_add() found no entry for
  strayed,     \* history: a message for the peer has gone to another client
  used         \* how much of the bounds is used

vars == <<backlog, sock, connections, readSet, thread, entry, queue, clientList, pc,
          job, server, peerUp, exited, dropped, strayed, used>>

Ports   == {"user", "sync"}
PortOf(c) == IF c \in Users THEN "user" ELSE "sync"
FDs     == 1 .. NFd
Ends    == Clients \cup {Peer}
Free    == [end |-> "nobody", data |-> "none", eof |-> FALSE]
Lost    == [end |-> "lost", data |-> "none", eof |-> FALSE]
Opened(e) == [end |-> e, data |-> "none", eof |-> FALSE]
Says(c) == IF c \in Users THEN {"command", "write", "quit"} ELSE {"command"}
Records == [fd : FDs, end : Ends]
Sockets == [end : Ends \cup {"nobody", "lost"},
            data : {"none", "command", "write", "quit"}, eof : BOOLEAN]
Events  == [type : {"accept"}, port : Ports, fd : {0}]
           \cup [type : {"recv"}, port : {"user"}, fd : FDs]
NoSet   == [port |-> {}, fd |-> {}]
NoRec   == [fd |-> 0, end |-> "nobody"]
NoJob   == [port |-> "user", rec |-> NoRec]
Jobs    == [port : Ports, rec : Records \cup {NoRec}]
Labels  == {"idle", "accept", "add", "list", "link", "recv", "connect",
            "close", "clear", "unlist", "sent"}

Init ==
  /\ backlog = [p \in Ports |-> <<>>]
  /\ sock = [f \in FDs |-> Free]
  /\ connections = [i \in 1 .. MaxConn |-> 0]
  /\ readSet = NoSet /\ thread = "select" /\ entry = 1 /\ queue = <<>>
  /\ clientList = <<>>
  /\ pc = [w \in Workers |-> "idle"] /\ job = [w \in Workers |-> NoJob]
  /\ server = [connected |-> FALSE, fd |-> 0]
  /\ peerUp = TRUE /\ exited = FALSE /\ dropped = {} /\ strayed = FALSE
  /\ used = [connect |-> 0, send |-> 0, stop |-> 0, multicast |-> 0]

FreeFDs   == {f \in FDs : sock[f] = Free}
InTable   == {f \in FDs : \E i \in DOMAIN connections : connections[i] = f}
Readable(f) == sock[f].data # "none" \/ sock[f].eof

Move(w, from, to) == pc[w] = from /\ pc' = [pc EXCEPT ![w] = to]
Keep(w, j)        == job' = [job EXCEPT ![w] = j]

sockets == <<backlog, sock>>
lists   == <<connections, readSet, clientList, server, strayed, dropped>>
loop    == <<thread, entry>>
others  == <<peerUp, exited, used>>

-----------------------------------------------------------------------------
(* The clients and the peer *)

Connected(c) == c \in Range(backlog[PortOf(c)]) \/ \E f \in FDs : sock[f].end = c

ClientConnects(c) ==
  /\ ~Connected(c) /\ used.connect < MaxConnects
  /\ backlog' = [backlog EXCEPT ![PortOf(c)] = Append(@, c)]
  /\ used' = [used EXCEPT !.connect = @ + 1]
  /\ UNCHANGED <<sock, lists, loop, queue, pc, job, peerUp, exited>>

ClientSends(f) ==
  /\ sock[f].end \in Clients /\ ~sock[f].eof /\ sock[f].data = "none"
  /\ used.send < MaxSends
  /\ \E m \in Says(sock[f].end) : sock' = [sock EXCEPT ![f].data = m]
  /\ used' = [used EXCEPT !.send = @ + 1]
  /\ UNCHANGED <<backlog, lists, loop, queue, pc, job, peerUp, exited>>

ClientLeaves(f) ==
  /\ sock[f].end \in Clients /\ ~sock[f].eof
  /\ sock' = [sock EXCEPT ![f].eof = TRUE]
  /\ UNCHANGED <<backlog, lists, loop, queue, pc, job, others>>

PeerStops ==
  /\ peerUp /\ used.stop < MaxPeerStops
  /\ peerUp' = FALSE
  /\ sock' = [f \in FDs |-> IF sock[f].end = Peer THEN [sock[f] EXCEPT !.eof = TRUE]
                            ELSE sock[f]]
  /\ used' = [used EXCEPT !.stop = @ + 1]
  /\ UNCHANGED <<backlog, lists, loop, queue, pc, job, exited>>

PeerStarts ==
  /\ ~peerUp /\ peerUp' = TRUE
  /\ UNCHANGED <<sockets, lists, loop, queue, pc, job, exited, used>>

-----------------------------------------------------------------------------
(* The connection thread *)

Waiting(p) == backlog[p] # <<>>

\* select() fails as long as the table holds a closed descriptor.
Select ==
  /\ thread = "select" /\ ~exited
  /\ \A f \in InTable : sock[f] # Free
  /\ (\E p \in Ports : Waiting(p)) \/ (\E f \in InTable : Readable(f))
  /\ readSet' = [port |-> {p \in Ports : Waiting(p)}, fd |-> {f \in InTable : Readable(f)}]
  /\ thread' = "check"
  /\ UNCHANGED <<sockets, connections, clientList, server, strayed, dropped, entry, queue, pc,
                 job, others>>

EventOf(type, port, f) == [type |-> type, port |-> port, fd |-> f]

\* A client that waits, a user first, is all that the turn attends to.
PostAccept ==
  LET p == IF "user" \in readSet.port THEN "user" ELSE "sync" IN
  /\ thread = "check" /\ readSet.port # {} /\ ~exited
  /\ Len(queue) < MaxQueue /\ queue' = Append(queue, EventOf("accept", p, 0))
  /\ thread' = "select" /\ readSet' = NoSet
  /\ UNCHANGED <<sockets, connections, clientList, server, strayed, dropped, entry, pc, job,
                 others>>

\* Faulty variant of PostRecv: the loop leaves out the last entry.
PostButLast ==
  LET f == connections[entry] IN
  /\ thread = "check" /\ readSet.port = {} /\ ~exited
  /\ IF f \in readSet.fd /\ entry < MaxConn
       THEN Len(queue) < MaxQueue /\ queue' = Append(queue, EventOf("recv", "user", f))
       ELSE UNCHANGED queue
  /\ IF entry < MaxConn THEN entry' = entry + 1 /\ UNCHANGED <<thread, readSet>>
     ELSE thread' = "select" /\ readSet' = NoSet /\ entry' = 1
  /\ UNCHANGED <<sockets, connections, clientList, server, strayed, dropped, pc, job, others>>

\* conn_check_fd_set(): else the table is gone through, and every connection in the
\* set gets an event.
PostRecv ==
  LET f == connections[entry] IN
  /\ thread = "check" /\ readSet.port = {} /\ ~exited
  /\ IF f \in readSet.fd
       THEN Len(queue) < MaxQueue /\ queue' = Append(queue, EventOf("recv", "user", f))
       ELSE UNCHANGED queue
  /\ IF entry < MaxConn THEN entry' = entry + 1 /\ UNCHANGED <<thread, readSet>>
     ELSE thread' = "select" /\ readSet' = NoSet /\ entry' = 1
  /\ UNCHANGED <<sockets, connections, clientList, server, strayed, dropped, pc, job, others>>

-----------------------------------------------------------------------------
(* accept() *)

\* The record client_list_find() returns for a descriptor.
Find(f) ==
  LET S == {i \in DOMAIN clientList : clientList[i].fd = f}
  IN  IF S = {} THEN NoRec ELSE clientList[Min(S)]

\* Faulty variant of Take: an event that finds no record is received all the same.
TakeAll(w) ==
  /\ queue # <<>> /\ ~exited
  /\ LET e == Head(queue) IN
     \/ e.type = "accept" /\ Move(w, "idle", "accept")
        /\ Keep(w, [NoJob EXCEPT !.port = e.port])
     \/ e.type = "recv" /\ Move(w, "idle", "recv")
        /\ Keep(w, [NoJob EXCEPT !.rec = [fd |-> e.fd, end |-> sock[e.fd].end]])
  /\ queue' = Tail(queue)
  /\ UNCHANGED <<sockets, lists, loop, others>>

\* The first event; EV_RECV for a connection without a record is dropped.
Take(w) ==
  /\ queue # <<>> /\ ~exited
  /\ LET e == Head(queue) IN
     \/ e.type = "accept" /\ Move(w, "idle", "accept")
        /\ Keep(w, [NoJob EXCEPT !.port = e.port])
     \/ e.type = "recv" /\ Find(e.fd) # NoRec /\ Move(w, "idle", "recv")
        /\ Keep(w, [NoJob EXCEPT !.rec = Find(e.fd)])
     \/ e.type = "recv" /\ Find(e.fd) = NoRec /\ pc[w] = "idle"
        /\ UNCHANGED <<pc, job>>
  /\ queue' = Tail(queue)
  /\ UNCHANGED <<sockets, lists, loop, others>>

\* Blocks until a client waits.
Accept(w) ==
  LET p == job[w].port  f == Min(FreeFDs) IN
  /\ backlog[p] # <<>> /\ FreeFDs # {} /\ ~exited
  /\ Move(w, "accept", "add")
  /\ Keep(w, [job[w] EXCEPT !.rec = [fd |-> f, end |-> Head(backlog[p])]])
  /\ sock' = [sock EXCEPT ![f] = Opened(Head(backlog[p]))]
  /\ backlog' = [backlog EXCEPT ![p] = Tail(@)]
  /\ UNCHANGED <<lists, loop, queue, others>>

\* No descriptor is left: the client goes on waiting.
AcceptFails(w) ==
  /\ backlog[job[w].port] # <<>> /\ FreeFDs = {} /\ ~exited
  /\ Move(w, "accept", "idle")
  /\ Keep(w, NoJob)
  /\ UNCHANGED <<sockets, lists, loop, queue, others>>

\* Faulty variant of ConnAdd: the table has no end.
ConnAddPast(w) ==
  /\ Move(w, "add", "list") /\ ~exited
  /\ connections' = Append(connections, job[w].rec.fd)
  /\ UNCHANGED <<sockets, readSet, clientList, server, strayed, dropped, loop, queue, job, others>>

\* conn_add(): the first empty entry, or none if the table is full. FD_SET() matters
\* between select() and the test of its result: the next turn begins with FD_ZERO().
ConnAdd(w) ==
  LET f == job[w].rec.fd
      empty == {i \in DOMAIN connections : connections[i] = 0}
  IN
  /\ Move(w, "add", "list") /\ ~exited
  /\ IF f \in InTable THEN UNCHANGED <<connections, readSet, dropped>>
     ELSE /\ readSet' = IF thread = "check" THEN [readSet EXCEPT !.fd = @ \cup {f}]
                        ELSE readSet
          /\ IF empty = {} THEN dropped' = dropped \cup {f} /\ UNCHANGED connections
             ELSE /\ connections' = [connections EXCEPT ![Min(empty)] = f]
                  /\ dropped' = dropped \ {f}
  /\ UNCHANGED <<sockets, clientList, server, strayed, loop, queue, job, others>>

\* client_list_add(), of a client that was accepted or of the peer.
ListAdd(w) ==
  LET r == job[w].rec IN
  /\ Move(w, "list", IF r.end = Peer THEN "link" ELSE "idle") /\ ~exited
  /\ clientList' = <<r>> \o clientList
  /\ Keep(w, IF r.end = Peer THEN job[w] ELSE NoJob)
  /\ UNCHANGED <<sockets, connections, readSet, server, strayed, dropped, loop, queue, others>>

-----------------------------------------------------------------------------
(* The connection to the peer, made by a WRITE *)

\* Without a free descriptor socket() ends the process; when connect() fails the
\* new socket is never closed.
Connect(w) ==
  LET f == Min(FreeFDs) IN
  /\ pc[w] = "connect" /\ ~exited
  /\ \/ /\ FreeFDs = {} /\ exited' = TRUE
        /\ UNCHANGED <<pc, job, sock>>
     \/ /\ FreeFDs # {} /\ ~peerUp
        /\ sock' = [sock EXCEPT ![f] = Lost]
        /\ Move(w, "connect", "idle") /\ Keep(w, NoJob) /\ UNCHANGED exited
     \/ /\ FreeFDs # {} /\ peerUp
        /\ sock' = [sock EXCEPT ![f] = Opened(Peer)]
        /\ Move(w, "connect", "add") /\ Keep(w, [job[w] EXCEPT !.rec = [fd |-> f, end |-> Peer]])
        /\ UNCHANGED exited
  /\ UNCHANGED <<backlog, lists, loop, queue, peerUp, used>>

\* sync_server_list_set_fd() and sync_server_list_set_state().
Link(w) ==
  /\ Move(w, "link", "idle") /\ ~exited
  /\ Keep(w, NoJob)
  /\ server' = [connected |-> TRUE, fd |-> job[w].rec.fd]
  /\ UNCHANGED <<sockets, connections, readSet, clientList, strayed, dropped, loop, queue, others>>

\* A worker handles an answer, or the master's timeout, of an exchange (PeerSync) and
\* sends to the descriptor of the record: to whoever has it now. The peer's state has
\* not been looked at. A send that fails changes nothing.
Multicast(w) ==
  /\ server.fd # 0 /\ sock[server.fd].end \in Ends
  /\ used.multicast < MaxMulticasts
  /\ Move(w, "idle", "sent") /\ ~exited
  /\ used' = [used EXCEPT !.multicast = @ + 1]
  /\ UNCHANGED <<sockets, lists, loop, queue, job, peerUp, exited>>

\* The message has been sent: the peer's state is set, to another one than disconnected.
MarkSent(w) ==
  /\ Move(w, "sent", "idle") /\ ~exited
  /\ server' = [server EXCEPT !.connected = TRUE]
  /\ strayed' = (strayed \/ sock[server.fd].end # Peer)
  /\ UNCHANGED <<sockets, connections, readSet, clientList, dropped, loop, queue, job, others>>

-----------------------------------------------------------------------------
(* recv() and the end of a connection *)

\* What the peer's end means to its record.
Unlink(f) == IF server.fd = f THEN [server EXCEPT !.connected = FALSE] ELSE server

\* Blocks until there is something to read. A closed descriptor is an error.
Recv(w) ==
  LET r == job[w].rec  s == sock[r.fd]
      next == CASE s.data = "quit" -> "close"
                [] s.data = "write" /\ ~server.connected -> "connect"
                [] OTHER -> "idle"
  IN
  /\ pc[w] = "recv" /\ ~exited
  /\ \/ /\ s = Free /\ Move(w, "recv", "idle") /\ Keep(w, NoJob)
        /\ UNCHANGED sock
     \/ /\ s.data # "none" /\ Move(w, "recv", next)
        /\ Keep(w, IF next = "idle" THEN NoJob ELSE job[w])
        /\ sock' = [sock EXCEPT ![r.fd].data = "none"]
     \/ /\ s.data = "none" /\ s.eof /\ Move(w, "recv", "close")
        /\ UNCHANGED <<sock, job>>
  /\ UNCHANGED <<backlog, lists, loop, queue, others>>

\* Faulty variant of Close: the descriptor is left open.
CloseNothing(w) ==
  /\ Move(w, "close", "clear") /\ ~exited
  /\ UNCHANGED <<sockets, lists, loop, queue, job, others>>

\* conn_del(): close() first, if the table has the descriptor.
Close(w) ==
  LET f == job[w].rec.fd IN
  /\ pc[w] = "close" /\ ~exited
  /\ IF f \in InTable
       THEN /\ Move(w, "close", "clear")
            /\ sock' = [sock EXCEPT ![f] = Free]
            /\ readSet' = [readSet EXCEPT !.fd = @ \ {f}]
       ELSE Move(w, "close", "unlist") /\ UNCHANGED <<sock, readSet>>
  /\ UNCHANGED <<backlog, connections, clientList, server, strayed, dropped, loop, queue, job,
                 others>>

Clear(w) ==
  /\ Move(w, "clear", "unlist") /\ ~exited
  /\ connections' = [i \in DOMAIN connections |->
                       IF connections[i] = job[w].rec.fd THEN 0 ELSE connections[i]]
  /\ UNCHANGED <<sockets, readSet, clientList, server, strayed, dropped, loop, queue, job, others>>

\* client_list_del(): the first place of r is taken out.
Without(r) ==
  LET S == {i \in DOMAIN clientList : clientList[i] = r}
  IN  IF S = {} THEN clientList ELSE RemoveAt(clientList, Min(S))

\* Faulty variant of Unlist: the peer's record keeps its state.
UnlistOnly(w) ==
  /\ Move(w, "unlist", "idle") /\ ~exited
  /\ clientList' = Without(job[w].rec)
  /\ Keep(w, NoJob)
  /\ UNCHANGED <<sockets, connections, readSet, server, strayed, dropped, loop, queue, others>>

\* The peer's state and client_list_del().
Unlist(w) ==
  /\ Move(w, "unlist", "idle") /\ ~exited
  /\ server' = IF job[w].rec.end = Peer THEN Unlink(job[w].rec.fd) ELSE server
  /\ clientList' = Without(job[w].rec)
  /\ Keep(w, NoJob)
  /\ UNCHANGED <<sockets, connections, readSet, strayed, dropped, loop, queue, others>>

-----------------------------------------------------------------------------
(* Specification *)

ConnThread == Select \/ PostAccept \/ PostRecv

Work(w) ==
  \/ Take(w) \/ Accept(w) \/ AcceptFails(w) \/ ConnAdd(w) \/ ListAdd(w)
  \/ Connect(w) \/ Link(w) \/ Multicast(w) \/ MarkSent(w)
  \/ Recv(w) \/ Close(w) \/ Clear(w) \/ Unlist(w)

Outside ==
  \/ \E c \in Clients : ClientConnects(c)
  \/ \E f \in FDs : ClientSends(f) \/ ClientLeaves(f)
  \/ PeerStops \/ PeerStarts

Next == ConnThread \/ Outside \/ \E w \in Workers : Work(w)

Spec == Init /\ [][Next]_vars

\* The threads are scheduled; clients and the peer do what they like.
FairSpec == Spec /\ WF_vars(ConnThread) /\ \A w \in Workers : WF_vars(Work(w))

-----------------------------------------------------------------------------
(* Properties *)

\* The type invariant.
TypeOK ==
  /\ backlog \in [Ports -> Seq(Clients)]
  /\ sock \in [FDs -> Sockets]
  /\ connections \in [1 .. MaxConn -> 0 .. NFd]
  /\ readSet \in [port : SUBSET Ports, fd : SUBSET FDs] /\ thread \in {"select", "check"}
  /\ entry \in 1 .. MaxConn
  /\ queue \in Seq(Events)
  /\ clientList \in Seq(Records)
  /\ pc \in [Workers -> Labels]
  /\ job \in [Workers -> Jobs]
  /\ \A w \in Workers : pc[w] \in {"idle", "accept", "sent"} \/ job[w].rec \in Records
  /\ server \in [connected : BOOLEAN, fd : 0 .. NFd]
  /\ peerUp \in BOOLEAN /\ exited \in BOOLEAN /\ strayed \in BOOLEAN
  /\ dropped \subseteq FDs

\* A worker receives from, and closes, the connection its record was made for,
\* and the record is still in the list: neither a copy of an event nor a
\* descriptor that was given out again leads it to another client's connection,
\* or to a deleted record.
RecordInUse == \A w \in Workers :
  /\ pc[w] \in {"recv", "close"} => sock[job[w].rec.fd].end = job[w].rec.end
  /\ pc[w] \in {"recv", "close", "clear", "unlist"} => job[w].rec \in Range(clientList)

\* Between two events every connection has one record, every record its
\* connection, and the table holds the connections that select() is to watch: all
\* but those for which conn_add() found it full.
RecordsAgree == (\A w \in Workers : pc[w] \in {"idle", "accept", "recv", "connect"}) =>
  LET open == {f \in FDs : sock[f].end \in Ends} IN
  /\ \A f \in open : Cardinality({i \in DOMAIN clientList : clientList[i].fd = f}) = 1
  /\ \A r \in Range(clientList) : sock[r.fd].end = r.end
  /\ InTable \subseteq open /\ open \ InTable \subseteq dropped

\* Between two events the peer's record is connected exactly when its descriptor
\* is a connection to the peer, the only one, until a message for the peer has gone
\* to the client that was given the descriptor of a lost connection: from then on
\* the record is connected, the peer is not, and no WRITE connects to it any more.
PeerLinked == (\A w \in Workers : pc[w] \in {"idle", "accept", "recv", "connect"}) =>
  /\ {f \in FDs : sock[f].end = Peer} =
       IF server.connected /\ ~strayed THEN {server.fd} ELSE {}
  /\ strayed => server.connected

Waits(c) == \E f \in FDs : sock[f].end = c /\ sock[f].data # "none"

\* In accept() with nobody waiting, or in recv() with nothing to read: the event
\* was a copy of one that another event, or the end of select(), came before.
Blocked(w) ==
  \/ pc[w] = "accept" /\ ~Waiting(job[w].port)
  \/ pc[w] = "recv" /\ sock[job[w].rec.fd] # Free /\ ~Readable(job[w].rec.fd)

\* What a client sends is received, unless copies of events block every worker,
\* the client's connection found the table full, or the process has ended.
Served == \A c \in Clients : Waits(c) ~>
  \/ ~Waits(c) \/ exited \/ \A w \in Workers : Blocked(w)
  \/ \E f \in dropped : sock[f].end = c

=============================================================================
