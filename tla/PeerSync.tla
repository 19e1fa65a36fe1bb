------------------------------ MODULE PeerSync ------------------------------
(***************************************************************************)
(* One bulletin-board server acting as synchronisation master for its N    *)
(* configured peers: the WRITE/REPLACE commands of user clients, the       *)
(* two-phase exchange with the peers, the master timer and the worker      *)
(* threads that handle all of it (msg.cpp, sync.cpp, event.cpp, list.cpp). *)
(*                                                                         *)
(* The master is modelled at the granularity of its worker threads: every  *)
(* access to a record that other workers can reach is a step of its own.   *)
(* A peer handles each received message in one step.                       *)
(***************************************************************************)
EXTENDS Integers, Sequences, FiniteSets

CONSTANTS
  N,          \* number of configured sync peers, syncServerList in list order
  NUsers,     \* number of connected user clients, clientList in list order
  Workers,    \* the worker threads of the pool (THMAX of them)
  Debug,      \* debugLevel >= DEBUG_LEVEL_D on the peers
  UserCmds,   \* bound: which of WRITE and REPLACE the users issue
  MaxRecv,    \* bound: messages one recv() of 1024 bytes can return at once
  MaxCmds,    \* bound: commands the users issue
  MaxCrashes, \* bound: times a peer goes down
  MaxTimeouts \* bound: times a timer expires, master's or peers'

ASSUME ConstantsOK ==
  /\ N \in Nat \ {0} /\ NUsers \in Nat \ {0}
  /\ Workers # {}
  /\ Debug \in BOOLEAN
  /\ UserCmds \subseteq {"WRITE", "REPLACE"}
  /\ MaxRecv \in Nat \ {0} /\ MaxCmds \in Nat \ {0}
  /\ MaxCrashes \in Nat /\ MaxTimeouts \in Nat

Peers   == 1..N
Users   == 1..NUsers
Master  == 0
Servers == 0..N

Cmds    == 1..MaxCmds        \* a command, standing for the text it carries
Nums    == 1..MaxCmds        \* message numbers
NoNum   == 0                 \* the empty message-number string
Garbled == MaxCmds + 1       \* a number string that includes the next message

VARIABLES
  srv,          \* syncServerCB.state of each peer
  masterState,  \* syncServerCB.masterState of the head of syncServerList
  masterTimer,  \* is timerid_master armed?
  queue,        \* the EV_SYNC_* events of clientEvQueue
  client,       \* slaveState, cmd, msgNumber and msg of each user's clientCB
  msgNumber,    \* the last message number handed out
  pc, job,      \* where each worker is, and its local variables
  conn,         \* the master's connection to each peer
  toPeer, toMaster,   \* bytes in flight, one sequence per direction
  up,           \* is the peer's process running?
  slave,        \* slaveState of the peer's clientCB for this master
  file,         \* the lines of each server's bbfile
  spilled,      \* history: the servers where a REPLACE was written over more
                \* than its line
  last,         \* history: the latest command of each user
  verdict,      \* history: the answers sent to the user of each command
  issued, crashes, timeouts   \* how much of the bounds is used

sharedVars == <<srv, masterState, masterTimer, queue>>
workerVars == <<pc, job>>
netVars    == <<conn, toPeer, toMaster>>
peerVars   == <<up, slave, crashes, timeouts>>
userVars   == <<client, msgNumber, last, verdict, issued>>
vars == <<sharedVars, workerVars, netVars, peerVars, userVars, file, spilled>>

-----------------------------------------------------------------------------
(* Types *)

ServerStates == {"DISCONNECT", "IDLE", "M_PRECOMMIT_MULTICASTED",
                 "M_PRECOMMITED", "M_COMMITED", "M_OPERATION_PERFORMED",
                 "M_OPERATION_UNSUCCESS"}
SlaveStates  == {"NULL", "IDLE", "S_PRECOMMIT_ACK", "S_COMMITED"}
UserStates   == {"IDLE", "U_WAITING_COMMIT", "U_WAITING_SAVE"}

Line == [num : 0..Garbled, text : Cmds \cup {0}]
EventTypes == {"PRECOMMIT_ACK", "PRECOMMIT_ERR", "COMMIT_SUCCESS",
               "COMMIT_UNSUCCESS", "TIMEOUT_MASTER"}
Event  == [type : EventTypes, num : 0..Garbled, unknown : BOOLEAN]
ToPeer == [kind : {"PRECOMMIT", "ABORT", "COMMIT WRITE", "COMMIT REPLACE",
                   "END SUCCESS", "END UNSUCCESS"},
           line : Line]
ToMaster == [kind : {"ACK", "SUCCESS", "UNSUCCESS", "UNKNOWN"},
             num : 0..Garbled]
Verdicts == {"WROTE", "ERROR", "UNKNOWN"}
Client == [state : UserStates, cmd : {"WRITE", "REPLACE"}, line : Line]

\* What the master's record of a peer names: no descriptor yet; a connection it is
\* about to name, an open one, one whose end was not read yet; and after that the
\* descriptor of the lost connection, until a message sent to it has reached
\* another client, who owns it by then.
Connections == {"none", "new", "open", "eof", "lost", "stray"}

Labels == {"idle", "connect", "link", "connected", "send", "mark", "check", "master",
           "note", "once", "post", "findCommit", "commit", "waitSave",
           "findAbort", "refuse", "findSave", "save", "reply",
           "findUndo", "undo", "clear"}

Job == [usr  : Users,              \* pClient, or the pClientUser found
        idx  : Peers,              \* the loop's position in syncServerList
        st   : ServerStates,       \* the state being set or checked for
        msg  : ToPeer,             \* the message being multicast
        ret  : Labels,             \* where the called function returns to
        num  : 0..Garbled,         \* pClientEv->msgNumber
        unknown : BOOLEAN,         \* pClientEv->response starts with 6.2
        ok   : BOOLEAN,            \* initState of init_sync_server_connection
        answer : Verdicts]         \* the response built for the user

NoLine == [num |-> NoNum, text |-> 0]

\* The local variables of a worker that handles no event.
Fresh == [usr |-> 1, idx |-> 1, st |-> "IDLE", ret |-> "idle", num |-> NoNum,
          msg |-> [kind |-> "PRECOMMIT", line |-> NoLine],
          unknown |-> FALSE, ok |-> TRUE, answer |-> "ERROR"]

\* The type invariant: states, messages, events, lines and the workers' local
\* variables are among those the code can produce.
TypeOK ==
  /\ srv \in [Peers -> ServerStates]
  /\ masterState \in ServerStates \cup {"NULL"}
  /\ masterTimer \in BOOLEAN
  /\ queue \in Seq(Event)
  /\ client \in [Users -> Client]
  /\ msgNumber \in 0..issued
  /\ pc \in [Workers -> Labels]
  /\ job \in [Workers -> Job]
  /\ conn \in [Peers -> Connections]
  /\ toPeer \in [Peers -> Seq(ToPeer)]
  /\ toMaster \in [Peers -> Seq(ToMaster)]
  /\ up \in [Peers -> BOOLEAN]
  /\ slave \in [Peers -> SlaveStates]
  /\ file \in [Servers -> Seq(Line)]
  /\ spilled \subseteq Servers
  /\ last \in [Users -> 0..MaxCmds]
  /\ verdict \in [Cmds -> Seq(Verdicts)]
  /\ issued \in 0..MaxCmds
  /\ crashes \in 0..MaxCrashes
  /\ timeouts \in 0..MaxTimeouts

Init ==
  /\ srv = [p \in Peers |-> "DISCONNECT"]
  /\ masterState = "NULL"
  /\ masterTimer = FALSE
  /\ queue = <<>>
  /\ client = [u \in Users |-> [state |-> "IDLE", cmd |-> "WRITE", line |-> NoLine]]
  /\ msgNumber = 0
  /\ pc = [w \in Workers |-> "idle"]
  /\ job = [w \in Workers |-> Fresh]
  /\ conn = [p \in Peers |-> "none"]
  /\ toPeer = [p \in Peers |-> <<>>]
  /\ toMaster = [p \in Peers |-> <<>>]
  /\ up = [p \in Peers |-> TRUE]
  /\ slave = [p \in Peers |-> "NULL"]
  /\ file = [s \in Servers |-> <<>>]
  /\ spilled = {}
  /\ last = [u \in Users |-> 0]
  /\ verdict = [c \in Cmds |-> <<>>]
  /\ issued = 0
  /\ crashes = 0
  /\ timeouts = 0

-----------------------------------------------------------------------------
(* Helpers *)

Msg(kind, line) == [kind |-> kind, line |-> line]

\* The line a message-number alone stands for.
Bare(num) == [num |-> num, text |-> 0]

\* A search that returns the first match: the set of it, or the empty set.
FirstOf(S) == {u \in S : \A v \in S : u <= v}

\* The users whose clientCB is in a state.
Waiting(st) == {u \in Users : client[u].state = st}

\* Worker w goes on at label l with local variables j.
Go(w, l, j) ==
  /\ pc' = [pc EXCEPT ![w] = l]
  /\ job' = [job EXCEPT ![w] = IF l = "idle" THEN Fresh ELSE j]

\* Faulty variant of Advance: the loop runs one peer too far.
AdvanceTooFar(w, loop, after) ==
  IF job[w].idx <= N
    THEN Go(w, loop, [job[w] EXCEPT !.idx = @ + 1])
    ELSE Go(w, after, [job[w] EXCEPT !.idx = 1])

\* A loop over syncServerList: the next peer, or the label after the loop.
Advance(w, loop, after) ==
  IF job[w].idx < N
    THEN Go(w, loop, [job[w] EXCEPT !.idx = @ + 1])
    ELSE Go(w, after, [job[w] EXCEPT !.idx = 1])

\* A sync_send_*() call: a message to every peer, marking each with state st.
Sending(j, msg, st, ret) ==
  [j EXCEPT !.msg = msg, !.st = st, !.idx = 1, !.ret = ret]

Multicast(w, msg, st, ret) == Go(w, "send", Sending(job[w], msg, st, ret))

Enqueue(type, num, unknown) ==
  queue' = Append(queue, [type |-> type, num |-> num, unknown |-> unknown])

\* send_response_to_client(): answers the user's latest command.
Answer(u, v) ==
  verdict' = IF last[u] = 0 THEN verdict
             ELSE [verdict EXCEPT ![last[u]] = Append(@, v)]

Pending(u) == last[u] # 0 /\ verdict[last[u]] = <<>>

\* The lines of a file with a number.
Found(f, num) == {i \in DOMAIN f : f[i].num = num}

\* save_msg_write() appends the line, save_msg_replace() overwrites the first
\* one with its number; opening the file may fail in both.
SaveResults(f, cmd, line) ==
  {[file |-> f, result |-> "ERROR"]} \cup
  IF cmd = "WRITE"
    THEN {[file |-> Append(f, line), result |-> "WROTE"]}
  ELSE IF Found(f, line.num) = {}
    THEN {[file |-> f, result |-> "UNKNOWN"]}
  ELSE {[file |-> [f EXCEPT ![i] = line], result |-> "WROTE"] :
           i \in FirstOf(Found(f, line.num))}

\* The files save_msg_replace() can leave when what it writes, lines, is more than
\* the line it replaces: what it runs over is lost, up to some line j, whose rest
\* joins the last of the new lines.
Overrun(f, lines) ==
  UNION {{SubSeq(f, 1, i - 1) \o lines \o SubSeq(f, j + 1, Len(f)) :
            j \in {l \in i..Len(f) : l > i \/ l = Len(f) \/ Len(lines) > 1}} :
         i \in FirstOf(Found(f, Head(lines).num))}

\* What a file may do after that: its last line may have lost its newline. The next
\* line then joins it, and a REPLACE that reaches it writes nothing.
Unended(f, cmd, lines) ==
  IF cmd = "WRITE" THEN {f \o Tail(lines)}
  ELSE IF Len(f) \in FirstOf(Found(f, Head(lines).num)) THEN {f} ELSE {}

\* The outcomes of a save at server s that are not those of SaveResults. All of
\* them are reported as a success.
Spills(s, cmd, lines) ==
  (IF cmd = "REPLACE" THEN Overrun(file[s], lines) ELSE {}) \cup
  (IF s \in spilled THEN Unended(file[s], cmd, lines) ELSE {})

-----------------------------------------------------------------------------
(* A user's command, handled by worker w up to the multicast of PRECOMMIT *)

\* WRITE and REPLACE: sync_save_client_cmd(), then on to connect the peers.
\* The user waits for the answer to the previous command before the next.
Submit(w, u, cmd, num) ==
  /\ pc[w] = "idle" /\ ~Pending(u)
  /\ issued < MaxCmds /\ cmd \in UserCmds
  /\ issued' = issued + 1
  /\ last' = [last EXCEPT ![u] = issued']
  /\ client' = [client EXCEPT ![u] =
                  [state |-> "U_WAITING_COMMIT", cmd |-> cmd,
                   line |-> [num |-> num, text |-> issued']]]
  /\ Go(w, "connect", [job[w] EXCEPT !.usr = u])
  /\ UNCHANGED <<sharedVars, netVars, peerVars, file, spilled, verdict>>

SubmitWrite(w, u) ==
  /\ msgNumber' = msgNumber + 1
  /\ Submit(w, u, "WRITE", msgNumber')

SubmitReplace(w, u, num) ==
  /\ Submit(w, u, "REPLACE", num)
  /\ UNCHANGED msgNumber

\* On to the next peer of init_sync_server_connection(), and its check at the end.
NextPeer(w, ok) ==
  IF job[w].idx < N
    THEN Go(w, "connect", [job[w] EXCEPT !.ok = ok, !.idx = @ + 1])
    ELSE Go(w, "check", [job[w] EXCEPT !.ok = ok, !.idx = 1, !.st = "IDLE",
                                       !.ret = "connected"])

Linking(w, p) == pc[w] = "link" /\ job[w].idx = p

\* One turn of its loop: the test of the state and sync_connect_to_server(). A
\* second connection to a peer at the same time is left out.
Connect(w) ==
  LET p == job[w].idx IN
  /\ pc[w] = "connect" /\ \A v \in Workers : ~Linking(v, p)
  /\ IF srv[p] = "DISCONNECT" /\ up[p]
       THEN /\ conn' = [conn EXCEPT ![p] = "new"]
            /\ toPeer' = [toPeer EXCEPT ![p] = <<>>]
            /\ toMaster' = [toMaster EXCEPT ![p] = <<>>]
            /\ slave' = [slave EXCEPT ![p] = "NULL"]
            /\ Go(w, "link", job[w])
       ELSE /\ NextPeer(w, job[w].ok /\ srv[p] # "DISCONNECT")
            /\ UNCHANGED <<netVars, slave>>
  /\ UNCHANGED <<sharedVars, up, crashes, timeouts, userVars, file, spilled>>

\* sync_server_list_set_fd() and sync_server_list_set_state(), whatever has become
\* of the connection since.
Link(w) ==
  LET p == job[w].idx IN
  /\ pc[w] = "link"
  /\ conn' = [conn EXCEPT ![p] = IF @ = "new" THEN "open" ELSE @]
  /\ srv' = [srv EXCEPT ![p] = "IDLE"]
  /\ NextPeer(w, job[w].ok)
  /\ UNCHANGED <<masterState, masterTimer, queue, toPeer, toMaster, peerVars, userVars, file,
                 spilled>>

\* Back in process_client_msg(): an error answer, or sync_send_precommit().
Connected(w) ==
  /\ pc[w] = "connected"
  /\ IF job[w].ok
       THEN /\ Multicast(w, Msg("PRECOMMIT", NoLine), "M_PRECOMMIT_MULTICASTED", "idle")
            /\ UNCHANGED verdict
       ELSE /\ Answer(job[w].usr, "ERROR")
            /\ Go(w, "idle", Fresh)
  /\ UNCHANGED <<sharedVars, netVars, peerVars, client, msgNumber, last, issued, file, spilled>>

-----------------------------------------------------------------------------
(* The sync_send_*() functions, sync_check_server_state() and
   sync_set_master_state(), shared by all callers *)

\* send() to one peer. -1 ends the function; a connection takes the message, also
\* one that the peer has closed; and a descriptor that is no longer the peer's may
\* be that of a user by now.
Send(w) ==
  LET p == job[w].idx IN
  /\ pc[w] = "send"
  /\ \/ /\ conn[p] \in {"none", "new", "lost", "stray"}
        /\ Go(w, job[w].ret, job[w])
        /\ UNCHANGED <<conn, toPeer>>
     \/ /\ conn[p] \in {"new", "open", "eof"}
        /\ Go(w, "mark", job[w])
        /\ toPeer' = IF conn[p] = "eof" THEN toPeer
                     ELSE [toPeer EXCEPT ![p] = Append(@, job[w].msg)]
        /\ UNCHANGED conn
     \/ /\ conn[p] \in {"new", "lost", "stray"}
        /\ Go(w, "mark", job[w])
        /\ conn' = IF conn[p] = "new" THEN conn ELSE [conn EXCEPT ![p] = "stray"]
        /\ UNCHANGED toPeer
  /\ UNCHANGED <<sharedVars, toMaster, peerVars, userVars, file, spilled>>

\* sync_server_list_set_state() of the peer the message was sent to.
Mark(w) ==
  /\ pc[w] = "mark"
  /\ srv' = [srv EXCEPT ![job[w].idx] = job[w].st]
  /\ Advance(w, "send", "check")
  /\ UNCHANGED <<masterState, masterTimer, queue, netVars, peerVars, userVars, file, spilled>>

\* Faulty variant of Check: one peer in the state is enough.
CheckFirst(w) ==
  /\ pc[w] = "check"
  /\ Go(w, IF srv[job[w].idx] = job[w].st THEN "master" ELSE job[w].ret, job[w])
  /\ UNCHANGED <<sharedVars, netVars, peerVars, userVars, file, spilled>>

\* One turn of the loop of sync_check_server_state().
Check(w) ==
  /\ pc[w] = "check"
  /\ IF srv[job[w].idx] = job[w].st
       THEN Advance(w, "check", "master")
       ELSE Go(w, job[w].ret, job[w])
  /\ UNCHANGED <<sharedVars, netVars, peerVars, userVars, file, spilled>>

\* States that a peer's reply leads to; their event follows.
ReplyStates == {"M_PRECOMMITED", "M_OPERATION_PERFORMED", "M_OPERATION_UNSUCCESS"}

\* sync_set_master_state(), starting or stopping the timer.
SetMaster(w) ==
  LET st == job[w].st IN
  /\ pc[w] = "master"
  /\ masterState' = st
  /\ masterTimer' = CASE st \in {"M_PRECOMMIT_MULTICASTED", "M_COMMITED"} -> TRUE
                      [] st \in ReplyStates -> FALSE
                      [] OTHER -> masterTimer
  /\ Go(w, IF st \in ReplyStates THEN "post" ELSE job[w].ret, job[w])
  /\ UNCHANGED <<srv, queue, netVars, peerVars, userVars, file, spilled>>

\* sync_send_event() of the event that belongs to the state reached, or in which
\* the timer has expired.
Post(w) ==
  LET st == job[w].st IN
  /\ pc[w] = "post"
  /\ Enqueue(CASE st = "M_PRECOMMITED" -> "PRECOMMIT_ACK"
               [] st = "M_PRECOMMIT_MULTICASTED" -> "PRECOMMIT_ERR"
               [] st = "M_OPERATION_PERFORMED" -> "COMMIT_SUCCESS"
               [] OTHER -> "COMMIT_UNSUCCESS", job[w].num, job[w].unknown)
  /\ Go(w, "idle", Fresh)
  /\ UNCHANGED <<srv, masterState, masterTimer, netVars, peerVars, userVars, file, spilled>>

-----------------------------------------------------------------------------
(* What arrives from a peer *)

\* Faulty variant of StateAfter: only 6.2 is told apart from 6.0.
LooseStateAfter(kind) == CASE kind = "ACK" -> "M_PRECOMMITED"
                           [] kind = "UNKNOWN" -> "M_OPERATION_UNSUCCESS"
                           [] OTHER -> "M_OPERATION_PERFORMED"

\* The state an answer puts its peer in.
StateAfter(kind) == CASE kind = "ACK" -> "M_PRECOMMITED"
                      [] kind = "SUCCESS" -> "M_OPERATION_PERFORMED"
                      [] OTHER -> "M_OPERATION_UNSUCCESS"

\* recv() of k messages; process_sync_master_msg() up to the state to set.
\* An acknowledgement must be all that was received, the other answers are
\* recognised by their prefix and take the rest of the buffer as number.
\* No server sends 5.1 ERROR PRECOMMIT, so there is no step for it.
RecvReply(w, p, k) ==
  LET m == Head(toMaster[p]) IN
  /\ pc[w] = "idle" /\ conn[p] \in {"new", "open", "eof"} /\ k <= Len(toMaster[p])
  /\ toMaster' = [toMaster EXCEPT ![p] = SubSeq(@, k + 1, Len(@))]
  /\ IF m.kind = "ACK" /\ k > 1
       THEN UNCHANGED workerVars
       ELSE Go(w, "note", [job[w] EXCEPT
              !.idx = p,
              !.st = StateAfter(m.kind),
              !.num = IF k > 1 THEN Garbled ELSE m.num,
              !.unknown = (m.kind = "UNKNOWN")])
  /\ UNCHANGED <<sharedVars, conn, toPeer, peerVars, userVars, file, spilled>>

\* sync_server_list_set_state() of the peer that answered.
Note(w) ==
  /\ pc[w] = "note"
  /\ srv' = [srv EXCEPT ![job[w].idx] = job[w].st]
  /\ Go(w, IF job[w].st = "M_OPERATION_UNSUCCESS" THEN "once" ELSE "check",
        [job[w] EXCEPT !.idx = 1])
  /\ UNCHANGED <<masterState, masterTimer, queue, netVars, peerVars, userVars, file, spilled>>

\* "send commit unsucess message, only once": read, then set by SetMaster.
Once(w) ==
  /\ pc[w] = "once"
  /\ Go(w, IF masterState # "M_OPERATION_UNSUCCESS" THEN "master" ELSE "idle", job[w])
  /\ UNCHANGED <<sharedVars, netVars, peerVars, userVars, file, spilled>>

\* Faulty variant of PeerClosed: the peer's record keeps its state.
PeerClosedUnnoticed(w, p) ==
  /\ pc[w] = "idle" /\ conn[p] = "eof" /\ toMaster[p] = <<>>
  /\ conn' = [conn EXCEPT ![p] = "lost"]
  /\ UNCHANGED <<sharedVars, workerVars, toPeer, toMaster, peerVars, userVars, file, spilled>>

\* recv() returned 0: the connection is dropped, and the peer is DISCONNECT if its
\* record is found by the descriptor; the record keeps the descriptor.
PeerClosed(w, p) ==
  /\ pc[w] = "idle" /\ conn[p] = "eof" /\ toMaster[p] = <<>>
  /\ conn' = [conn EXCEPT ![p] = "lost"]
  /\ \/ srv' = [srv EXCEPT ![p] = "DISCONNECT"]
     \/ (\E v \in Workers : Linking(v, p)) /\ UNCHANGED srv
  /\ UNCHANGED <<masterState, masterTimer, queue, workerVars, toPeer, toMaster,
                 peerVars, userVars, file, spilled>>

-----------------------------------------------------------------------------
(* Events *)

MasterTimerFires ==
  /\ masterTimer /\ timeouts < MaxTimeouts
  /\ masterTimer' = FALSE
  /\ timeouts' = timeouts + 1
  /\ Enqueue("TIMEOUT_MASTER", NoNum, FALSE)
  /\ UNCHANGED <<srv, masterState, workerVars, netVars, up, slave, crashes, userVars, file,
                 spilled>>

Handler(type) == CASE type = "PRECOMMIT_ACK" -> "findCommit"
                   [] type = "COMMIT_SUCCESS" -> "findSave"
                   [] OTHER -> "findUndo"

\* handle_client_event() for the events of the exchange itself. An expired timer
\* becomes the event that ends the phase the master is in.
TakeEvent(w) ==
  LET e == Head(queue) IN
  /\ pc[w] = "idle" /\ queue # <<>>
  /\ CASE e.type = "TIMEOUT_MASTER" ->
            /\ queue' = Tail(queue)
            /\ IF masterState \in {"M_PRECOMMIT_MULTICASTED", "M_COMMITED"}
                 THEN Go(w, "post", [job[w] EXCEPT !.st = masterState])
                 ELSE UNCHANGED workerVars
       [] e.type = "PRECOMMIT_ERR" ->
            /\ queue' = Tail(queue)
            /\ Multicast(w, Msg("ABORT", NoLine), "IDLE", "findAbort")
       [] OTHER ->
            /\ queue' = Tail(queue)
            /\ Go(w, Handler(e.type),
                  [job[w] EXCEPT !.num = e.num, !.unknown = e.unknown])
  /\ UNCHANGED <<srv, masterState, masterTimer, netVars, peerVars, userVars, file, spilled>>

\* The while loops of the event handlers: the first user found waiting is
\* handled next; without one the handler is done. Where its number must be the
\* event's and is not, the loop repeats the search: the worker is disabled until
\* the list changes.
Find(w, loop, st, found, nums) ==
  /\ pc[w] = loop
  /\ \/ Waiting(st) = {} /\ Go(w, "idle", Fresh)
     \/ \E u \in FirstOf(Waiting(st)) :
          /\ client[u].line.num \in nums
          /\ Go(w, found, [job[w] EXCEPT !.usr = u])
  /\ UNCHANGED <<sharedVars, netVars, peerVars, userVars, file, spilled>>

AnyNumber == 0..Garbled

FindCommit(w) == Find(w, "findCommit", "U_WAITING_COMMIT", "commit", AnyNumber)
FindAbort(w)  == Find(w, "findAbort", "U_WAITING_COMMIT", "refuse", AnyNumber)

\* Faulty variant of FindSave: the number of the event is not looked at.
FindSaveAny(w) == Find(w, "findSave", "U_WAITING_SAVE", "save", AnyNumber)

FindSave(w) == Find(w, "findSave", "U_WAITING_SAVE", "save", {job[w].num})
FindUndo(w) == Find(w, "findUndo", "U_WAITING_SAVE", "undo",
                    IF job[w].num = NoNum THEN AnyNumber ELSE {job[w].num})

\* PRECOMMIT_ACK: sync_send_commit() of the command found ...
Commit(w) ==
  LET c == client[job[w].usr] IN
  /\ pc[w] = "commit"
  /\ Multicast(w, Msg(IF c.cmd = "WRITE" THEN "COMMIT WRITE" ELSE "COMMIT REPLACE",
                      c.line), "M_COMMITED", "waitSave")
  /\ UNCHANGED <<sharedVars, netVars, peerVars, userVars, file, spilled>>

\* ... and only then the user waits for the result.
WaitSave(w) ==
  /\ pc[w] = "waitSave"
  /\ client' = [client EXCEPT ![job[w].usr].state = "U_WAITING_SAVE"]
  /\ Go(w, "findCommit", job[w])
  /\ UNCHANGED <<sharedVars, netVars, peerVars, msgNumber, last, verdict,
                 issued, file, spilled>>

\* PRECOMMIT_ERR, after the multicast of ABORT.
Refuse(w) ==
  /\ pc[w] = "refuse"
  /\ Answer(job[w].usr, "ERROR")
  /\ Go(w, "clear", [job[w] EXCEPT !.ret = "findAbort"])
  /\ UNCHANGED <<sharedVars, netVars, peerVars, client, msgNumber, last, issued, file, spilled>>

\* COMMIT_SUCCESS: the master's own save decides the answer and the END.
Saved(w, f, result) ==
  /\ file' = [file EXCEPT ![Master] = f]
  /\ Go(w, "send",
        Sending([job[w] EXCEPT !.answer = result],
                Msg(IF result = "WROTE" THEN "END SUCCESS" ELSE "END UNSUCCESS",
                    Bare(job[w].num)), "IDLE", "reply"))
  /\ UNCHANGED <<sharedVars, netVars, peerVars, userVars>>

Save(w) ==
  LET c == client[job[w].usr] IN
  /\ pc[w] = "save"
  /\ \E r \in SaveResults(file[Master], c.cmd, c.line) : Saved(w, r.file, r.result)
  /\ UNCHANGED spilled

SaveSpills(w) ==
  LET c == client[job[w].usr] IN
  /\ pc[w] = "save"
  /\ \E f \in Spills(Master, c.cmd, <<c.line>>) : Saved(w, f, "WROTE")
  /\ spilled' = spilled \cup {Master}

Reply(w) ==
  /\ pc[w] = "reply"
  /\ Answer(job[w].usr, job[w].answer)
  /\ Go(w, "clear", [job[w] EXCEPT !.ret = "findSave"])
  /\ UNCHANGED <<sharedVars, netVars, peerVars, client, msgNumber, last, issued, file, spilled>>

\* COMMIT_UNSUCCESS: the answer, then the record, then END to the peers.
Undo(w) ==
  /\ pc[w] = "undo"
  /\ Answer(job[w].usr, IF client[job[w].usr].cmd = "REPLACE" /\ job[w].unknown
                          THEN "UNKNOWN" ELSE "ERROR")
  /\ Go(w, "clear", [job[w] EXCEPT !.ret = "findUndo"])
  /\ UNCHANGED <<sharedVars, netVars, peerVars, client, msgNumber, last, issued, file, spilled>>

\* Faulty variant of Clear: the record is not found, and stays as it is.
ClearNothing(w) ==
  /\ pc[w] = "clear"
  /\ IF job[w].ret = "findUndo"
       THEN Multicast(w, Msg("END UNSUCCESS", Bare(job[w].num)), "IDLE", "findUndo")
       ELSE Go(w, job[w].ret, job[w])
  /\ UNCHANGED <<sharedVars, netVars, peerVars, userVars, file, spilled>>

\* sync_clear_client_cmd(), and what the handler does after it.
Clear(w) ==
  /\ pc[w] = "clear"
  /\ client' = [client EXCEPT ![job[w].usr].state = "IDLE",
                              ![job[w].usr].line = NoLine]
  /\ IF job[w].ret = "findUndo"
       THEN Multicast(w, Msg("END UNSUCCESS", Bare(job[w].num)), "IDLE", "findUndo")
       ELSE Go(w, job[w].ret, job[w])
  /\ UNCHANGED <<sharedVars, netVars, peerVars, msgNumber, last, verdict, issued, file, spilled>>

-----------------------------------------------------------------------------
(* A peer as synchronisation slave *)

\* The line after a COMMIT that was received together with it: no number.
Junk == Bare(Garbled)

Tell(p, kind, num) ==
  toMaster' = [toMaster EXCEPT ![p] = Append(@, [kind |-> kind, num |-> num])]

\* The process ends: its connection is at eof for the master, which still
\* reads some of what was under way.
Dies(p) ==
  /\ up' = [up EXCEPT ![p] = FALSE]
  /\ slave' = [slave EXCEPT ![p] = "NULL"]
  /\ conn' = [conn EXCEPT ![p] = IF @ \in {"new", "open"} THEN "eof" ELSE @]
  /\ toPeer' = [toPeer EXCEPT ![p] = <<>>]
  /\ \E k \in 0..Len(toMaster[p]) :
       toMaster' = [toMaster EXCEPT ![p] = SubSeq(@, 1, k)]

\* recv() of k messages takes them off the connection.
Received(p, k) == toPeer' = [toPeer EXCEPT ![p] = SubSeq(@, k + 1, Len(@))]

MayRecv(p, k) == up[p] /\ conn[p] \in {"new", "open"} /\ k <= Len(toPeer[p])

\* PRECOMMIT and ABORT must be all that was received, or are not recognised.
PeerPrecommit(p, k) ==
  LET kind == Head(toPeer[p]).kind IN
  /\ MayRecv(p, k) /\ kind \in {"PRECOMMIT", "ABORT"}
  /\ Received(p, k)
  /\ IF k > 1 THEN UNCHANGED <<slave, toMaster>>
     ELSE IF kind = "ABORT"
       THEN slave' = [slave EXCEPT ![p] = "IDLE"] /\ UNCHANGED toMaster
       ELSE slave' = [slave EXCEPT ![p] = "S_PRECOMMIT_ACK"] /\ Tell(p, "ACK", NoNum)
  /\ UNCHANGED <<sharedVars, workerVars, conn, up, crashes, timeouts, userVars, file, spilled>>

\* The state is only enforced inside the debug output.
Refuses(p) == Debug /\ slave[p] # "S_PRECOMMIT_ACK"

\* Faulty variant of AnswerTo: a file that cannot be opened is not noticed.
CarelessAnswerTo(result) == IF result = "UNKNOWN" THEN "UNKNOWN" ELSE "SUCCESS"

\* The answer to a COMMIT, by the result of the save.
AnswerTo(result) == CASE result = "WROTE" -> "SUCCESS"
                      [] result = "ERROR" -> "UNSUCCESS"
                      [] OTHER -> "UNKNOWN"

CmdOf(m) == IF m.kind = "COMMIT WRITE" THEN "WRITE" ELSE "REPLACE"

\* What is received behind the first message becomes part of what is saved.
Rest(k) == [i \in 1..(k - 1) |-> Junk]

Committed(p, k, f, result) ==
  /\ Received(p, k)
  /\ slave' = [slave EXCEPT ![p] = "S_COMMITED"]
  /\ file' = [file EXCEPT ![p] = f]
  /\ Tell(p, AnswerTo(result), Head(toPeer[p]).line.num)
  /\ UNCHANGED <<conn, up>>

\* COMMIT: save and report. An empty number ends the process in stoi().
PeerCommit(p, k) ==
  LET m == Head(toPeer[p])
      cmd == CmdOf(m)
  IN
  /\ MayRecv(p, k) /\ m.kind \in {"COMMIT WRITE", "COMMIT REPLACE"}
  /\ ~Refuses(p)
  /\ IF cmd = "WRITE" /\ m.line.num = NoNum
       THEN Dies(p) /\ UNCHANGED file
       ELSE \E r \in SaveResults(file[p], cmd, m.line) :
              /\ r.result = "WROTE" => cmd = "WRITE" \/ k = 1
              /\ Committed(p, k, r.file \o (IF r.result = "WROTE" THEN Rest(k) ELSE <<>>),
                           r.result)
  /\ UNCHANGED <<sharedVars, workerVars, crashes, timeouts, userVars, spilled>>

\* A REPLACE that is longer than its line, or came together with the next message.
PeerCommitSpills(p, k) ==
  LET m == Head(toPeer[p]) IN
  /\ MayRecv(p, k) /\ m.kind \in {"COMMIT WRITE", "COMMIT REPLACE"}
  /\ ~Refuses(p) /\ m.line.num # NoNum
  /\ \E f \in Spills(p, CmdOf(m), <<m.line>> \o Rest(k)) : Committed(p, k, f, "WROTE")
  /\ spilled' = spilled \cup {p}
  /\ UNCHANGED <<sharedVars, workerVars, crashes, timeouts, userVars>>

PeerRefuses(p, k) ==
  /\ MayRecv(p, k) /\ Head(toPeer[p]).kind \in {"COMMIT WRITE", "COMMIT REPLACE"}
  /\ Refuses(p)
  /\ Received(p, k)
  /\ UNCHANGED <<sharedVars, workerVars, conn, toMaster, peerVars, userVars, file, spilled>>

\* END SUCCESS and END UNSUCCESS alike: nothing is undone.
PeerEnd(p, k) ==
  /\ MayRecv(p, k) /\ Head(toPeer[p]).kind \in {"END SUCCESS", "END UNSUCCESS"}
  /\ Received(p, k)
  /\ slave' = [slave EXCEPT ![p] = "IDLE"]
  /\ UNCHANGED <<sharedVars, workerVars, conn, toMaster, up, crashes, timeouts, userVars, file,
                 spilled>>

\* The slave timer: every connection waiting for COMMIT is reset.
SlaveTimeout(p) ==
  /\ slave[p] = "S_PRECOMMIT_ACK" /\ timeouts < MaxTimeouts
  /\ timeouts' = timeouts + 1
  /\ slave' = [slave EXCEPT ![p] = "IDLE"]
  /\ UNCHANGED <<sharedVars, workerVars, netVars, up, crashes, userVars, file, spilled>>

PeerCrash(p) ==
  /\ up[p] /\ crashes < MaxCrashes
  /\ crashes' = crashes + 1
  /\ Dies(p)
  /\ UNCHANGED <<sharedVars, workerVars, timeouts, userVars, file, spilled>>

PeerStart(p) ==
  /\ ~up[p]
  /\ up' = [up EXCEPT ![p] = TRUE]
  /\ UNCHANGED <<sharedVars, workerVars, netVars, slave, crashes, timeouts, userVars, file,
                 spilled>>

-----------------------------------------------------------------------------
(* Specification *)

Step(w) ==
  \/ Connect(w) \/ Link(w) \/ Connected(w)
  \/ Send(w) \/ Mark(w) \/ Check(w) \/ SetMaster(w) \/ Post(w)
  \/ Note(w) \/ Once(w)
  \/ TakeEvent(w)
  \/ FindCommit(w) \/ Commit(w) \/ WaitSave(w)
  \/ FindAbort(w) \/ Refuse(w)
  \/ FindSave(w) \/ Save(w) \/ Reply(w)
  \/ FindUndo(w) \/ Undo(w) \/ Clear(w)

Receive(w) == \E p \in Peers :
  \/ \E k \in 1..MaxRecv : RecvReply(w, p, k)
  \/ PeerClosed(w, p)

Command(w) == \E u \in Users :
  \/ SubmitWrite(w, u)
  \/ \E num \in Nums : SubmitReplace(w, u, num)

PeerRecv(p) == \E k \in 1..MaxRecv :
  PeerPrecommit(p, k) \/ PeerCommit(p, k) \/ PeerRefuses(p, k) \/ PeerEnd(p, k)

\* Every step but a save that spills.
Exchange ==
  \/ \E w \in Workers : Step(w) \/ Receive(w) \/ Command(w)
  \/ MasterTimerFires
  \/ \E p \in Peers : PeerRecv(p) \/ SlaveTimeout(p) \/ PeerCrash(p) \/ PeerStart(p)

Spilling ==
  \/ \E w \in Workers : SaveSpills(w)
  \/ \E p \in Peers, k \in 1..MaxRecv : PeerCommitSpills(p, k)

Next == Exchange \/ Spilling

Spec == Init /\ [][Next]_vars

\* Threads run, running peers read what was sent, an armed timer expires. Users
\* and crashes are not forced, nor is a peer started again.
FairSpec ==
  /\ Spec
  /\ \A w \in Workers : WF_vars(Step(w) \/ Receive(w))
  /\ WF_vars(MasterTimerFires)
  /\ \A p \in Peers : WF_vars(PeerRecv(p))

-----------------------------------------------------------------------------
(* Properties *)

Holds(s, num) == Found(file[s], num) # {}
Stored(f, c) == \E i \in DOMAIN f : f[i].text = c
Answered(c, v) == \E i \in DOMAIN verdict[c] : verdict[c][i] = v

\* No REPLACE has run over other lines, which loses them without a word (msg.cpp:
\* save_msg_replace() compares no lengths). What this spoils is excepted below.
Unspilled == spilled = {}

\* As long as some peer's file is empty nothing is stored by the master nor
\* reported to a user as written: whatever the workers' interleaving, the first
\* message reaches every peer's bbfile before the master's
\* (process_sync_master_msg(), proc_sync_ev_commit_success()). No spill empties a file.
PeersFirst ==
  file[Master] # <<>> \/ (\E c \in Cmds : Answered(c, "WROTE"))
    => \A p \in Peers : file[p] # <<>>

\* A success event, with a number that was sent, is backed by a peer that has
\* stored that very number, however stale the other peers' states are
\* (msg.cpp: the event carries the number of the last answer), until a REPLACE
\* has run over other lines.
SuccessEventBacked == Unspilled =>
  \A i \in DOMAIN queue :
    queue[i].type = "COMMIT_SUCCESS" /\ queue[i].num \in Nums
      => \E p \in Peers : Holds(p, queue[i].num)

\* No message is stored by the master alone: a number in its file is in some
\* peer's file (the number test of proc_sync_ev_commit_success()), until a REPLACE
\* has run over other lines.
NeverAlone == Unspilled => \A num \in Nums :
  Holds(Master, num) => \E p \in Peers : Holds(p, num)

\* README: a written message "is written in bbfile on all master and slaves":
\* a number in the master's file is in every peer's file, as long as every REPLACE
\* kept to its line.
WrittenEverywhere == Unspilled => \A num \in Nums :
  Holds(Master, num) => \A p \in Peers : Holds(p, num)

\* With one user and one worker: if every command so far was answered
\* "3.0 WROTE", once, the peers' files are line by line the master's. No late
\* answer, timeout or merged message makes a success out of different contents
\* (the END of msg.cpp's exchange), but for a REPLACE that runs over other lines.
FilesAgree ==
  Unspilled /\ (\A c \in 1..issued : verdict[c] = <<"WROTE">>)
    => \A p \in Peers : file[p] = file[Master]

\* No server stores two lines with one number: a command is multicast once,
\* and saved once, however often its user's record is found waiting; and what a
\* REPLACE runs over, or a merged COMMIT leaves behind, shows no number a second time.
NoDuplicateLine == \A s \in Servers, num \in Nums :
  Cardinality(Found(file[s], num)) <= 1

\* A command is answered at most once: the success, failure and timeout
\* handlers never both find it (proc_sync_ev_commit_unsuccess()). Only once a
\* peer has gone down may another answer follow, and only one, behind an error:
\* process_client_msg() leaves the command it refuses in the user's record, where
\* the next exchange finds it.
AnsweredOnce == \A c \in Cmds :
  \/ Len(verdict[c]) <= 1
  \/ crashes > 0 /\ Len(verdict[c]) = 2 /\ verdict[c][1] = "ERROR"

\* A peer that is not connected is known to be disconnected: otherwise
\* init_sync_server_connection() would never connect to it again. This ends when a
\* message for the lost peer has reached a user that was given its descriptor:
\* sync_send_abort() and the like then set a state for a peer that is gone.
NoZombiePeer == \A p \in Peers : conn[p] \in {"none", "lost"} => srv[p] = "DISCONNECT"

-----------------------------------------------------------------------------
(* The abstract board *)

\* What a file holds, without the lines whose number is another message's start.
Messages(f) == {f[i] : i \in {j \in DOMAIN f : f[j].num \in Nums}}

\* The master has saved the command of a user and has not answered yet.
Decided(w) ==
  \/ pc[w] = "reply"
  \/ pc[w] \in {"send", "mark", "check", "master"} /\ job[w].ret = "reply"

Deciding(c) == {w \in Workers : Decided(w) /\ last[job[w].usr] = c}

\* The answers to a command, with the one the master's save has decided on.
Told(c) == IF Deciding(c) = {} THEN verdict[c]
           ELSE Append(verdict[c], job[CHOOSE w \in Deciding(c) : TRUE].answer)

Replica == INSTANCE ReplicatedBoard WITH
  Commands <- Cmds, Failures <- Verdicts \ {"WROTE"},
  given <- msgNumber,
  board <- [s \in Servers |-> Messages(file[s])],
  told <- [c \in Cmds |-> Told(c)],
  intact <- Unspilled

\* With one worker thread the exchange implements the replicated board: late
\* answers, merged messages, timeouts and peers that go down lead to no number
\* stored twice or by the master alone, no text under a wrong number, and no
\* "3.0 WROTE" without the master's own save, until a REPLACE runs over other lines.
BoardReplicated == Replica!Spec

-----------------------------------------------------------------------------
(* What the documents say and the code does not keep *)

\* README: the client of a WRITE receives "3.0 WROTE" or, if an error occurs
\* in either phase, "3.2 ERROR WRITE".
WriteAnswered == \A u \in Users : Pending(u) ~> ~Pending(u)

=============================================================================
