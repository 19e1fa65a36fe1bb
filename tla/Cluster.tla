------------------------------- MODULE Cluster -------------------------------
(***************************************************************************)
(* Servers that are each other's peers: every one of them is the master of *)
(* its users' commands and the slave of all others at the same time. What  *)
(* concurrent masters do to the message numbers, to the files and to the   *)
(* timer that all masters of a slave share (msg.cpp, event.cpp, list.cpp,  *)
(* config.cpp).                                                            *)
(*                                                                         *)
(* A server has one worker, so a handler is one step: between two of them  *)
(* only messages travel and timers expire. Each server has one user at a   *)
(* time, who waits for an answer or leaves. Several workers, several       *)
(* users, lost peers and messages that one recv() returns together are in  *)
(* PeerSync.                                                               *)
(***************************************************************************)
EXTENDS Integers, Sequences, FiniteSets, SequencesExt, FiniteSetsExt

CONSTANTS
  Servers,
  Earlier,    \* messages that every server has at first
  Fragile,    \* the servers whose bbfile cannot be opened at times
  Debug,      \* the servers with debugLevel >= DEBUG_LEVEL_D
  IntMax,     \* INT_MAX, at which a counter returns to 1
  Kinds,      \* bound: which of WRITE and REPLACE the users issue
  MaxCmds,    \* bound: commands they issue
  MaxShared,  \* bound: commands they issue if not all of them are of one server's users
  MaxBreaks   \* bound: timers that expire, and users that leave before their answer

ASSUME ClusterConstantsOK ==
  /\ Earlier \in Nat /\ Debug \subseteq Servers /\ Fragile \subseteq Servers
  /\ Kinds \subseteq {"WRITE", "REPLACE"}
  /\ {MaxCmds, MaxShared, MaxBreaks} \subseteq Nat

\* The commands do not bring a counter to INT_MAX (MessageStore's do).
ASSUME IntMaxOK == IntMax \in Nat /\ Earlier + MaxCmds < IntMax

VARIABLES
  msgNumber,  \* each server's counter
  file,       \* each server's bbfile
  user,       \* the record of each server's user
  master,     \* syncServerList of each server, masterState and the master timer
  slave,      \* slaveState of each master's record
  slaveTimer, \* is timerid_slave armed?
  queue,      \* clientEvQueue, without what recv() finds on the connections
  toSlave, toMaster,  \* messages under way, by master and slave
  spins,      \* has the worker entered a loop it does not leave?
  log,        \* history: the commands, in the order they were issued
  crowded,    \* history: has an exchange begun before all others were over?
  breaks      \* how much of the bound is used

vars == <<msgNumber, file, user, master, slave, slaveTimer, queue, toSlave, toMaster,
          spins, log, crowded, breaks>>

Others(s) == Servers \ {s}
Pairs     == {p \in Servers \X Servers : p[1] # p[2]}
NoNum     == 0
Nums      == 1 .. Earlier + MaxCmds
NoLine    == [num |-> NoNum, text |-> 0]
NoCmd     == [state |-> "IDLE", kind |-> "WRITE", line |-> NoLine]

Event(type, num, unknown) == [type |-> type, num |-> num, unknown |-> unknown]

Init ==
  /\ msgNumber = [s \in Servers |-> Earlier]
  /\ file = [s \in Servers |-> [n \in 1 .. Earlier |-> [num |-> n, text |-> 0]]]
  /\ user = [s \in Servers |-> NoCmd]
  /\ master = [s \in Servers |-> [srv |-> [p \in Others(s) |-> "IDLE"],
                                  state |-> "IDLE", timer |-> FALSE]]
  /\ slave = [s \in Servers |-> [m \in Others(s) |-> "NULL"]]
  /\ slaveTimer = [s \in Servers |-> FALSE]
  /\ queue = [s \in Servers |-> <<>>]
  /\ toSlave = [p \in Pairs |-> <<>>] /\ toMaster = [p \in Pairs |-> <<>>]
  /\ spins = [s \in Servers |-> FALSE]
  /\ log = <<>> /\ crowded = FALSE /\ breaks = 0

masterVars == <<user, master, log>>
slaveVars  == <<slave, slaveTimer>>

-----------------------------------------------------------------------------
(* Helpers *)

Found(f, num) == {i \in DOMAIN f : f[i].num = num}

\* save_msg_write() and save_msg_replace(), as in PeerSync.
SaveResults(s, kind, line) ==
  LET f == file[s] IN
  {[file |-> f, result |-> "ERROR"] : t \in Fragile \cap {s}} \cup
  IF kind = "WRITE"
    THEN {[file |-> Append(f, line), result |-> "WROTE"]}
  ELSE IF Found(f, line.num) = {}
    THEN {[file |-> f, result |-> "UNKNOWN"]}
  ELSE {[file |-> [f EXCEPT ![Min(Found(f, line.num))] = line], result |-> "WROTE"]}

\* A multicast to all peers, which all arrive.
Sent(s, kind, line) ==
  [p \in Pairs |-> IF p[1] = s THEN Append(toSlave[p], [kind |-> kind, line |-> line])
                   ELSE toSlave[p]]

Multicast(s, kind, line) == toSlave' = Sent(s, kind, line)

\* Every peer's state and masterState, with the timer they start or leave alone.
AllAt(m, st) ==
  [srv |-> [p \in DOMAIN m.srv |-> st], state |-> st,
   timer |-> st \in {"M_PRECOMMIT_MULTICASTED", "M_COMMITED"} \/ m.timer]

\* The answer to the user of a command.
Answer(s, v) ==
  log' = [c \in DOMAIN log |-> IF log[c].by = s /\ log[c].answer = "none"
                               THEN [log[c] EXCEPT !.answer = v] ELSE log[c]]

Quiet ==
  /\ \A p \in Pairs : toSlave[p] = <<>> /\ toMaster[p] = <<>>
  /\ \A s \in Servers : queue[s] = <<>> /\ user[s].state = "IDLE"

-----------------------------------------------------------------------------
(* A user's command *)

InBounds(s) ==
  /\ Len(log) < MaxCmds
  /\ Len(log) < MaxShared \/ \A c \in DOMAIN log : log[c].by = s

Command(s, kind, num) ==
  /\ user[s].state = "IDLE" /\ ~spins[s] /\ InBounds(s)
  /\ user' = [user EXCEPT ![s] = [state |-> "U_WAITING_COMMIT", kind |-> kind,
                                  line |-> [num |-> num, text |-> Len(log) + 1]]]
  /\ log' = Append(log, [by |-> s, kind |-> kind, num |-> num, answer |-> "none",
                         committed |-> FALSE, saved |-> {}])
  /\ crowded' = (crowded \/ ~Quiet)
  /\ Multicast(s, "PRECOMMIT", NoLine)
  /\ master' = [master EXCEPT ![s] = AllAt(@, "M_PRECOMMIT_MULTICASTED")]
  /\ UNCHANGED <<file, slaveVars, queue, toMaster, spins, breaks>>

\* alloc_new_msg_number() and update_msg_number() return to 1.
Wrapped(number) == IF number = IntMax THEN 1 ELSE number

Write(s) ==
  /\ "WRITE" \in Kinds
  /\ msgNumber' = [msgNumber EXCEPT ![s] = Wrapped(@ + 1)]
  /\ Command(s, "WRITE", msgNumber'[s])

Replace(s, num) ==
  /\ "REPLACE" \in Kinds
  /\ Command(s, "REPLACE", num)
  /\ UNCHANGED msgNumber

\* The user disconnects, and the record with the command is deleted.
Leave(s) ==
  /\ user[s].state # "IDLE" /\ ~spins[s]
  /\ breaks < MaxBreaks /\ breaks' = breaks + 1
  /\ user' = [user EXCEPT ![s] = NoCmd]
  /\ Answer(s, "gone")
  /\ UNCHANGED <<msgNumber, file, master, slaveVars, queue, toSlave, toMaster, spins,
                 crowded>>

-----------------------------------------------------------------------------
(* A slave's side *)

Tell(m, s, kind, num) ==
  toMaster' = [toMaster EXCEPT ![<<m, s>>] = Append(@, [kind |-> kind, num |-> num])]

Arrives(m, s, kinds) ==
  /\ <<m, s>> \in Pairs /\ ~spins[s]
  /\ toSlave[<<m, s>>] # <<>> /\ Head(toSlave[<<m, s>>]).kind \in kinds
  /\ toSlave' = [toSlave EXCEPT ![<<m, s>>] = Tail(@)]

Becomes(m, s, st) == slave' = [slave EXCEPT ![s][m] = st]

Precommit(m, s) ==
  /\ Arrives(m, s, {"PRECOMMIT"})
  /\ Becomes(m, s, "S_PRECOMMIT_ACK")
  /\ slaveTimer' = [slaveTimer EXCEPT ![s] = TRUE]
  /\ Tell(m, s, "ACK", NoNum)
  /\ UNCHANGED <<msgNumber, file, masterVars, queue, spins, crowded, breaks>>

\* Faulty variant of AbortOrEnd: END only ends what COMMIT began, ABORT nothing.
AbortIgnored(m, s) ==
  /\ Arrives(m, s, {"ABORT", "END"})
  /\ IF Head(toSlave[<<m, s>>]).kind = "END" THEN Becomes(m, s, "IDLE")
     ELSE UNCHANGED slave
  /\ UNCHANGED <<msgNumber, file, masterVars, slaveTimer, queue, toMaster, spins,
                 crowded, breaks>>

AbortOrEnd(m, s) ==
  /\ Arrives(m, s, {"ABORT", "END"})
  /\ Becomes(m, s, "IDLE")
  /\ UNCHANGED <<msgNumber, file, masterVars, slaveTimer, queue, toMaster, spins,
                 crowded, breaks>>

Refuses(m, s) == s \in Debug /\ slave[s][m] # "S_PRECOMMIT_ACK"

CommitRefused(m, s) ==
  /\ Arrives(m, s, {"COMMIT"}) /\ Refuses(m, s)
  /\ UNCHANGED <<msgNumber, file, masterVars, slaveVars, queue, toMaster, spins,
                 crowded, breaks>>

SavedBy(s, c) == log' = [log EXCEPT ![c].saved = @ \cup {s}]

\* Faulty variants of Updated: update_msg_number() is not called, or counts on.
NotUpdated(number, kind, num) == number

UpdatedPast(number, kind, num) == IF kind = "WRITE" THEN Wrapped(num + 1) ELSE number

\* update_msg_number(), also backwards.
Updated(number, kind, num) == IF kind = "WRITE" THEN Wrapped(num) ELSE number

\* COMMIT: the timer stops for every master, the counter takes the number of a
\* WRITE, and only then the file is opened.
Commit(m, s) ==
  LET line == Head(toSlave[<<m, s>>]).line
      kind == log[line.text].kind
  IN
  /\ Arrives(m, s, {"COMMIT"}) /\ ~Refuses(m, s)
  /\ Becomes(m, s, "S_COMMITED")
  /\ slaveTimer' = [slaveTimer EXCEPT ![s] = FALSE]
  /\ msgNumber' = [msgNumber EXCEPT ![s] = Updated(@, kind, line.num)]
  /\ \E r \in SaveResults(s, kind, line) :
       /\ file' = [file EXCEPT ![s] = r.file]
       /\ IF r.result = "WROTE" THEN SavedBy(s, line.text) ELSE UNCHANGED log
       /\ Tell(m, s, CASE r.result = "WROTE" -> "SUCCESS"
                       [] r.result = "ERROR" -> "UNSUCCESS"
                       [] OTHER -> "UNKNOWN", line.num)
  /\ UNCHANGED <<user, master, queue, spins, crowded, breaks>>

-----------------------------------------------------------------------------
(* The master's side *)

\* Faulty variant of Reached: the first peer that answers is enough.
ReachedByOne(s, srv, st) == master[s].state # st

\* All peers have answered alike, or this is the first failure.
Reached(s, srv, st) ==
  IF st = "M_OPERATION_UNSUCCESS" THEN master[s].state # st
  ELSE \A q \in Others(s) : srv[q] = st

\* An answer: the peer's state, and the event that may follow.
Reply(s, p) ==
  LET m == Head(toMaster[<<s, p>>])
      st == CASE m.kind = "ACK" -> "M_PRECOMMITED"
              [] m.kind = "SUCCESS" -> "M_OPERATION_PERFORMED"
              [] OTHER -> "M_OPERATION_UNSUCCESS"
      srv == [master[s].srv EXCEPT ![p] = st]
      event == CASE m.kind = "ACK" -> "PRECOMMIT_ACK"
                 [] m.kind = "SUCCESS" -> "COMMIT_SUCCESS"
                 [] OTHER -> "COMMIT_UNSUCCESS"
  IN
  /\ <<s, p>> \in Pairs /\ ~spins[s] /\ toMaster[<<s, p>>] # <<>>
  /\ toMaster' = [toMaster EXCEPT ![<<s, p>>] = Tail(@)]
  /\ IF Reached(s, srv, st)
       THEN /\ master' = [master EXCEPT ![s] = [srv |-> srv, state |-> st, timer |-> FALSE]]
            /\ queue' = [queue EXCEPT ![s] = Append(@, Event(event, m.num, m.kind = "UNKNOWN"))]
       ELSE /\ master' = [master EXCEPT ![s].srv = srv]
            /\ UNCHANGED queue
  /\ UNCHANGED <<msgNumber, file, user, slaveVars, toSlave, spins, log, crowded, breaks>>

Takes(s, type) ==
  /\ ~spins[s] /\ queue[s] # <<>> /\ Head(queue[s]).type = type
  /\ queue' = [queue EXCEPT ![s] = Tail(@)]

\* Faulty variant of AllAcknowledged: the user's record does not take note.
AllAcknowledgedUnmarked(s) ==
  /\ Takes(s, "PRECOMMIT_ACK")
  /\ IF user[s].state = "U_WAITING_COMMIT"
       THEN /\ Multicast(s, "COMMIT", user[s].line)
            /\ master' = [master EXCEPT ![s] = AllAt(@, "M_COMMITED")]
       ELSE UNCHANGED <<toSlave, master>>
  /\ UNCHANGED <<msgNumber, file, user, slaveVars, toMaster, spins, log, crowded, breaks>>

AllAcknowledged(s) ==
  LET line == user[s].line IN
  /\ Takes(s, "PRECOMMIT_ACK")
  /\ IF user[s].state = "U_WAITING_COMMIT"
       THEN /\ Multicast(s, "COMMIT", line)
            /\ master' = [master EXCEPT ![s] = AllAt(@, "M_COMMITED")]
            /\ user' = [user EXCEPT ![s].state = "U_WAITING_SAVE"]
            /\ log' = [log EXCEPT ![line.text].committed = TRUE]
       ELSE UNCHANGED <<toSlave, masterVars>>
  /\ UNCHANGED <<msgNumber, file, slaveVars, toMaster, spins, crowded, breaks>>

GivesUp(s) ==
  /\ Takes(s, "PRECOMMIT_ERR")
  /\ Multicast(s, "ABORT", NoLine)
  /\ master' = [master EXCEPT ![s] = AllAt(@, "IDLE")]
  /\ IF user[s].state = "U_WAITING_COMMIT"
       THEN Answer(s, "ERROR") /\ user' = [user EXCEPT ![s] = NoCmd]
       ELSE UNCHANGED <<user, log>>
  /\ UNCHANGED <<msgNumber, file, slaveVars, toMaster, spins, crowded, breaks>>

\* An event for another number than the user's: the search is repeated for ever.
Spins(s, type) ==
  LET num == Head(queue[s]).num IN
  /\ Takes(s, type)
  /\ user[s].state = "U_WAITING_SAVE" /\ num # user[s].line.num
  /\ type = "COMMIT_UNSUCCESS" => num # NoNum
  /\ spins' = [spins EXCEPT ![s] = TRUE]
  /\ UNCHANGED <<msgNumber, file, masterVars, slaveVars, toSlave, toMaster, crowded, breaks>>

NothingWaits(s, type) ==
  /\ Takes(s, type) /\ user[s].state # "U_WAITING_SAVE"
  /\ UNCHANGED <<msgNumber, file, masterVars, slaveVars, toSlave, toMaster, spins,
                 crowded, breaks>>

\* The master's own save, END and the answer.
AllPerformed(s) ==
  LET line == user[s].line IN
  /\ Takes(s, "COMMIT_SUCCESS")
  /\ user[s].state = "U_WAITING_SAVE" /\ Head(queue[s]).num = line.num
  /\ \E r \in SaveResults(s, user[s].kind, line) :
       /\ file' = [file EXCEPT ![s] = r.file]
       /\ log' = [log EXCEPT ![line.text].answer = r.result,
                             ![line.text].saved = IF r.result = "WROTE"
                                                    THEN @ \cup {s} ELSE @]
  /\ Multicast(s, "END", NoLine)
  /\ master' = [master EXCEPT ![s] = AllAt(@, "IDLE")]
  /\ user' = [user EXCEPT ![s] = NoCmd]
  /\ UNCHANGED <<msgNumber, slaveVars, toMaster, spins, crowded, breaks>>

Undone(s) ==
  LET e == Head(queue[s]) IN
  /\ Takes(s, "COMMIT_UNSUCCESS")
  /\ user[s].state = "U_WAITING_SAVE" /\ e.num \in {NoNum, user[s].line.num}
  /\ Answer(s, IF user[s].kind = "REPLACE" /\ e.unknown THEN "UNKNOWN" ELSE "ERROR")
  /\ Multicast(s, "END", NoLine)
  /\ master' = [master EXCEPT ![s] = AllAt(@, "IDLE")]
  /\ user' = [user EXCEPT ![s] = NoCmd]
  /\ UNCHANGED <<msgNumber, file, slaveVars, toMaster, spins, crowded, breaks>>

-----------------------------------------------------------------------------
(* The timers *)

Expires(s, type) ==
  /\ breaks < MaxBreaks /\ breaks' = breaks + 1
  /\ queue' = [queue EXCEPT ![s] = Append(@, Event(type, NoNum, FALSE))]
  /\ UNCHANGED <<msgNumber, file, user, slave, toSlave, toMaster, spins, log, crowded>>

MasterTimer(s) ==
  /\ master[s].timer /\ master' = [master EXCEPT ![s].timer = FALSE]
  /\ Expires(s, "TIMEOUT_MASTER") /\ UNCHANGED slaveTimer

SlaveTimer(s) ==
  /\ slaveTimer[s] /\ slaveTimer' = [slaveTimer EXCEPT ![s] = FALSE]
  /\ Expires(s, "TIMEOUT_SLAVE") /\ UNCHANGED master

MasterTimeout(s) ==
  LET follows(type) == Append(Tail(queue[s]), Event(type, NoNum, FALSE)) IN
  /\ ~spins[s] /\ queue[s] # <<>> /\ Head(queue[s]).type = "TIMEOUT_MASTER"
  /\ queue' = [queue EXCEPT ![s] =
       CASE master[s].state = "M_PRECOMMIT_MULTICASTED" -> follows("PRECOMMIT_ERR")
         [] master[s].state = "M_COMMITED" -> follows("COMMIT_UNSUCCESS")
         [] OTHER -> Tail(@)]
  /\ UNCHANGED <<msgNumber, file, masterVars, slaveVars, toSlave, toMaster, spins,
                 crowded, breaks>>

AwaitCommit(s) == {m \in Others(s) : slave[s][m] = "S_PRECOMMIT_ACK"}

\* The records of all masters that wait for COMMIT are reset.
SlaveTimeout(s) ==
  /\ Takes(s, "TIMEOUT_SLAVE")
  /\ slave' = [slave EXCEPT ![s] =
       [m \in Others(s) |-> IF m \in AwaitCommit(s) THEN "IDLE" ELSE @[m]]]
  /\ UNCHANGED <<msgNumber, file, masterVars, slaveTimer, toSlave, toMaster, spins,
                 crowded, breaks>>

-----------------------------------------------------------------------------
(* Specification *)

Receive(s) == \E p \in Servers :
  \/ Precommit(p, s) \/ AbortOrEnd(p, s) \/ CommitRefused(p, s) \/ Commit(p, s)
  \/ Reply(s, p)

Handle(s) ==
  \/ AllAcknowledged(s) \/ GivesUp(s) \/ AllPerformed(s) \/ Undone(s)
  \/ \E type \in {"COMMIT_SUCCESS", "COMMIT_UNSUCCESS"} : NothingWaits(s, type) \/ Spins(s, type)
  \/ MasterTimeout(s) \/ SlaveTimeout(s)

Issue(s) == Write(s) \/ Leave(s) \/ \E num \in 1 .. Earlier + 1 : Replace(s, num)

Next ==
  \E s \in Servers : Issue(s) \/ Receive(s) \/ Handle(s) \/ MasterTimer(s) \/ SlaveTimer(s)

Spec == Init /\ [][Next]_vars

\* The servers run. No timer is needed for what follows from this, and the
\* weakest fairness is enough: the steps that a set of commands leads to end.
FairSpec == Spec /\ WF_vars(\E s \in Servers : Receive(s) \/ Handle(s))

-----------------------------------------------------------------------------
(* Properties *)

States   == {"IDLE", "M_PRECOMMIT_MULTICASTED", "M_PRECOMMITED", "M_COMMITED",
             "M_OPERATION_PERFORMED", "M_OPERATION_UNSUCCESS"}
SyncLists(s) == [srv : [Others(s) -> States], state : States, timer : BOOLEAN]
SlaveStates  == {"NULL", "IDLE", "S_PRECOMMIT_ACK", "S_COMMITED"}
Lines    == [num : {NoNum} \cup Nums, text : 0 .. MaxCmds]
Users    == [state : {"IDLE", "U_WAITING_COMMIT", "U_WAITING_SAVE"},
             kind : {"WRITE", "REPLACE"}, line : Lines]
Commands == [by : Servers, kind : {"WRITE", "REPLACE"}, num : Nums,
             answer : {"none", "WROTE", "ERROR", "UNKNOWN", "gone"},
             committed : BOOLEAN, saved : SUBSET Servers]
Events   == [type : {"PRECOMMIT_ACK", "PRECOMMIT_ERR", "COMMIT_SUCCESS", "COMMIT_UNSUCCESS",
                     "TIMEOUT_MASTER", "TIMEOUT_SLAVE"},
             num : {NoNum} \cup Nums, unknown : BOOLEAN]
Orders   == [kind : {"PRECOMMIT", "ABORT", "COMMIT", "END"}, line : Lines]
Answers  == [kind : {"ACK", "SUCCESS", "UNSUCCESS", "UNKNOWN"}, num : {NoNum} \cup Nums]

\* A line of one of the first n commands: no number runs ahead of the commands.
Issued(line, n) == line.num <= Earlier + n /\ line.text <= n

\* The type invariant.
TypeOK ==
  /\ msgNumber \in [Servers -> 0 .. Earlier + Len(log)]
  /\ file \in [Servers -> Seq(Lines)]
  /\ user \in [Servers -> Users]
  /\ \A s \in Servers : Issued(user[s].line, Len(log))
  /\ DOMAIN master = Servers /\ DOMAIN slave = Servers
  /\ \A s \in Servers :
       /\ master[s] \in SyncLists(s)
       /\ slave[s] \in [Others(s) -> SlaveStates]
  /\ queue \in [Servers -> Seq(Events)]
  /\ slaveTimer \in [Servers -> BOOLEAN] /\ spins \in [Servers -> BOOLEAN]
  /\ toSlave \in [Pairs -> Seq(Orders)] /\ toMaster \in [Pairs -> Seq(Answers)]
  /\ \A p \in Pairs : \A i \in DOMAIN toSlave[p] : Issued(toSlave[p][i].line, Len(log))
  /\ log \in Seq(Commands) /\ Len(log) <= MaxCmds
  /\ crowded \in BOOLEAN /\ breaks \in 0 .. MaxBreaks

AllWrote == \A c \in DOMAIN log : log[c].answer = "WROTE"

\* Did an exchange of s fail before its COMMIT, or after it?
FailedEarly(s) == \E c \in DOMAIN log :
  log[c].by = s /\ log[c].answer \notin {"none", "WROTE"} /\ ~log[c].committed
FailedLate(s) == \E c \in DOMAIN log :
  log[c].by = s /\ log[c].answer \notin {"none", "WROTE"} /\ log[c].committed

\* Whatever masters do at the same time, and however late the answers are, a command
\* is answered "3.0 WROTE" only after every server has stored it (README 1.7: "on all
\* master and slaves"), until its master has had exchanges that overlapped, one that
\* failed before its COMMIT and one that failed after it: then the acknowledgement of
\* the one and the success of the other can count for a third.
WroteEverywhere == \A c \in DOMAIN log :
  log[c].answer = "WROTE" =>
    \/ log[c].saved = Servers
    \/ crowded /\ FailedEarly(log[c].by) /\ FailedLate(log[c].by)

\* As long as exchanges follow each other, no two messages that were written have
\* one number, although the counters differ after an exchange that failed: the
\* COMMIT that sets a counter back never sets it behind a written message.
NumbersApart == crowded \/ \A c, d \in DOMAIN log :
  c # d /\ log[c].kind = "WRITE" /\ log[d].kind = "WRITE" /\ log[c].num = log[d].num
    => ~(log[c].answer = "WROTE" /\ log[d].answer = "WROTE")

\* When all is quiet and every command succeeded, all servers have the same
\* numbers, each as often, also after exchanges that overlapped.
SameNumbers == Quiet /\ AllWrote => \A s, t \in Servers, n \in Nums :
  Cardinality(Found(file[s], n)) = Cardinality(Found(file[t], n))

FirstTexts(s) == [n \in {m \in Nums : Found(file[s], m) # {}} |->
                    file[s][Min(Found(file[s], n))].text]

\* ... and READ returns the same everywhere, if no two exchanges overlapped.
\* (Otherwise each master stores its own command after the other's.)
ReadsAgree == Quiet /\ AllWrote /\ ~crowded =>
  \A s, t \in Servers : FirstTexts(s) = FirstTexts(t)

\* When all is quiet, no slave waits for a COMMIT, although the COMMIT of one master
\* stops the timer of all: only of a master whose user has left can it still wait.
Released == Quiet => \A p \in Pairs : p[1] \in AwaitCommit(p[2]) =>
  \E c \in DOMAIN log : log[c].by = p[1] /\ log[c].answer = "gone"

\* Every command is answered, however late the answers and with timers that may
\* expire or not, unless the worker of its server spins: no two masters wait for
\* each other.
Answered == \A s \in Servers :
  (user[s].state # "IDLE") ~> (user[s].state = "IDLE" \/ spins[s])

-----------------------------------------------------------------------------
(* What the README says and the code does not keep *)

\* README 1.9: "to assure there are no same message number on multiple servers".
NumbersUnique == \A s \in Servers, n \in Nums : Cardinality(Found(file[s], n)) <= 1

=============================================================================
