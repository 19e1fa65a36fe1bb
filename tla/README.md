# BBServer in TLA+

BBServer is a bulletin-board server: user clients READ, WRITE and REPLACE lines
of a file, the *bbfile*. When sync peers are configured, the server that gets a
WRITE or REPLACE becomes the *master* of a two-phase exchange with its peers
(PRECOMMIT / ACK / COMMIT / answer / END) and all of them store the line. This
directory models the server from its boot-up to its answers, checks it with TLC
on small instances and proves part of it with TLAPS for every instance.

Contents: [inventory](#inventory), [modules](#modules), [runs](#runs),
[bounds](#bounds), [fairness](#fairness), [disagreements](#disagreements),
[proofs](#proofs), [what is left out](#what-is-left-out), [plan](#plan).

## Inventory

| Component | State | Operations | Interacts with |
|---|---|---|---|
| Connection service, `connection.cpp` | `connections[]`, `read_fd_set` | one thread: `select()` every ms at most, posts EV_ACCEPT and EV_RECV; `conn_add`, `conn_del` called by workers | event queue, client list |
| Event queue and thread pool, `queue.cpp`, `bootup.cpp` | `clientEvQueue`, its lock and condition variable | `enClientEventQueue`, `deClientEventQueue`, `destroy_client_event_queue` | everything |
| Event handlers, `event.cpp` | none of their own | one handler per event type, run by the workers | all lists, bbfile, sockets |
| Client list, `list.cpp` | a `clientCB` per connection: `slaveState`, `cmd`, `msg`, `msgNumber` | add, delete, find, save and clear the command, find a waiting user | handlers |
| Sync server list, `list.cpp` | a `syncServerCB` per peer: `state`, and `masterState` in the first | setters and getters; setting `masterState` starts or stops the master timer | handlers, timer |
| Sync master, `sync.cpp`, `msg.cpp` | in the two lists | connect, multicast PRECOMMIT, ABORT, COMMIT, END; process the answers | peers, event queue |
| Sync slave, `msg.cpp` | `slaveState` of the connection from a master, one slave timer | PRECOMMIT, ABORT, COMMIT WRITE, COMMIT REPLACE, END | message store |
| Timers, `sync.cpp` | two POSIX timers delivering signals | start, stop, expire: post an event | event queue |
| Message store, `msg.cpp` | the bbfile | READ, append, overwrite in place | access control |
| Access control, `semaphore.cpp` | `wrt`, `readerMutex`, `readerCnt` | `write_start/end`, `read_start/end` | message store |
| Message numbers, `config.cpp` | `msgNumber` | allocate, update from COMMIT, load at startup | master, slave |
| Configuration, `config.cpp` | `SysCfgCB` | file, then command line | all |
| Boot-up and signals, `bootup.cpp` | | create everything, destroy everything, re-execute | all |

`main.cpp` is an earlier single-file version of the server; the Makefile does
not build it.

What is hard here: any worker may handle any event, so the answers of two peers
are processed in parallel and every list access is a separate critical section;
the exchange is identified by the message number in some places only; peers
crash, answers come late or merged into one `recv()`, timers expire while the
last answer is under way; the queue's condition variable is waited for
unconditionally. `PROJECT.json` lists each hazard at its line with the
properties aimed at it.

What makes each component correct:

- *exchange*: the peers store before the master does and before the user is
  told; no success without a stored line; no line twice; one answer per command;
  peers and master agree after successes; a lost peer is connected again;
- *queue*: no posted event is lost or left behind; a signalled worker finds one;
- *access control*: a writer alone, readers together, nobody locked out;
- *message numbers*: one number, one message, across restarts and masters;
- *store*: READ finds what was reported as stored, a REPLACE touches its line only
  unless it is too long;
- *connections and client list*: every connection has one record and is watched,
  no record is used after its deletion or for another's connection, who sends is
  served; the peer's record knows its connection;
- *slave*: it does not wait for ever for a COMMIT, whichever master it is from;
- *configuration*: options win over the file in force; *boot-up*: what a command
  uses exists;
- *termination*: it ends, and leaves no thread with destroyed data. Of this only
  the draining of the queue is modelled.

## Modules

### PeerSync

One server as master of its `N` peers. The granularity is that of the code's
critical sections: each access to `clientList` or `syncServerList` that another
worker can reach, each `send()`, and each access to the queue is an action of
its own. A worker's position is `pc[w]`, its local variables `job[w]`. A label
stands for a place in the code:

| Labels | Code |
|---|---|
| `connect`, `link`, `connected` | `init_sync_server_connection()`: test and `connect()`, then the record's descriptor and state; and its caller `process_client_msg()` |
| `send`, `mark` | the loops of `sync_send_precommit/abort/commit/success()` |
| `check` | `sync_check_server_state()`, one list element per step |
| `master`, `post` | `sync_set_master_state()`, `sync_send_event()` |
| `note`, `once` | `process_sync_master_msg()`: the peer's state, the "only once" test |
| `findCommit`, `commit`, `waitSave` | `proc_sync_ev_precommit_ack()` |
| `findAbort`, `refuse`, `clear` | `proc_sync_ev_precommit_err()` |
| `findSave`, `save`, `reply`, `clear` | `proc_sync_ev_commit_success()` |
| `findUndo`, `undo`, `clear` | `proc_sync_ev_commit_unsuccess()` |

Functions with several callers (`send`, `check`, `clear`) return through
`job[w].ret`. A loop that repeats a search without changing anything is a
disabled `Find`: the worker is stuck until the list changes.

| Variable | Code |
|---|---|
| `srv`, `masterState`, `masterTimer` | `syncServerCB.state`, `.masterState` of the list's head, `timerid_master` |
| `queue` | the EV_SYNC_* events of `clientEvQueue` (a received message is an action on the connection itself) |
| `client` | `slaveState`, `cmd`, `msgNumber` and `msg` of each user's `clientCB` |
| `conn`, `toPeer`, `toMaster` | the sockets, by what the record of the peer names: a connection (`new` before it is named, `open`, `eof`: the peer is gone and `recv()` has not returned 0 yet), the descriptor of a lost one (`lost`), or that descriptor after a message has reached its next owner (`stray`) |
| `up`, `slave`, `file` | peers' processes, their `slaveState`, all bbfiles |
| `last`, `verdict`, `spilled` | history, for the properties: the latest command of each user, the answers it got, and the servers where a REPLACE was written over more than its line |

A peer handles a received message in one step: between two masters' messages
nothing in it depends on finer interleavings, and the model has one master. `recv()` returns
1 to `MaxRecv` messages; a COMMIT WRITE received with its successor stores the
successor's text as a further line (`Junk`), an answer takes the rest of the
buffer into its number (`Garbled`), PRECOMMIT, ABORT and an acknowledgement are
not recognised unless they are alone. A save may fail at any time ("ERROR"). A
COMMIT without a number ends the peer's process: `stoi()` throws. The `return`
for a COMMIT in the wrong state is inside a `LOG` block, so it depends on the
debug level: the constant `Debug`. A line is its number and the command it comes
from; that its text holds no newline is assumed here, and not in `MessageStore`.

A REPLACE keeps to its line only if it is short enough. `save_msg_replace()`
compares no lengths, so a longer text, and at a peer one that came together with
the next message, is written over the lines behind it, to an extent that depends on
lengths the model does not have: `Overrun` allows every extent. It also may leave the last
line without a newline, which the next WRITE then continues (`Unended`). All of this is
answered as a success. These saves are actions of their own (`SaveSpills`,
`PeerCommitSpills`): `Next` is `Exchange \/ Spilling`. A step of `Exchange` takes no
line from a file, and `Unspilled` says that all steps so far were of this kind.

A lost peer's record keeps its descriptor, and the multicasts do not look at the
peer's state. If the descriptor belongs to nobody, `send()` fails and the multicast ends. If a
new client has got it, `send()` succeeds and the peer is marked like the others, so that
nobody connects to it again. `Send` allows both for a `lost` peer. Who that client is, is
the subject of `Connections`.

An expired timer is handled in two steps, the test of `masterState` and the posting of the
event that ends the phase. The initial value "NULL" of `masterState` stands for memory no
one has written: it equals none of the states that are compared with it before the first
write.

### ReplicatedBoard

What the exchange is for, without it: the messages every server holds under their
numbers, and what the users are told. `Put` stores the text of a command under its one
number, `MasterStores` is the master's save and its "WROTE" in one step and needs a peer
that holds the number, `Fails` is any other answer and changes no message. The promise
ends with the first accident (`Spoil`): a REPLACE that was written over other lines. The
section "The abstract board" of `PeerSync` maps onto it, and `BoardReplicated` states the
refinement:

| `ReplicatedBoard` | `PeerSync` |
|---|---|
| `given` | `msgNumber` |
| `board[s]` | `Messages(file[s])`: the lines of the file but for those that a merged COMMIT appended |
| `told[c]` | `verdict[c]`, and behind it the answer a worker already carries when the master's save is done and END and the answer are not sent (`Decided`) |
| `intact` | `Unspilled` |

So, up to an accident, a step of the two-phase exchange is a stutter except for a command, a
peer's save, the master's save, and an answer that is not "WROTE". With two workers it is no
refinement, for the reasons under [disagreements](#disagreements).

### BBFile, BBFileAccess

`BBFile` is what the server's README promises of the file ("bbfile access"):
sets of threads that read and write, and when each may start. `BBFileAccess` is
`semaphore.cpp`, one step per operation on `wrt`, `readerMutex` or `readerCnt`.
`Promise` states that the second implements the first, a read lasting from the
end of `read_start()` to the start of `read_end()`.

### EventQueue

`queue.cpp` with its two kinds of consumers: the workers, and the main thread
whose signal handlers drain the queue. What the lock protects is one step; the
return from `pthread_cond_wait()` is a second one (`woken`), since others can
take the lock in between. `missed` counts, as history, the signals that found no
thread waiting; `spurious` counts the returns without a signal, which POSIX
permits and `MaxSpurious` bounds. An event is a number in the order of posting.

Workers take sync events from `PeerSync`'s `queue` by an ordinary guard: any idle
worker may take the first event. `EventQueue` says when that is so in the code.
Safety in `PeerSync` does not depend on it, as no action there is forced;
only `FairSpec` does, which serves one expected violation.

### Bulletin, MessageStore

The bbfile of a server on its own. The file is a sequence of cells: one for the number of a
message with its "/", one or more for the rest ("user/message"), NL at the end of the line,
`Pad` for the blanks of a shorter replacement. `Reads`, `Appended`, `Replaced` and
`LastLine` are what READ, `save_msg_write()`, `save_msg_replace()` and `get_last_line()` do
to these cells, so that an overlong replacement runs into the next line and a message with a
newline becomes two lines in the model as well. Behind that newline a text may go on with
any number the server can hand out, which READ and REPLACE then take for a message's; lines
that begin with another number (0, a negative one, one above INT_MAX) are left out. What
`write_start()` ... `write_end()` encloses is one step; `Exclusion` of `BBFileAccess` is
what permits this. `Alloc` and `Save` are two: a number is taken before the lock of the
file.

`Bulletin` is the abstract board, a function from numbers to texts that WRITE
extends and REPLACE changes at one place. The code keeps that promise only up to
an accident that nothing in it prevents. `harm` records, as history, which have
happened, and the properties name those they except:

| Accident | Cause |
|---|---|
| `overlong` | a replacement longer than its line overwrites the line after it |
| `split` | a message with a newline is stored: its user sent one, or one `recv()` returned two commands together |
| `wrap` | the numbers started again from 1 |
| `late` | two workers saved in another order than they took their numbers |
| `behind` | after a restart the counter is below a number in the file |

`NumbersGrow` says that `behind` only follows `late`, `overlong` or `split`. A crash between
`Alloc` and `Save`, failed saves, restarts and shorter replacements are no accidents: the
properties hold across them.

### Connections

The connection thread, the workers' part in accepting, receiving and
disconnecting, and the connection to a peer that a WRITE makes. A descriptor is
`sock[f]`: who is at its other end, whether there is something to read, whether the
other end has closed. The kernel gives the lowest free one, so one that was closed
comes back at once. `conn_add`, `client_list_add`, `sync_server_list_set_fd` and,
at the end, `close()`, the clearing of the table and `client_list_del` are separate
steps, as each takes its own lock or none. A record is identified by descriptor and
client: a record of a descriptor that was given out again differs from the new one.

`Multicast` and `MarkSent` stand for what the exchange (`PeerSync`) does to a
connection: one message through the descriptor in the peer's record, to whoever has it
now, and the record's new state if `send()` succeeded. They may happen between any two
events, since an answer or a timeout may be handled then.

| Variable | Code |
|---|---|
| `connections`, `readSet` | `connections[]` from its third entry on, `read_fd_set` while `select()`'s result is tested |
| `thread`, `entry` | the connection thread is at `select()` or behind it, and the entry `conn_check_fd_set()` has come to |
| `clientList`, `server` | the descriptors in `clientList`, newest first; `state` and `fd` of the one `syncServerCB` |
| `pc`, `job` | `accept` and `recv` are the blocking calls |
| `exited` | `CHECK_EXIT` has ended the process: `socket()` found no descriptor |

`dropped` and `strayed` are history: the descriptors for which `conn_add` found the
table full, and whether a message for the peer has gone to another client.

### Cluster

Servers that are all each other's peers: each is the master of its own user's commands and
the slave of all others. `PeerSync` looks into one server, with several workers; `Cluster`
has one worker for each server, whose handlers are therefore single steps, and looks at what
masters do to each other: `msgNumber` that `update_msg_number()` sets to another master's
number, the files, the slave timer that all masters share. Messages arrive one at a time and
in order, none is lost. A REPLACE changes exactly its line here; counters return to 1 at
`IntMax`, but the commands of an instance do not bring them there (`IntMaxOK`). `spins[s]`
is set when the worker enters the search of `proc_sync_ev_commit_success()` that finds the
same wrong user again; it stays there.

`Leave` is a user that disconnects while its command waits: the record goes and the
exchange continues without it. `breaks` counts these and the timers that expire.
`log` and `crowded` are history: every command with its number, its answer, whether its
COMMIT went out and which servers stored it, and whether an exchange ever began before
all others were over. `MaxShared` bounds the commands when several servers' users issue them.

### Bootup

`LoadConfig`, `Parse`, `Turns`, `LoadOption` and `ServersOf` are `load_config()`, one turn of
the `getopt()` loop, the loop, `load_option()` and `init_sync_server_list()` as operators on
settings. A configuration file is the record of the keys `getParaFromBuf()` finds
in it. The actions are the start with some command line, the steps of
`sys_bootup()` in their order, edits of the files, SIGHUP, and commands that arrive
as soon as the connection thread runs. `uses` is what the last command needed.
`OptionsWin` compares `cfg` with `started`, the command line and files of the start,
by a second definition of the settings: the last occurrence of each option, else
the file in force (`BBFileWins`, `FlagsWin`, `NumberWins`). Two settings follow another
rule, which its parts state: `LevelWins`, where `-d` and `-D` meet, and `PeersWin`.
`hupBlocked` is the signal mask of the process as far as SIGHUP goes: blocked behind
`execve()` in the handler, open again once a timer's creation has replaced the mask.

### Proof modules

`PeerSyncSafety` (any number of workers), `PeerSyncOneWorker` (one), `BBFileAccessProofs`,
`EventQueueProofs`, `MessageStoreProofs`, `ConnectionsProofs`, `ClusterProofs`,
`BootupProofs`: see [proofs](#proofs).

Definitions commented "Faulty variant of ..." are not part of any
specification. Each is its neighbour with a plausible bug; `PROJECT.json`
("mutants") pairs it with the property that notices the bug.

## Runs

Passing:

| Run | Instance | Shows |
|---|---|---|
| `two_users` | N=1, 2 users, 1 worker, merged messages, 1 crash, 1 timeout | `NoDuplicateLine`, `WrittenEverywhere`, `NoZombiePeer` and the refinement `BoardReplicated`: commands of two users that meet in one exchange are stored once, at the peer too, and as the abstract board says; a lost peer is known to be lost until a message strays |
| `two_peers` | N=2, 1 user with 2 commands, 1 worker, merged messages, 1 crash, 1 timeout | `FilesAgree`, `AnsweredOnce`, `NeverAlone`, `SuccessEventBacked`: after failures, late answers and timeouts the files agree where success was reported |
| `two_workers` | N=2, 2 workers, 1 command, merged messages | `TypeOK`, `PeersFirst` under every interleaving of two workers: neither checks the peers' states as all done too early |
| `bbfile` | 4 threads, fair | `TypeOK`, `Exclusion`, `Promise`, `ReadServed`, and no deadlock |
| `queue_pool` | 3 workers and the main thread, 4 events, 2 spurious wakeups, fair | `TypeOK`, `LeftBehind`, `SignalFindsEvent`, `HandledUnlessMissed` |
| `store` | 2 workers, 3 WRITEs, 2 REPLACEs, 1 restart, numbers below 4 | `AnswersTrue`, `OthersKept`, `NumbersGrow`, `StartsAgain` and the refinement `Implements`: READ, restarts and replacements until an accident |
| `connections` | 1 worker, a user, a master, a peer, 3 descriptors, a table of 2, 1 message for the peer, fair | `RecordInUse`, `RecordsAgree`, `PeerLinked`, `Served` while clients and peer come and go and the message goes through the peer's old descriptor |
| `masters` | 3 servers, 2 commands of two or 3 commands of one, 1 timeout or leaving user; one server with failing saves and refused COMMITs | `WroteEverywhere` however the exchanges overlap, with the one exception it names; `NumbersApart` and `ReadsAgree` if they do not; `SameNumbers`; `Released`: no slave waits in the end |
| `late_answers` | 2 servers, 3 WRITEs, 2 timeouts or leaving users, fair | `Answered`: no deadlock of masters |
| `bootup` | 2 files of 4 contents, 139 command lines, 1 edit, SIGHUP | `OptionsWin`, `ReadyWhenUsed` |

The first two runs are about a server with one worker (`THMAX=1`). With two workers
`NoDuplicateLine`, `AnsweredOnce` and others of their properties fail, for the reasons
[below](#disagreements); the run with two workers checks `PeersFirst`, which is also
proved for any number of workers, crashes and timeouts, and so is `SuccessEventBacked`.

`WrittenEverywhere`, `SuccessEventBacked`, `NeverAlone`, `FilesAgree` and
`BoardReplicated` end with the first REPLACE that is written over other lines:
from then on nothing like them holds. `PeersFirst`, `AnsweredOnce`, `NoDuplicateLine` and
`NoZombiePeer` hold in spite of it.

`FilesAgree` is a property of a server with one user, too. With two, a WRITE and a
REPLACE of its number can wait in one exchange: the master stores both on the peer's
answer to the first COMMIT and reports both as written, while the peer has not read
the second COMMIT yet, or has read it as text behind the first.

`RecordInUse`, `RecordsAgree` and `PeerLinked` are also properties of one worker, for
the reasons given there.

CHECK_DEADLOCK is FALSE except for `bbfile`: once the commands, events or clients of
an instance are used up, the server legitimately rests.

## Bounds

| Bound | Meaning | Why it is enough |
|---|---|---|
| `MaxCmds` 1-2 | commands | a second command is what a stale record, state or event of the first can hit. `WrittenEverywhere` and `SuccessEventBacked` were also checked with three commands of one user, one peer and two timeouts |
| `MaxRecv` 1-2 | messages one `recv()` returns | two is the first case in which a message is not alone; later ones fall to the same prefix tests |
| `MaxCrashes` 0-1 | peers going down | one crash in an exchange and a reconnection before the next one |
| `MaxTimeouts` 0-1 | timers expiring, on either side | one is enough for a late answer and a failed exchange; `write_answered` has 3 |
| `NUsers` 2, `N` 2, 2 workers | | the least number for a search to find another user, for peers to disagree, for handlers to race |
| `Threads` 4 | accesses to the bbfile | two readers that overlap and two writers |
| `MaxEvents` 4, 3 workers | events | more events than threads on their way to the queue |
| `MaxWrites` 3, `MaxReplaces` 2, `MaxRestarts` 1, `IntMax` 4 | store | saves that cross, a replacement before and after them, a restart, and the number that wraps |
| `TheTexts` | store | a short text, a longer one that overruns it, and one with a newline and a number behind it |
| `NFd` 3, `MaxConn` 2 | descriptors, table | fewer entries than descriptors, and fewer descriptors than clients, lost sockets and peer can need |
| `MaxQueue`, `MaxConnects`, `MaxSends` 2, `MaxPeerStops` 1 | connections | a copy of an event, a client in place of another, a peer that comes back |
| `MaxMulticasts` 1 | a message for the peer | to its connection, to nobody, or to the next owner of its descriptor. The invariants were also checked with two |
| 3 servers, `MaxCmds` 3, `MaxShared` 2, `MaxBreaks` 1 | `masters` | two masters and a server that is only their slave; a third command of one master is the first that late answers of two others can meet. The invariants were also checked with two servers, 4 commands and one timeout or leaving user, and 3 commands and two |
| `IntMax` 2147483647 | `masters`, `late_answers`, `numbers_unique` | not reached; the return to 1 is in `store` |
| `MaxCmds` 3, `MaxBreaks` 2 | `late_answers` | the least with which a worker spins |
| `MaxEdits` 1 | `bootup` | an edit before, during or after a start, and before SIGHUP |
| `MaxSpurious` 2 | wakeups without a signal | one that steals an event from a signalled thread, and one more |

Users wait for the answer to a command before the next one, as the protocol's
clients do. `UserCmds` selects the commands; two runs use WRITE alone to keep
the counterexample short. The workers are symmetric where a run has two and no
temporal property (`SYMMETRY`).

## Fairness

- `PeerSync!FairSpec`: weak fairness for each worker (threads are scheduled, a
  worker with something to do goes on), for the armed master timer and for
  running peers that have received something. Users, crashes and restarts are
  not forced.
- `BBFileAccess!FairSpec`: strong fairness for a thread in the middle of an
  access, that is, the semaphore and the mutex do not pass over the same waiter
  for ever. POSIX promises less; with it readers are served. Writers are not
  even so: readers that overlap without end keep `wrt` from them.
- `EventQueue!FairSpec`: weak fairness for each thread and for the return of a
  handler. That a handler does not return is the subject of `Answered`.
- `Connections!FairSpec`: weak fairness for the connection thread and for each worker.
  Clients and peer do nothing they do not want to, so a worker in `accept()` or
  `recv()` may be there for ever: `Served` says so.
- `Cluster!FairSpec`: weak fairness for all receiving and handling together, of all
  servers. No timer has to expire, and no server is treated fairly by itself.

## Disagreements

Two runs end in a counterexample to a statement of the repository's documents;
`PROJECT.json` ("findings") quotes them.

| Run | What happens |
|---|---|
| `write_answered` | the peer dies after its acknowledgement: COMMIT is not sent, no timer runs, no answer ever |
| `numbers_unique` | two masters take the same number before either has the other's COMMIT; every server has two messages under it |

Seen in the same models, and not kept as runs of their own.

Exchange, one worker (`PeerSync`, `Cluster`):

- a failed connection answers 3.2 but the record still waits for COMMIT, and the next
  user's exchange writes it (README: "no message will be written in bbfile") and answers
  its user a second time, which is the exception `AnsweredOnce` makes;
- a lost peer's record keeps its descriptor; a message sent to the next owner of it
  sets the peer's state, and a peer that is gone counts as connected and is not connected
  again. The owner is whoever connected in between, and is sent a message of the
  exchange (`NoZombiePeer` and the first half of `PeerLinked` end there);
- a REPLACE that is too long, or arrives at a peer together with the next message,
  overwrites the lines behind its own, and is reported as a success: messages are lost, and
  the servers' files differ from then on (`Unspilled`);
- when one of two peers cannot save, the user gets "3.2 ERROR WRITE" and the other
  peer keeps the line: END UNSUCCESS undoes nothing;
- the search for the user with a given number returns another user for ever, with
  two users in an exchange, or after two timeouts with one (`Spins`);
- after two overlapping WRITEs READ of their number differs between servers, after
  two overlapping REPLACEs of a number the texts differ, although both were
  answered "3.0 WROTE": each master stores its own command last;
- a user that disconnects takes its record along: what its peers have acknowledged
  is never committed, or stored by them and not by the master; the slave's timer has
  to end the wait, if the COMMIT of another master has not stopped it;
- with two peers `WrittenEverywhere` fails after three WRITEs of one user and two
  timeouts: a late acknowledgement and a late success complete two exchanges early, and
  the master stores and reports a message one peer has not stored (with one peer it is proved);
- late answers can make "3.0 WROTE" untrue (`process_sync_master_msg()` counts an answer for
  whatever exchange is in progress): a user leaves; the acknowledgement to its command makes
  the next command's COMMIT go out early, whose save one peer refuses; the third command is
  answered WROTE on a late success of the second, and a peer has not stored it
  (`WroteEverywhere` without its exception fails in the run `masters`);
- a number whose message some server did not store can be handed out again, as
  the COMMIT sets its counter or does not.

Exchange, two workers (`PeerSync`):

- two workers post a success event for one round, and the second event saves the
  next message, which a peer does not have: `WrittenEverywhere` fails;
- a timeout clears the record between `sync_find_...()` and `sync_send_commit()`: the
  COMMIT is empty, and `stoi()` ends the peer;
- two workers pass the "only once" test of `process_sync_master_msg()`.

Queue (`EventQueue`): a signal sent while all workers are busy is lost and its event
stays when all of them wait again; the signal handler that drains the queue waits
for an event although one is there, so SIGINT and SIGQUIT need not end the server.

File access (`BBFileAccess`): a writer waits for all later readers that overlap, not
only for the current ones.

Connections, two workers: both take a copy of the event of a client that has
left, and both delete its record (`RecordInUse` fails); `accept()` returns a
descriptor whose old entry is still in the table, so that it is not entered and,
when the entry is cleared, not watched; both connect to the same peer, or one loses
it before the other has linked its record, which then names a connection that is
gone (`PeerLinked` fails). With any number of workers: copies of events block all of
them; every failed `connect()` keeps its descriptor.

Configuration and boot-up (`Bootup`):

- peers on the command line never switch synchronisation on, and a PEERS value
  without ":" does so with no peer: every WRITE then answers 3.2;
- `-D 3 -d` gives level 1 and `-d -D 3` level 3, although the options "can be given in
  any order"; an option out of range gives 0: no workers, or port 0;
- the connection thread runs before the timers exist: what arrives in between sets
  a timer with the identifier 0;
- SIGHUP drops all options: it reads the default file in place of that of `-c`, also
  its DEBUG ("any change of d is disregarded" is in `sys_reload_config_sighub()`,
  which nobody calls), and ends the server if the bbfile came from `-b`;
- `execve()` inside the handler keeps the signal mask, in which SIGHUP is blocked: a
  SIGHUP that comes before the restarted server has created its timers waits, and is
  delivered only because creating a timer replaces the whole mask.

## Proofs

All theorems hold for every value of the constants allowed by the named assumptions
(`ConstantsOK`, `ThreadsFinite`, `QueueConstantsOK`, `StoreConstantsOK`, `InitialFilesOK`,
`ConnectionConstantsOK`, `ClusterConstantsOK`, `IntMaxOK`, `BootupConstantsOK`): any number
of peers, users, workers, threads, events, servers and commands, any length of the bbfile
and any size of the table. Three properties of `ConnectionsProofs` and all of
`PeerSyncOneWorker` hold with one worker and say so in their statement (`Workers = {w}`); of
these `WrittenEverywhereHolds` needs one peer and `FilesAgreeHolds` one user.

- `PeerSyncSafety`: `TypeCorrect` (`TypeOK` is inductive; one lemma per action),
  `PeersFirstHolds` and `SuccessEventBackedHolds`, from one
  invariant `Inv`. Neither property is inductive: a success travels through a
  peer's answer (`AnswersBacked`), the peer's state (`StatesBacked`), a worker
  half-way through its check of all peers (`WorkersBacked`: all peers before
  `job[w].idx` are backed) and an event (`EventsBacked`) before the master
  saves. `Inv` says that at each of these places a file backs it. All of these
  parts depend on the files only through formulas that a new line cannot make
  false; `Kept` expresses that no file loses a number or becomes empty, so one
  lemma carries every part over every step, and an action needs its own
  argument only for the part it adds to. A REPLACE over other lines does lose numbers.
  The parts therefore speak of `Shown`: the files, and once something was spilled, a file
  with every number in place of each that is not empty. What is left then is what
  `PeersFirst` needs, which files are empty; no spill empties one (`SpilledFull`).
  TLC checked `Inv` on the instances of three runs before it was proved.
- `PeerSyncOneWorker`: seven theorems, each from `Inv` and an invariant of its own.
  - `NoZombiePeerHolds` (`Reached`: the peer whose state the worker is about to set has a
    connection, or a message to it went astray).
  - `NeverAloneHolds` (`OwnNumber`: between the search for the user and the save the number
    in the worker's hands is the one in that user's record, and `Inv` says a peer has
    stored it), with `WrittenEverywhereHolds`, which is the same for a single peer. Like
    `BoardReplicatedHolds` and `FilesAgreeHolds` they end with `Unspilled`: the step to a
    state where it holds begins in one where it holds and is a step of `Exchange`.
  - `NoDuplicateLineHolds` (`OnePlace`: on its way from the user's record to a peer's file
    the number of a WRITE is in one place, that is, still to be committed, to be sent to
    the peer by the multicast under way, in a message to it, or in its file; and on its
    way to the master's file it is in a record to be saved or in the file; and the counter
    is above the others). A record whose exchange failed before its COMMIT stays in the
    first of these places, which is why a later exchange may send it but none sends it twice.
  - `BoardReplicatedHolds`, the refinement of `ReplicatedBoard`. `Put` demands that a text
    has one number at all servers. `Recorded` gives that: there is a function from
    commands to numbers that every record, COMMIT under way and line of a file follows,
    and what a user waits for is its latest command. `OnePlace` makes a WRITE's line a new
    number, `OwnNumber` and `Inv` find the peer that `MasterStores` asks for, and every
    other step leaves the four abstract variables alone.
  - `AnsweredOnceHolds`, from `Answering`: a command that a user's record waits for has
    no answer, or the one error of a refusal while a peer was down, or it has just been
    answered and the record is about to be cleared (`Awaited`); no two users have issued one
    command (`OneIssuer`); and a worker finds a peer down only after a crash (`DownCounted`).
    The four handlers that answer do so from a record that waits, and clear it before the
    one worker takes another event.
  - `FilesAgreeHolds`, the longest, from `InPhase`: as long as no answer was an error, the
    exchange is in one of ten phases (`Resting` to `Finishing`, and `Failing`). A phase says
    where the worker is and, for each peer, what is under way to it and from it, what the
    list holds of it, and whether its file equals the master's or has the user's command in
    addition; it also says which events may be posted, in which order, and whether the timer
    runs. `Failing` is every place from which nothing but an error can be answered any more,
    beginning with the event that says so in the queue and only timeouts before it. The
    invariant is false without the condition on the answers (and on `Unspilled`): after an
    error old acknowledgements, successes and states remain (see the disagreements), and it
    is the very point that a success leaves none. A step that answers an error makes the
    condition false and thereby `InPhase` true.

  TLC checked these invariants on the instances of two or three runs before they were proved.
- `BBFileAccessProofs`: `TypeCorrect`, `ExclusionHolds`, and `PromiseKept`, the
  refinement. The invariant counts readers: `readerCnt` is the number of threads between
  increase and decrease, a thread that waits for `wrt` is the only one counted,
  the one that gives it back is the last, and `wrt` is 0 exactly when somebody
  holds it. Every step is then a step of `BBFile` or leaves its variables alone.
- `EventQueueProofs`: `TypeCorrect`, `LeftBehindHolds` and `SignalFindsEventHolds`.
  Events in the queue and threads on their way to it change together, except in the
  steps that `missed` and `spurious` count.

- `MessageStoreProofs`: `TypeCorrect`, `StartsAgainHolds`, `NumbersGrowHolds`,
  `AnswersTrueHolds`, `OthersKeptHolds`, and `BoardImplemented`, the refinement of
  `Bulletin`. Most of it is about the operators on a file, not about steps: the lines of
  `Appended` and of `Replaced` are those of the old file, one more or the same ones with
  other cells, and what READ finds under each number follows. Four invariants build on each
  other: `Starts`, every line starts with a number (until `split` or `overlong`); `InOrder`,
  those numbers increase and the counter and the numbers under way are above them (until an
  accident), which makes a saved number a new one; `Fresh` and `Found`, which relate what
  was told to the file and to the jobs not saved yet. `OthersKeptHolds` needs none of them,
  as it is about any file: the lines that a replacement reaches begin among the cells it
  writes (`Covered`), all others keep their cells, and a text without a newline begins no
  line. `InitialFilesOK` says what a bbfile that the server finds at its start is: the
  server's own format, the last number the highest. Where an argument goes along the lines
  of a file it takes the least line that is wrong, as the installed provers cannot use an
  induction theorem.
- `ConnectionsProofs`: `TypeCorrect` for any number of workers; `RecordInUseHolds`,
  `RecordsAgreeHolds` and `PeerLinkedHolds` for one. The invariant says, for every point of
  the worker, which connection may lack a record, which record a connection, and which
  connection is not in the table yet or still in it (`Recorded`, `RecordTrue`, `Entering`,
  `Leaving`, `Watched`, `Linked`). Once a message for the peer has strayed, the peer's
  record is connected and no WRITE makes a new connection, so there is none (`Linked`). The
  part that is not obvious is `Room`. A copy of an event may wait while its connection is
  closed and its descriptor is given out again; if `conn_add()` found the table full then,
  the copy would lead `proc_client_ev_recv()` to a connection outside the table, which
  `conn_del()` does not close while `client_list_del()` drops its record. `Room` excludes
  this: up to a descriptor in the table or in an event there are at most `MaxConn`
  descriptors, not counting dropped and lost ones. It holds because the kernel gives out the
  lowest free descriptor, so that at `conn_add()` all lower ones are in use
  (`CountedInTable`, `NoneQueued`). TLC checked this invariant on two instances, the other
  one with four descriptors for one entry.
- `ClusterProofs`: `TypeCorrect` and all safety invariants of `Cluster`.
  `WroteEverywhereHolds` rests on `Exchange` (theorem `ExchangesHold`), an invariant of one
  master with each of its peers. Between them every order, answer, state and event of an
  exchange has its place in one line: what the peer has yet to read, what it has answered,
  what the master's list says of it, the event. The invariant says which command each of
  them is of. Without failures that is the one that waits. An exchange that fails before its
  COMMIT leaves acknowledgements behind, one that fails after it successes, and only where
  both have happened, and an exchange began before the others were over, can both
  answers be another command's. That is why the property has its
  exception, and an earlier form of it ("at most one timeout") turned out to be false when
  the invariant was written down.
  `ReleasedHolds` rests on `Awaited`: a peer that waits for the COMMIT of a master has an
  order of its under way, or the master an exchange that will send one.
  The other three rest on `FilesFollow`, four invariants: `Underway`, every COMMIT of a
  command is sent once to every peer and is under way until the peer has read it;
  `Counted`, a file has each number as often as commands saved there put it;
  `Agree`, without overlap the files are the same but for the last command; `Ahead`, the
  numbers of written messages increase and each counter is at or above those a COMMIT can
  have told it, also one that is set back. TLC checked all of them on three instances.
- `BootupProofs`: `ReadyWhenUsedHolds`, from the order of the steps (`Booted`): the
  connections are the sixth, and an empty list of peers is never looked into.
  `OptionsWinHolds` and `TypeCorrect` are about command lines of any length, so both need
  what the `getopt()` loop leaves after all its turns: `Wins`, each setting is that of the
  last option for it among the first `n` (the level that of the last `-D`, if there is no
  `-d`; the peers as many as were given with a port). It is proved for every `n` by taking
  the first turn after which it would be false; likewise, that the recursion of `Turns`
  defines a function at all (`TurnsDefined`).

Only model-checked: all liveness properties, which are out of the prover's reach
(`ReadServed`, `HandledUnlessMissed`, `Served`, `Answered`). Every invariant and every
refinement a passing run checks is also a theorem. The hypotheses of one worker and, for
`FilesAgree`, of one user are needed: without them TLC finds counterexamples.

## What is left out

Of the exchange: two workers that read one connection at once; a second connection to
a peer that two workers make at the same time (`Connections` with two workers has it), and
what becomes of a message that has strayed, which may reach another peer or a master and not
only a user; the death of the server by SIGPIPE when it sends to a
closed connection; messages split over two `recv()` calls; the master's branch for
"5.1 ERROR PRECOMMIT", which no peer ever sends. Setting `masterState` and switching
its timer are one step, though the code switches the timer after releasing the
lock. In `Cluster` a lost connection and messages that arrive together are left to
`PeerSync`; REPLACE there changes the first line of its number, as with texts of
equal length. In `PeerSync` a message holds no newline.

Of the connections: descriptors other than those of clients and peers; descriptors
from `FD_SETSIZE` on; the creation of the listening sockets.

Of the commands: USER, HELP and malformed ones, which change nothing but a name, and
the splitting of a command into words.

Of boot-up and termination: `daemon()` and the pid file; lengths of options and of
configuration lines; the order of destruction; a signal handler on a thread that
holds a lock the handler takes (hazard at `sync.cpp:385`).

Not planned: `main.cpp` (not built), `get_time_ms()`, which is not called, and the
printing functions.

## Plan

Done, in this order: `PeerSync` with its proofs, `BBFile` and `BBFileAccess` with
proofs, `EventQueue` with proofs, `MessageStore` and `Bulletin`, `Connections`, `Cluster`,
`Bootup`; then theorems for `MessageStore`, `Connections`, `Cluster`, `Bootup` and for
`PeerSync` with one worker; then `ReplicatedBoard` and its implementation by `PeerSync`,
one answer per command, and the files that agree. Next:

1. `Lifecycle`: the order of destruction, and signals on a thread that holds a lock.
2. `FilesAgree` for several users whose exchanges do not overlap.
