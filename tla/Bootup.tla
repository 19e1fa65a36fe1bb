------------------------------- MODULE Bootup --------------------------------
(***************************************************************************)
(* How a server starts: the configuration file and the command line        *)
(* (config.cpp), the peers they name (sync.cpp), the order in which        *)
(* sys_bootup() creates what the threads use (bootup.cpp), and SIGHUP,     *)
(* which executes the program again.                                       *)
(*                                                                         *)
(* A configuration file is what load_config() can find in its first 256    *)
(* bytes: a key without a value or without the end of its line is absent.  *)
(***************************************************************************)
EXTENDS Integers, Sequences, FiniteSets

CONSTANTS
  Contents,     \* what configuration files may say
  Texts,        \* the file names that occur
  Lines,        \* command lines
  MaxEdits      \* bound of the instance

VARIABLES
  disk,       \* the configuration files
  cfg,        \* SysCfgCB
  boot,       \* how many steps of sys_bootup() are done
  state,      \* of the process
  servers,    \* syncServerList
  uses,       \* what the threads' last steps have used
  started,    \* history: command line and files of this start
  hupBlocked, \* SIGHUP is blocked in every thread of the process
  edits       \* how many edits of the files there were

vars == <<disk, cfg, boot, state, servers, uses, started, hupBlocked, edits>>

Default == "bbserv.conf"
Names   == {Default, "other.conf"}
Absent  == -1
NoFile  == [thMax |-> Absent, bbPort |-> Absent, syncPort |-> Absent, bbFile |-> "",
            peers |-> <<>>, daemon |-> "", debug |-> ""]

\* The words of PEERS or of the command line's end: with and without a ":".
Words == {"host:port", "word"}

MaxThreads == 1023
MaxPort    == 65534
MaxLevel   == 5

\* An option has a number or a text, or neither; "?" is one getopt() does not know.
Letters == {"b", "t", "p", "s", "f", "d", "D", "c", "?"}
Options == {x \in [opt : Letters, num : Int, text : Texts] : x.opt = "c" => x.text \in Names}

ASSUME BootupConstantsOK ==
  /\ Names \cup {""} \subseteq Texts
  /\ NoFile \in Contents
  /\ \A f \in Contents : {f.thMax, f.bbPort, f.syncPort} \subseteq Int /\ f.peers \in Seq(Words)
  /\ \A l \in Lines : l.opts \in Seq(Options) /\ l.peers \in Seq(Words)
  /\ MaxEdits \in Nat

-----------------------------------------------------------------------------
(* load_config() *)

Valid(n, limit) == n \in 1 .. limit

\* Faulty variant of InRange: what atoi() returns is taken as it is.
InRangeAnyway(n, limit, otherwise) == IF n = Absent THEN otherwise ELSE n

InRange(n, limit, otherwise) == IF Valid(n, limit) THEN n ELSE otherwise

\* Keys that are absent or out of range leave the defaults.
LoadConfig(name) ==
  LET f == disk[name] IN
  [thMax |-> InRange(f.thMax, MaxThreads, 20),
   bbPort |-> InRange(f.bbPort, MaxPort, 9000),
   syncPort |-> InRange(f.syncPort, MaxPort, 10000),
   bbFile |-> f.bbFile, peers |-> f.peers, syncEnalbe |-> f.peers # <<>>,
   daemon |-> f.daemon \notin {"false", "0"}, debug |-> f.debug \in {"true", "1"},
   debugLevel |-> IF f.debug \in {"true", "1"} THEN 1 ELSE 0, cfgFile |-> name]

-----------------------------------------------------------------------------
(* load_option() *)

NoOptions == [flags |-> {}, bbFile |-> "", thMax |-> 0, bbPort |-> 0, syncPort |-> 0,
              debugLevel |-> 0, cfgFile |-> ""]

\* One turn of the getopt() loop. -d writes the same debugLevel as -D.
Parse(p, x) ==
  LET q == [p EXCEPT !.flags = @ \cup {x.opt}] IN
  CASE x.opt = "b" -> [q EXCEPT !.bbFile = x.text]
    [] x.opt = "t" -> [q EXCEPT !.thMax = InRange(x.num, MaxThreads, @)]
    [] x.opt = "p" -> [q EXCEPT !.bbPort = InRange(x.num, MaxPort, @)]
    [] x.opt = "s" -> [q EXCEPT !.syncPort = InRange(x.num, MaxPort, @)]
    [] x.opt = "d" -> [q EXCEPT !.debugLevel = 1]
    [] x.opt = "D" -> [q EXCEPT !.debugLevel = IF x.num \in 0 .. MaxLevel THEN x.num ELSE @]
    [] x.opt = "c" -> [q EXCEPT !.cfgFile = x.text]
    [] OTHER -> q

\* The getopt() loop: what is known after each of its turns.
Turns(opts) ==
  LET known[n \in 0 .. Len(opts)] == IF n = 0 THEN NoOptions ELSE Parse(known[n - 1], opts[n])
  IN  known

Parsed(opts) == Turns(opts)[Len(opts)]

HasPort(w) == w = "host:port"

\* How many of the first n words have a ":".
Ports(words, n) == Cardinality({i \in 1 .. n : HasPort(words[i])})

\* The options given overwrite the settings of the file. Peers, those with a ":",
\* overwrite the peers, but do not switch the synchronisation on.
Overwritten(c, o, peers) ==
  LET set(flag, new, old) == IF flag \in o.flags THEN new ELSE old
      level == set("d", IF c.debugLevel < 1 THEN 1 ELSE c.debugLevel, c.debugLevel)
  IN [c EXCEPT !.bbFile = set("b", o.bbFile, @),
               !.thMax = set("t", o.thMax, @),
               !.bbPort = set("p", o.bbPort, @),
               !.syncPort = set("s", o.syncPort, @),
               !.daemon = set("f", FALSE, @),
               !.debug = set("d", TRUE, @),
               !.debugLevel = set("D", o.debugLevel, level),
               !.peers = IF peers = <<>> THEN @
                         ELSE [i \in 1 .. Ports(peers, Len(peers)) |-> "host:port"]]

\* Faulty variant of LoadOption: -c is looked at last.
LoadOptionFirst(line) ==
  LET o == Parsed(line.opts)
  IN  IF "c" \in o.flags THEN LoadConfig(o.cfgFile)
      ELSE Overwritten(LoadConfig(Default), o, line.peers)

\* First the file of -c is loaded, in place of the default one.
LoadOption(line) ==
  LET o == Parsed(line.opts)
  IN  Overwritten(LoadConfig(IF "c" \in o.flags THEN o.cfgFile ELSE Default), o, line.peers)

-----------------------------------------------------------------------------
(* init_sync_server_list() *)

\* A server for each ":"; its name begins where the one before ended, so that it
\* takes in the words without a ":" in between. Without words it returns at once.
ServersOf(words) ==
  LET At(k) == CHOOSE i \in DOMAIN words : HasPort(words[i]) /\ Ports(words, i) = k
  IN IF words = <<>> THEN <<>> ELSE
     [k \in 1 .. Ports(words, Len(words)) |->
       IF At(k) = (IF k = 1 THEN 1 ELSE At(k - 1) + 1) THEN "host" ELSE "wrongName"]

-----------------------------------------------------------------------------
(* Actions *)

\* Faulty variant of Steps: the connections are served before the semaphores.
StepsSwapped == <<"clientList", "queue", "pool", "connections", "serverList",
                  "semaphores", "masterTimer", "slaveTimer">>

\* What sys_bootup() creates, in its order.
Steps == <<"clientList", "queue", "pool", "semaphores", "serverList",
           "connections", "masterTimer", "slaveTimer">>

\* Without peers init_sync_server_list() ends before it creates anything.
Created == {Steps[i] : i \in 1 .. boot} \ (IF cfg.peers = <<>> THEN {"serverList"} ELSE {})

Runs(what) == state = "runs" /\ \E i \in 1 .. boot : Steps[i] = what

\* sys_load_config(): without a bbfile the program ends.
Load(line) ==
  /\ cfg' = LoadOption(line)
  /\ state' = IF cfg'.bbFile = "" THEN "exited" ELSE "runs"
  /\ started' = [line |-> line, disk |-> disk]
  /\ boot' = 0 /\ servers' = <<>> /\ uses' = {}

Init ==
  /\ disk \in [Names -> Contents]
  /\ cfg = [LoadConfig(Default) EXCEPT !.bbFile = ""]
  /\ boot = 0 /\ state = "off" /\ servers = <<>> /\ uses = {}
  /\ started = [line |-> [opts |-> <<>>, peers |-> <<>>], disk |-> disk]
  /\ hupBlocked = FALSE /\ edits = 0

Start(line) ==
  /\ state = "off"
  /\ Load(line)
  /\ UNCHANGED <<disk, hupBlocked, edits>>

\* The timers' steps replace the signal mask of the main thread: SIGHUP is open again.
BootStep ==
  /\ state = "runs" /\ boot < Len(Steps)
  /\ boot' = boot + 1
  /\ servers' = IF Steps[boot'] = "serverList" THEN ServersOf(cfg.peers) ELSE servers
  /\ hupBlocked' = (hupBlocked /\ Steps[boot'] \notin {"masterTimer", "slaveTimer"})
  /\ UNCHANGED <<disk, cfg, state, uses, started, edits>>

\* What a command needs on this server.
Needs(command) ==
  CASE command = "READ" -> {"semaphores"}
    [] command = "WRITE" ->
         IF ~cfg.syncEnalbe THEN {"semaphores"}
         ELSE IF servers = <<>> THEN {} ELSE {"serverList", "masterTimer"}
    [] command = "PRECOMMIT" -> {"slaveTimer"}
    [] command = "COMMIT" -> {"slaveTimer", "semaphores"}

\* A worker of the pool, of which -t may have left none, serves a connection.
Serve(command) ==
  /\ Runs("connections") /\ Runs("pool") /\ cfg.thMax > 0
  /\ uses' = Needs(command) \cup {"clientList", "queue"}
  /\ UNCHANGED <<disk, cfg, boot, state, servers, started, hupBlocked, edits>>

Edit(name, content) ==
  /\ edits < MaxEdits /\ edits' = edits + 1
  /\ disk' = [disk EXCEPT ![name] = content]
  /\ UNCHANGED <<cfg, boot, state, servers, uses, started, hupBlocked>>

\* sighup_handler(): "./bbserv -f" in place of the process. execve() runs inside the
\* handler and keeps the signal mask: the new process starts with SIGHUP blocked, in
\* all the threads it creates before the timers too.
Foreground == [opts |-> <<[opt |-> "f", num |-> 0, text |-> ""]>>, peers |-> <<>>]

HangUp ==
  /\ state = "runs" /\ ~hupBlocked
  /\ Load(Foreground)
  /\ hupBlocked' = TRUE
  /\ UNCHANGED <<disk, edits>>

Next ==
  \/ \E line \in Lines : Start(line)
  \/ BootStep
  \/ \E c \in {"READ", "WRITE", "PRECOMMIT", "COMMIT"} : Serve(c)
  \/ \E name \in Names, f \in Contents : Edit(name, f)
  \/ HangUp

Spec == Init /\ [][Next]_vars

-----------------------------------------------------------------------------
(* Properties *)

\* The type invariant, with the bounds of the settings; 0 threads and port 0 are
\* what an option out of range leaves.
TypeOK ==
  /\ disk \in [Names -> Contents]
  /\ cfg.thMax \in 0 .. MaxThreads /\ {cfg.bbPort, cfg.syncPort} \subseteq 0 .. MaxPort
  /\ cfg.peers \in Seq(Words) /\ cfg.debugLevel \in 0 .. MaxLevel
  /\ {cfg.syncEnalbe, cfg.daemon, cfg.debug} \subseteq BOOLEAN /\ cfg.cfgFile \in Names
  /\ boot \in 0 .. Len(Steps) /\ state \in {"off", "runs", "exited"}
  /\ servers \in Seq({"host", "wrongName"})

\* Is an option among these, and which is the last one of its kind?
Has(opts, opt) == \E i \in DOMAIN opts : opts[i].opt = opt
Last(opts, opt) ==
  LET S == {i \in DOMAIN opts : opts[i].opt = opt}
  IN  opts[CHOOSE i \in S : \A j \in S : j <= i]

Given(opt)     == Has(started.line.opts, opt)
LastGiven(opt) == Last(started.line.opts, opt)

\* The file in force.
File == started.disk[IF Given("c") THEN LastGiven("c").text ELSE Default]

BBFileWins == cfg.bbFile = IF Given("b") THEN LastGiven("b").text ELSE File.bbFile

NumberWins(opt, value, limit, inFile, default) ==
  IF Given(opt) THEN Valid(LastGiven(opt).num, limit) => value = LastGiven(opt).num
  ELSE value = InRange(inFile, limit, default)

FlagsWin ==
  /\ cfg.daemon = (~Given("f") /\ File.daemon \notin {"false", "0"})
  /\ cfg.debug = (Given("d") \/ File.debug \in {"true", "1"})

\* Given both -d and -D, the later one sets the level, which is left out here.
LevelWins ==
  /\ ~Given("D") => cfg.debugLevel = IF cfg.debug THEN 1 ELSE 0
  /\ Given("D") /\ ~Given("d") /\ LastGiven("D").num \in 0 .. MaxLevel
       => cfg.debugLevel = LastGiven("D").num

\* Peers on the command line take the place of the file's, those without a ":" apart,
\* but whether the server synchronises is up to the file alone.
PeersWin ==
  LET given == started.line.peers IN
  /\ given = <<>> => cfg.peers = File.peers
  /\ given # <<>> =>
       /\ Len(cfg.peers) = Cardinality({i \in 1 .. Len(given) : HasPort(given[i])})
       /\ \A i \in 1 .. Len(cfg.peers) : HasPort(cfg.peers[i])
  /\ cfg.syncEnalbe = (File.peers # <<>>)

\* README 1.1 and 1.2: a setting has the value of its option, if this is in range;
\* without the option that of the file, the one -c names or the default one, and
\* without this the default. Two settings go by another rule: the level of -D
\* (LevelWins), and syncEnalbe, which no option sets (PeersWin). No edit, restart or
\* other option shows through: in particular nothing of the default file under -c, and
\* nothing of the options after a SIGHUP.
OptionsWin == state = "runs" =>
  /\ BBFileWins /\ FlagsWin /\ LevelWins /\ PeersWin
  /\ cfg.cfgFile = IF Given("c") THEN LastGiven("c").text ELSE Default
  /\ NumberWins("t", cfg.thMax, MaxThreads, File.thMax, 20)
  /\ NumberWins("p", cfg.bbPort, MaxPort, File.bbPort, 9000)
  /\ NumberWins("s", cfg.syncPort, MaxPort, File.syncPort, 10000)

\* What the threads use exists when they use it, in whatever order commands arrive
\* while sys_bootup() still runs and although the pool starts before the semaphores
\* and the list: only the timers may be set before they are created.
ReadyWhenUsed == uses \subseteq Created \cup {"masterTimer", "slaveTimer"}

=============================================================================
