---------------------------- MODULE ClusterProofs ----------------------------
(***************************************************************************)
(* What servers that are each other's peers promise, for any number of     *)
(* them, of commands, of timers that expire and of users that leave.       *)
(***************************************************************************)
EXTENDS Cluster, SequenceTheorems, FiniteSetTheorems, TLAPS

-----------------------------------------------------------------------------
(* Sequences *)

LEMMA Appends ==
  ASSUME NEW S, NEW q \in Seq(S), NEW e \in S
  PROVE  /\ Append(q, e) \in Seq(S) /\ Append(q, e) # <<>>
         /\ Len(Append(q, e)) = Len(q) + 1
         /\ DOMAIN Append(q, e) = 1 .. Len(q) + 1
         /\ \A i \in DOMAIN q : i \in 1 .. Len(q) /\ Append(q, e)[i] = q[i]
         /\ Append(q, e)[Len(q) + 1] = e
OBVIOUS

LEMMA Tails ==
  ASSUME NEW S, NEW q \in Seq(S), q # <<>>
  PROVE  /\ Tail(q) \in Seq(S) /\ Head(q) \in S /\ Head(q) = q[1] /\ 1 \in DOMAIN q
         /\ Len(Tail(q)) = Len(q) - 1 /\ Len(q) \in Nat
         /\ \A i \in DOMAIN Tail(q) : /\ i \in 1 .. Len(q) - 1 /\ i + 1 \in DOMAIN q
                                      /\ Tail(q)[i] = q[i + 1]
<1>1. Tail(q) \in Seq(S) /\ Len(Tail(q)) = Len(q) - 1 /\ Len(q) \in Nat /\ Len(q) > 0
  BY HeadTailProperties
<1>2. Head(q) \in S /\ Head(q) = q[1] /\ 1 \in DOMAIN q
  BY <1>1
<1>3. ASSUME NEW i \in DOMAIN Tail(q)
      PROVE  i \in 1 .. Len(q) - 1 /\ i + 1 \in DOMAIN q /\ Tail(q)[i] = q[i + 1]
  <2>1. i \in 1 .. Len(q) - 1
    BY <1>1
  <2> QED
    BY <2>1, <1>1
<1> QED
  BY <1>1, <1>2, <1>3

LEMMA Changed ==
  ASSUME NEW S, NEW q \in Seq(S), NEW i, NEW e, i \in DOMAIN q => e \in S
  PROVE  [q EXCEPT ![i] = e] \in Seq(S) /\ Len([q EXCEPT ![i] = e]) = Len(q)
<1>1. /\ [q EXCEPT ![i] = e] = [j \in 1 .. Len(q) |-> IF j = i THEN e ELSE q[j]]
      /\ Len(q) \in Nat
  OBVIOUS
<1>2. PICK r : r = [j \in 1 .. Len(q) |-> IF j = i THEN e ELSE q[j]]
  OBVIOUS
<1>3. \A j \in 1 .. Len(q) : (IF j = i THEN e ELSE q[j]) \in S
  OBVIOUS
<1>4. r \in [1 .. Len(q) -> S]
  BY <1>2, <1>3
<1>5. r \in Seq(S) /\ Len(r) = Len(q)
  BY <1>1, <1>2, <1>4
<1> QED
  BY <1>1, <1>2, <1>5

LEMMA Mapped ==
  ASSUME NEW S, NEW q \in Seq(S), NEW r, DOMAIN r = DOMAIN q,
         r = [i \in DOMAIN q |-> r[i]], \A i \in DOMAIN q : r[i] \in S
  PROVE  r \in Seq(S) /\ Len(r) = Len(q)
<1>1. DOMAIN q = 1 .. Len(q) /\ Len(q) \in Nat
  OBVIOUS
<1>2. r \in [1 .. Len(q) -> S]
  BY <1>1
<1> QED
  BY <1>1, <1>2

-----------------------------------------------------------------------------
(* Types of what the helpers compute *)

LEMMA SaveResultsOK ==
  ASSUME TypeOK, NEW s \in Servers, NEW kind, NEW line \in Lines,
         NEW r \in SaveResults(s, kind, line)
  PROVE  r.file \in Seq(Lines) /\ r.result \in {"WROTE", "UNKNOWN", "ERROR"}
<1>1. file[s] \in Seq(Lines)
  BY DEF TypeOK
<1>2. Append(file[s], line) \in Seq(Lines)
  BY <1>1
<1>3. \A i : [file[s] EXCEPT ![i] = line] \in Seq(Lines)
  BY <1>1, Changed
<1> QED
  BY <1>1, <1>2, <1>3 DEF SaveResults

\* A multicast: one more message for every peer of s, and nothing for the others.
LEMMA SentOK ==
  ASSUME TypeOK, NEW s \in Servers,
         NEW kind \in {"PRECOMMIT", "ABORT", "COMMIT", "END"}, NEW line \in Lines
  PROVE  LET e == [kind |-> kind, line |-> line] IN
         /\ e \in Orders
         /\ Sent(s, kind, line) \in [Pairs -> Seq(Orders)]
         /\ \A p \in Pairs : p[1] = s  => Sent(s, kind, line)[p] = Append(toSlave[p], e)
         /\ \A p \in Pairs : p[1] # s => Sent(s, kind, line)[p] = toSlave[p]
<1> DEFINE e == [kind |-> kind, line |-> line]
<1>1. e \in Orders
  BY DEF Orders
<1>2. \A p \in Pairs : toSlave[p] \in Seq(Orders) /\ Append(toSlave[p], e) \in Seq(Orders)
  BY <1>1, Appends DEF TypeOK
<1> HIDE DEF e
<1>3. Sent(s, kind, line)
        = [p \in Pairs |-> IF p[1] = s THEN Append(toSlave[p], e) ELSE toSlave[p]]
  BY DEF Sent, e
<1>4. \A p \in Pairs : Sent(s, kind, line)[p]
        = IF p[1] = s THEN Append(toSlave[p], e) ELSE toSlave[p]
  BY <1>3
<1>5. Sent(s, kind, line) \in [Pairs -> Seq(Orders)]
  BY <1>2, <1>3
<1> QED
  BY <1>1, <1>4, <1>5 DEF e

LEMMA NoLineOK == NoLine \in Lines
BY ClusterConstantsOK DEF NoLine, NoNum, Lines, ClusterConstantsOK

-----------------------------------------------------------------------------
(* The log *)

\* The log only grows, and what was issued stays so.
LogTyped ==
  /\ log' \in Seq(Commands) /\ Len(log) \in Nat
  /\ Len(log) <= Len(log') /\ Len(log') <= MaxCmds

LEMMA SameLog ==
  ASSUME TypeOK, UNCHANGED log
  PROVE  LogTyped
BY DEF TypeOK, LogTyped

LEMMA AnswerOK ==
  ASSUME TypeOK, NEW s \in Servers, NEW v \in {"ERROR", "UNKNOWN", "gone"}, Answer(s, v)
  PROVE  /\ LogTyped /\ Len(log') = Len(log) /\ DOMAIN log' = DOMAIN log
         /\ \A c \in DOMAIN log : log'[c] =
              IF log[c].by = s /\ log[c].answer = "none" THEN [log[c] EXCEPT !.answer = v]
                                                         ELSE log[c]
<1>1. log \in Seq(Commands)
  BY DEF TypeOK
<1>2. \A c \in DOMAIN log : log[c] \in Commands
  BY <1>1
<1>3. \A x \in Commands : [x EXCEPT !.answer = v] \in Commands
  BY DEF Commands
<1>4. /\ log' = [c \in DOMAIN log |-> IF log[c].by = s /\ log[c].answer = "none"
                                      THEN [log[c] EXCEPT !.answer = v] ELSE log[c]]
  BY DEF Answer
<1>5. DOMAIN log' = DOMAIN log /\ log' = [c \in DOMAIN log |-> log'[c]]
  BY <1>4
<1>6. \A c \in DOMAIN log : log'[c] =
        IF log[c].by = s /\ log[c].answer = "none" THEN [log[c] EXCEPT !.answer = v]
                                                   ELSE log[c]
  BY <1>4
<1>7. \A c \in DOMAIN log : log'[c] \in Commands
  BY <1>2, <1>3, <1>6
<1>8. log' \in Seq(Commands) /\ Len(log') = Len(log)
  BY <1>1, <1>5, <1>7, Mapped
<1> QED
  BY <1>1, <1>5, <1>6, <1>8 DEF LogTyped, TypeOK

LEMMA LogEntryChanged ==
  ASSUME TypeOK, NEW c, NEW x, c \in DOMAIN log => x \in Commands,
         log' = [log EXCEPT ![c] = x]
  PROVE  /\ LogTyped /\ Len(log') = Len(log) /\ DOMAIN log' = DOMAIN log
         /\ \A d \in DOMAIN log : log'[d] = IF d = c THEN x ELSE log[d]
<1>1. log \in Seq(Commands) /\ Len(log) \in Nat /\ Len(log) <= MaxCmds
  BY DEF TypeOK
<1>2. log' \in Seq(Commands) /\ Len(log') = Len(log)
  BY <1>1, Changed
<1>3. DOMAIN log' = DOMAIN log
  OBVIOUS
<1>4. \A d \in DOMAIN log : log'[d] = IF d = c THEN x ELSE log[d]
  OBVIOUS
<1> QED
  BY <1>1, <1>2, <1>3, <1>4 DEF LogTyped

LEMMA IssuedStays ==
  ASSUME TypeOK, LogTyped, NEW l \in Lines, Issued(l, Len(log))
  PROVE  Issued(l, Len(log'))
<1>1. l.num \in Nat /\ l.text \in Nat /\ Earlier \in Nat
  BY ClusterConstantsOK DEF Lines, Nums, NoNum
<1>2. Len(log) \in Nat /\ Len(log') \in Nat /\ Len(log) <= Len(log')
  BY DEF LogTyped
<1> QED
  BY <1>1, <1>2 DEF Issued

\* Messages that were under way, with one more: what they say was issued.
LEMMA NoLineIssued == ASSUME TypeOK PROVE Issued(NoLine, Len(log))
<1>1. Len(log) \in Nat /\ Earlier \in Nat
  BY ClusterConstantsOK DEF TypeOK
<1> QED
  BY <1>1 DEF Issued, NoLine, NoNum

LEMMA UnderWay ==
  ASSUME TypeOK
  PROVE  \A p \in Pairs : \A i \in DOMAIN toSlave[p] :
           /\ toSlave[p][i] \in Orders /\ toSlave[p][i].line \in Lines
           /\ Issued(toSlave[p][i].line, Len(log))
<1>1. \A p \in Pairs : toSlave[p] \in Seq(Orders)
  BY DEF TypeOK
<1>2. \A p \in Pairs : \A i \in DOMAIN toSlave[p] : toSlave[p][i] \in Orders
  BY <1>1
<1>3. \A e \in Orders : e.line \in Lines
  BY DEF Orders
<1>4. \A p \in Pairs : \A i \in DOMAIN toSlave[p] : Issued(toSlave[p][i].line, Len(log))
  BY DEF TypeOK
<1> QED
  BY <1>2, <1>3, <1>4

LEMMA MulticastOK ==
  ASSUME TypeOK, LogTyped, NEW s \in Servers,
         NEW kind \in {"PRECOMMIT", "ABORT", "COMMIT", "END"}, NEW line \in Lines,
         Issued(line, Len(log)), Multicast(s, kind, line)
  PROVE  /\ toSlave' \in [Pairs -> Seq(Orders)]
         /\ \A p \in Pairs : \A i \in DOMAIN toSlave'[p] : Issued(toSlave'[p][i].line, Len(log'))
<1> DEFINE e == [kind |-> kind, line |-> line]
<1>1. /\ e \in Orders /\ e.line = line
      /\ toSlave' \in [Pairs -> Seq(Orders)]
      /\ \A p \in Pairs : p[1] = s  => toSlave'[p] = Append(toSlave[p], e)
      /\ \A p \in Pairs : p[1] # s => toSlave'[p] = toSlave[p]
  BY SentOK DEF Multicast
<1> HIDE DEF e
<1>2. \A p \in Pairs : toSlave[p] \in Seq(Orders)
  BY DEF TypeOK
<1>3. \A p \in Pairs : \A i \in DOMAIN toSlave[p] : Issued(toSlave[p][i].line, Len(log'))
  BY UnderWay, IssuedStays
<1>4. ASSUME NEW p \in Pairs, NEW i \in DOMAIN toSlave'[p]
      PROVE  Issued(toSlave'[p][i].line, Len(log'))
  <2>1. Issued(line, Len(log'))
    BY IssuedStays
  <2>2. CASE p[1] = s
    <3>1. toSlave'[p] = Append(toSlave[p], e)
      BY <2>2, <1>1
    <3>2. toSlave'[p][i] = e \/ (i \in DOMAIN toSlave[p] /\ toSlave'[p][i] = toSlave[p][i])
      BY <3>1, <1>1, <1>2, Appends
    <3> QED
      BY <3>2, <2>1, <1>1, <1>3
  <2>3. CASE p[1] # s
    BY <2>3, <1>1, <1>3
  <2> QED
    BY <2>2, <2>3
<1> QED
  BY <1>1, <1>4

LEMMA SameToSlave ==
  ASSUME TypeOK, LogTyped, UNCHANGED toSlave
  PROVE  /\ toSlave' \in [Pairs -> Seq(Orders)]
         /\ \A p \in Pairs : \A i \in DOMAIN toSlave'[p] : Issued(toSlave'[p][i].line, Len(log'))
<1>1. \A p \in Pairs : \A i \in DOMAIN toSlave[p] : Issued(toSlave[p][i].line, Len(log'))
  BY UnderWay, IssuedStays
<1> QED
  BY <1>1 DEF TypeOK

LEMMA ArrivesOK ==
  ASSUME TypeOK, LogTyped, NEW m, NEW s, NEW kinds, Arrives(m, s, kinds)
  PROVE  /\ m \in Servers /\ s \in Servers /\ m # s /\ <<m, s>> \in Pairs
         /\ Head(toSlave[<<m, s>>]) \in Orders /\ Head(toSlave[<<m, s>>]) = toSlave[<<m, s>>][1]
         /\ Issued(Head(toSlave[<<m, s>>]).line, Len(log))
         /\ toSlave' \in [Pairs -> Seq(Orders)]
         /\ \A p \in Pairs : \A i \in DOMAIN toSlave'[p] : Issued(toSlave'[p][i].line, Len(log'))
<1>1. <<m, s>> \in Pairs /\ toSlave[<<m, s>>] # <<>>
  BY DEF Arrives
<1>2. m \in Servers /\ s \in Servers /\ m # s
  BY <1>1 DEF Pairs
<1>3. toSlave[<<m, s>>] \in Seq(Orders)
  BY <1>1 DEF TypeOK
<1>4. /\ Head(toSlave[<<m, s>>]) \in Orders /\ Tail(toSlave[<<m, s>>]) \in Seq(Orders)
      /\ Head(toSlave[<<m, s>>]) = toSlave[<<m, s>>][1] /\ 1 \in DOMAIN toSlave[<<m, s>>]
  BY <1>1, <1>3, Tails
<1>5. Issued(Head(toSlave[<<m, s>>]).line, Len(log))
  BY <1>1, <1>4 DEF TypeOK
<1>6. /\ toSlave' \in [Pairs -> Seq(Orders)]
      /\ toSlave'[<<m, s>>] = Tail(toSlave[<<m, s>>])
      /\ \A p \in Pairs : p # <<m, s>> => toSlave'[p] = toSlave[p]
  BY <1>1, <1>4 DEF Arrives, TypeOK
<1>7. \A p \in Pairs : \A i \in DOMAIN toSlave[p] : Issued(toSlave[p][i].line, Len(log'))
  BY UnderWay, IssuedStays
<1>8. ASSUME NEW p \in Pairs, NEW i \in DOMAIN toSlave'[p]
      PROVE  Issued(toSlave'[p][i].line, Len(log'))
  <2>1. CASE p = <<m, s>>
    <3>1. i + 1 \in DOMAIN toSlave[<<m, s>>] /\ toSlave'[p][i] = toSlave[<<m, s>>][i + 1]
      BY <2>1, <1>1, <1>3, <1>6, Tails
    <3> QED
      BY <3>1, <1>1, <1>7
  <2>2. CASE p # <<m, s>>
    BY <2>2, <1>6, <1>7
  <2> QED
    BY <2>1, <2>2
<1> QED
  BY <1>1, <1>2, <1>4, <1>5, <1>6, <1>8

-----------------------------------------------------------------------------
(* Types of the other variables *)

LEMMA TakesOK ==
  ASSUME TypeOK, NEW s \in Servers, NEW type, Takes(s, type)
  PROVE  /\ queue[s] \in Seq(Events) /\ queue[s] # <<>> /\ Head(queue[s]) \in Events
         /\ queue' \in [Servers -> Seq(Events)]
         /\ queue'[s] = Tail(queue[s]) /\ \A t \in Servers : t # s => queue'[t] = queue[t]
<1>1. queue[s] \in Seq(Events) /\ queue[s] # <<>>
  BY DEF TypeOK, Takes
<1>2. Head(queue[s]) \in Events /\ Tail(queue[s]) \in Seq(Events)
  BY <1>1, Tails
<1> QED
  BY <1>1, <1>2 DEF TypeOK, Takes

LEMMA PostOK ==
  ASSUME TypeOK, NEW s \in Servers, NEW e \in Events,
         queue' = [queue EXCEPT ![s] = Append(@, e)]
  PROVE  /\ queue[s] \in Seq(Events) /\ queue' \in [Servers -> Seq(Events)]
         /\ queue'[s] = Append(queue[s], e)
         /\ \A t \in Servers : t # s => queue'[t] = queue[t]
<1>1. queue[s] \in Seq(Events)
  BY DEF TypeOK
<1>2. Append(queue[s], e) \in Seq(Events)
  BY <1>1, Appends
<1> QED
  BY <1>1, <1>2 DEF TypeOK

LEMMA AllAtOK ==
  ASSUME TypeOK, NEW s \in Servers, NEW st \in States,
         master' = [master EXCEPT ![s] = AllAt(@, st)]
  PROVE  /\ DOMAIN master' = Servers /\ \A t \in Servers : master'[t] \in SyncLists(t)
         /\ master'[s].srv = [p \in Others(s) |-> st] /\ master'[s].state = st
         /\ \A t \in Servers : t # s => master'[t] = master[t]
<1>1. /\ DOMAIN master = Servers /\ \A t \in Servers : master[t] \in SyncLists(t)
  BY DEF TypeOK
<1>2. DOMAIN master[s].srv = Others(s) /\ master[s].timer \in BOOLEAN
  BY <1>1 DEF SyncLists
<1>3. PICK a : a = AllAt(master[s], st)
  OBVIOUS
<1>4. a = [srv |-> [p \in Others(s) |-> st], state |-> st,
           timer |-> (st \in {"M_PRECOMMIT_MULTICASTED", "M_COMMITED"} \/ master[s].timer)]
  BY <1>2, <1>3 DEF AllAt
<1>5. a \in SyncLists(s) /\ a.srv = [p \in Others(s) |-> st] /\ a.state = st
  <2>1. [p \in Others(s) |-> st] \in [Others(s) -> States]
    OBVIOUS
  <2>2. (st \in {"M_PRECOMMIT_MULTICASTED", "M_COMMITED"} \/ master[s].timer) \in BOOLEAN
    OBVIOUS
  <2> QED
    BY <2>1, <2>2, <1>4 DEF SyncLists
<1>6. master'[s] = a /\ DOMAIN master' = Servers
  BY <1>1, <1>3
<1>7. \A t \in Servers : t # s => master'[t] = master[t]
  BY <1>1
<1> QED
  BY <1>1, <1>5, <1>6, <1>7

LEMMA BecomesOK ==
  ASSUME TypeOK, NEW s \in Servers, NEW m \in Servers, m # s, NEW st \in SlaveStates,
         Becomes(m, s, st)
  PROVE  /\ DOMAIN slave' = Servers /\ \A t \in Servers : slave'[t] \in [Others(t) -> SlaveStates]
         /\ slave'[s][m] = st
         /\ \A t \in Servers, k \in Servers : k # t /\ (t # s \/ k # m) => slave'[t][k] = slave[t][k]
<1>1. DOMAIN slave = Servers /\ \A t \in Servers : slave[t] \in [Others(t) -> SlaveStates]
  BY DEF TypeOK
<1>2. PICK f : f = [slave[s] EXCEPT ![m] = st]
  OBVIOUS
<1>3. m \in Others(s)
  BY DEF Others
<1>4. f \in [Others(s) -> SlaveStates] /\ f[m] = st
  BY <1>1, <1>2, <1>3
<1>5. \A k \in Others(s) : k # m => f[k] = slave[s][k]
  BY <1>1, <1>2, <1>3
<1>6. slave' = [slave EXCEPT ![s] = f]
  BY <1>2 DEF Becomes
<1>7. DOMAIN slave' = Servers /\ slave'[s] = f /\ \A t \in Servers : t # s => slave'[t] = slave[t]
  BY <1>1, <1>6
<1> QED
  BY <1>1, <1>4, <1>5, <1>7 DEF Others

LEMMA TellOK ==
  ASSUME TypeOK, NEW m, NEW s, <<m, s>> \in Pairs,
         NEW kind \in {"ACK", "SUCCESS", "UNSUCCESS", "UNKNOWN"}, NEW num \in {NoNum} \cup Nums,
         Tell(m, s, kind, num)
  PROVE  LET e == [kind |-> kind, num |-> num] IN
         /\ e \in Answers /\ toMaster' \in [Pairs -> Seq(Answers)]
         /\ toMaster[<<m, s>>] \in Seq(Answers)
         /\ toMaster'[<<m, s>>] = Append(toMaster[<<m, s>>], e)
         /\ \A p \in Pairs : p # <<m, s>> => toMaster'[p] = toMaster[p]
<1>1. PICK e \in Answers : e = [kind |-> kind, num |-> num]
  BY DEF Answers
<1>2. toMaster[<<m, s>>] \in Seq(Answers)
  BY DEF TypeOK
<1>3. Append(toMaster[<<m, s>>], e) \in Seq(Answers)
  BY <1>2, Appends
<1>4. toMaster' = [toMaster EXCEPT ![<<m, s>>] = Append(@, e)]
  BY <1>1 DEF Tell
<1>5. toMaster \in [Pairs -> Seq(Answers)]
  BY DEF TypeOK
<1>6. /\ toMaster' \in [Pairs -> Seq(Answers)]
      /\ toMaster'[<<m, s>>] = Append(toMaster[<<m, s>>], e)
      /\ \A p \in Pairs : p # <<m, s>> => toMaster'[p] = toMaster[p]
  BY <1>3, <1>4, <1>5
<1> QED
  BY <1>1, <1>2, <1>6

LEMMA UserIdleOK ==
  ASSUME TypeOK, LogTyped, NEW s \in Servers, user' = [user EXCEPT ![s] = NoCmd]
  PROVE  /\ user' \in [Servers -> Users] /\ user'[s] = NoCmd
         /\ \A t \in Servers : t # s => user'[t] = user[t]
         /\ \A t \in Servers : Issued(user'[t].line, Len(log'))
<1>1. NoCmd \in Users /\ NoCmd.line = NoLine
  BY NoLineOK DEF NoCmd, Users
<1>2. user \in [Servers -> Users]
  BY DEF TypeOK
<1>3. /\ user' \in [Servers -> Users] /\ user'[s] = NoCmd
      /\ \A t \in Servers : t # s => user'[t] = user[t]
  BY <1>1, <1>2
<1>4. Issued(NoLine, Len(log'))
  BY NoLineOK, NoLineIssued, IssuedStays
<1>5. \A t \in Servers : user[t].line \in Lines /\ Issued(user[t].line, Len(log))
  BY <1>2 DEF Users, TypeOK
<1>6. \A t \in Servers : Issued(user[t].line, Len(log'))
  BY <1>5, IssuedStays
<1> QED
  BY <1>1, <1>3, <1>4, <1>6

LEMMA SameUser ==
  ASSUME TypeOK, LogTyped, UNCHANGED user
  PROVE  /\ user' \in [Servers -> Users]
         /\ \A t \in Servers : Issued(user'[t].line, Len(log'))
<1>1. user \in [Servers -> Users]
  BY DEF TypeOK
<1>2. \A t \in Servers : user[t].line \in Lines /\ Issued(user[t].line, Len(log))
  BY <1>1 DEF Users, TypeOK
<1>3. \A t \in Servers : Issued(user[t].line, Len(log'))
  BY <1>2, IssuedStays
<1> QED
  BY <1>1, <1>3

-----------------------------------------------------------------------------
(* Every action preserves the type invariant *)

LEMMA LogLength ==
  ASSUME TypeOK
  PROVE  /\ Len(log) \in Nat /\ Len(log) <= MaxCmds /\ log \in Seq(Commands)
         /\ DOMAIN log = 1 .. Len(log) /\ \A c \in DOMAIN log : log[c] \in Commands
         /\ Earlier \in Nat /\ MaxCmds \in Nat /\ MaxBreaks \in Nat
<1>1. log \in Seq(Commands) /\ Len(log) <= MaxCmds
  BY DEF TypeOK
<1>2. Len(log) \in Nat /\ DOMAIN log = 1 .. Len(log) /\ \A c \in DOMAIN log : log[c] \in Commands
  BY <1>1
<1> QED
  BY <1>1, <1>2, ClusterConstantsOK DEF ClusterConstantsOK

LEMMA CommandTypes ==
  ASSUME TypeOK, NEW s \in Servers, NEW kind \in {"WRITE", "REPLACE"}, NEW num \in Nums,
         num <= Earlier + Len(log) + 1, Command(s, kind, num),
         msgNumber' \in [Servers -> 0 .. Earlier + Len(log) + 1]
  PROVE  /\ TypeOK' /\ Len(log') = Len(log) + 1
         /\ log' = Append(log, [by |-> s, kind |-> kind, num |-> num, answer |-> "none",
                                committed |-> FALSE, saved |-> {}])
         /\ user'[s] = [state |-> "U_WAITING_COMMIT", kind |-> kind,
                        line |-> [num |-> num, text |-> Len(log) + 1]]
         /\ \A t \in Servers : t # s => user'[t] = user[t]
<1>1. /\ Len(log) \in Nat /\ log \in Seq(Commands) /\ Earlier \in Nat /\ MaxCmds \in Nat
      /\ Len(log) < MaxCmds
  BY LogLength DEF Command, InBounds
<1>2. PICK e : e = [by |-> s, kind |-> kind, num |-> num, answer |-> "none",
                    committed |-> FALSE, saved |-> {}]
  OBVIOUS
<1>3. e \in Commands
  BY <1>2 DEF Commands
<1>4. log' = Append(log, e)
  BY <1>2 DEF Command
<1>5. log' \in Seq(Commands) /\ Len(log') = Len(log) + 1
  BY <1>1, <1>3, <1>4, Appends
<1>6. LogTyped
  BY <1>1, <1>5 DEF LogTyped
<1>7. PICK l : l = [num |-> num, text |-> Len(log) + 1]
  OBVIOUS
<1>8. l \in Lines /\ Issued(l, Len(log'))
  <2>1. num \in Nat
    BY <1>1 DEF Nums
  <2>2. num <= Earlier + Len(log') /\ Len(log) + 1 <= Len(log') /\ Len(log) + 1 \in 0 .. MaxCmds
    BY <1>1, <1>5, <2>1
  <2> QED
    BY <1>7, <2>2 DEF Lines, Issued
<1>9. PICK u : u = [state |-> "U_WAITING_COMMIT", kind |-> kind, line |-> l]
  OBVIOUS
<1>10. u \in Users /\ u.line = l
  BY <1>8, <1>9 DEF Users
<1>11. user' = [user EXCEPT ![s] = u] /\ user \in [Servers -> Users]
  BY <1>7, <1>9 DEF Command, TypeOK
<1>12. /\ user' \in [Servers -> Users] /\ user'[s] = u
       /\ \A t \in Servers : t # s => user'[t] = user[t]
  BY <1>10, <1>11
<1>13. \A t \in Servers : Issued(user'[t].line, Len(log'))
  <2>1. \A t \in Servers : user[t].line \in Lines /\ Issued(user[t].line, Len(log))
    BY <1>11 DEF Users, TypeOK
  <2>2. \A t \in Servers : Issued(user[t].line, Len(log'))
    BY <2>1, <1>6, IssuedStays
  <2> QED
    BY <2>2, <1>8, <1>10, <1>12
<1>14. /\ toSlave' \in [Pairs -> Seq(Orders)]
       /\ \A p \in Pairs : \A i \in DOMAIN toSlave'[p] : Issued(toSlave'[p][i].line, Len(log'))
  <2>1. NoLine \in Lines /\ Issued(NoLine, Len(log)) /\ Multicast(s, "PRECOMMIT", NoLine)
    BY NoLineOK, NoLineIssued DEF Command
  <2> QED
    BY <2>1, <1>6, MulticastOK
<1>15. DOMAIN master' = Servers /\ \A t \in Servers : master'[t] \in SyncLists(t)
  <2>1. master' = [master EXCEPT ![s] = AllAt(@, "M_PRECOMMIT_MULTICASTED")]
    BY DEF Command
  <2>2. "M_PRECOMMIT_MULTICASTED" \in States
    BY DEF States
  <2> QED
    BY <2>1, <2>2, AllAtOK
<1>16. msgNumber' \in [Servers -> 0 .. Earlier + Len(log')]
  BY <1>1, <1>5
<1>17. crowded' \in BOOLEAN
  BY DEF Command, TypeOK
<1>18. UNCHANGED <<file, slave, slaveTimer, queue, toMaster, spins, breaks>>
  BY DEF Command, slaveVars
<1>19. TypeOK'
  BY <1>1, <1>5, <1>12, <1>13, <1>14, <1>15, <1>16, <1>17, <1>18 DEF TypeOK
<1> QED
  BY <1>2, <1>4, <1>5, <1>7, <1>9, <1>12, <1>19

\* A number of the instance is below INT_MAX, so no counter returns to 1.
LEMMA NotWrapped ==
  ASSUME NEW n \in 0 .. Earlier + MaxCmds
  PROVE  Wrapped(n) = n
BY ClusterConstantsOK, IntMaxOK DEF Wrapped, ClusterConstantsOK, IntMaxOK

LEMMA WriteCommand ==
  ASSUME TypeOK, NEW s \in Servers, Write(s)
  PROVE  /\ msgNumber[s] \in Nat /\ msgNumber'[s] = msgNumber[s] + 1
         /\ \A t \in Servers : t # s => msgNumber'[t] = msgNumber[t]
         /\ msgNumber'[s] \in Nums /\ msgNumber'[s] <= Earlier + Len(log) + 1
         /\ msgNumber' \in [Servers -> 0 .. Earlier + Len(log) + 1]
         /\ Command(s, "WRITE", msgNumber'[s])
<1>1. Len(log) \in Nat /\ Earlier \in Nat /\ MaxCmds \in Nat /\ Len(log) < MaxCmds
  BY LogLength DEF Write, Command, InBounds
<1>2. msgNumber \in [Servers -> 0 .. Earlier + Len(log)]
  BY DEF TypeOK
<1>3. /\ msgNumber' = [msgNumber EXCEPT ![s] = Wrapped(msgNumber[s] + 1)]
      /\ Command(s, "WRITE", msgNumber'[s])
  BY DEF Write
<1>8. Wrapped(msgNumber[s] + 1) = msgNumber[s] + 1
  <2>1. msgNumber[s] + 1 \in 0 .. Earlier + MaxCmds
    BY <1>1, <1>2
  <2> QED
    BY <2>1, NotWrapped
<1>4. msgNumber'[s] = msgNumber[s] + 1 /\ \A t \in Servers : t # s => msgNumber'[t] = msgNumber[t]
  BY <1>2, <1>3, <1>8
<1>5. PICK k \in Nat : k = msgNumber[s] /\ k <= Earlier + Len(log)
  BY <1>1, <1>2
<1>6. k + 1 \in Nums /\ k + 1 <= Earlier + Len(log) + 1
  BY <1>1, <1>5 DEF Nums
<1>7. msgNumber' \in [Servers -> 0 .. Earlier + Len(log) + 1]
  <2>1. \A t \in Servers : msgNumber[t] \in 0 .. Earlier + Len(log) + 1
    BY <1>1, <1>2
  <2> QED
    BY <2>1, <1>1, <1>2, <1>3, <1>5, <1>6, <1>8
<1> QED
  BY <1>3, <1>4, <1>5, <1>6, <1>7

LEMMA ReplaceCommand ==
  ASSUME TypeOK, NEW s \in Servers, NEW num \in 1 .. Earlier + 1, Replace(s, num)
  PROVE  /\ num \in Nums /\ num <= Earlier + Len(log) + 1
         /\ msgNumber' \in [Servers -> 0 .. Earlier + Len(log) + 1]
         /\ Command(s, "REPLACE", num) /\ UNCHANGED msgNumber
<1>1. Len(log) \in Nat /\ Earlier \in Nat /\ MaxCmds \in Nat /\ Len(log) < MaxCmds
  BY LogLength DEF Replace, Command, InBounds
<1>2. msgNumber \in [Servers -> 0 .. Earlier + Len(log)] /\ UNCHANGED msgNumber
  BY DEF TypeOK, Replace
<1>3. \A t \in Servers : msgNumber[t] \in 0 .. Earlier + Len(log) + 1
  BY <1>1, <1>2
<1> QED
  BY <1>1, <1>2, <1>3 DEF Nums, Replace

LEMMA WriteTypes == ASSUME TypeOK, NEW s \in Servers, Write(s) PROVE TypeOK'
<1>1. /\ msgNumber'[s] \in Nums /\ msgNumber'[s] <= Earlier + Len(log) + 1
      /\ msgNumber' \in [Servers -> 0 .. Earlier + Len(log) + 1]
      /\ Command(s, "WRITE", msgNumber'[s])
  BY WriteCommand
<1> QED
  BY <1>1, CommandTypes

LEMMA ReplaceTypes ==
  ASSUME TypeOK, NEW s \in Servers, NEW num \in 1 .. Earlier + 1, Replace(s, num)
  PROVE  TypeOK'
BY ReplaceCommand, CommandTypes

LEMMA LeaveTypes == ASSUME TypeOK, NEW s \in Servers, Leave(s) PROVE TypeOK'
<1>1. LogTyped /\ Len(log') = Len(log) /\ log' \in Seq(Commands) /\ Len(log') <= MaxCmds
  BY AnswerOK DEF Leave, LogTyped
<1>2. /\ user' \in [Servers -> Users] /\ \A t \in Servers : Issued(user'[t].line, Len(log'))
  BY <1>1, UserIdleOK DEF Leave
<1>3. UNCHANGED <<msgNumber, file, master, slave, slaveTimer, queue, toSlave, toMaster, spins,
                  crowded>>
  BY DEF Leave, slaveVars
<1>4. breaks' \in 0 .. MaxBreaks
  BY LogLength DEF Leave, TypeOK
<1> QED
  BY <1>1, <1>2, <1>3, <1>4 DEF TypeOK

LEMMA PrecommitTypes == ASSUME TypeOK, NEW m, NEW s, Precommit(m, s) PROVE TypeOK'
<1>1. LogTyped /\ UNCHANGED log
  BY SameLog DEF Precommit, masterVars
<1>2. /\ m \in Servers /\ s \in Servers /\ m # s /\ <<m, s>> \in Pairs
      /\ toSlave' \in [Pairs -> Seq(Orders)]
      /\ \A p \in Pairs : \A i \in DOMAIN toSlave'[p] : Issued(toSlave'[p][i].line, Len(log'))
  BY <1>1, ArrivesOK DEF Precommit
<1>3. DOMAIN slave' = Servers /\ \A t \in Servers : slave'[t] \in [Others(t) -> SlaveStates]
  BY <1>2, BecomesOK DEF Precommit, SlaveStates
<1>4. toMaster' \in [Pairs -> Seq(Answers)]
  BY <1>2, TellOK DEF Precommit
<1>5. slaveTimer' \in [Servers -> BOOLEAN]
  BY DEF Precommit, TypeOK
<1>6. UNCHANGED <<msgNumber, file, user, master, queue, spins, crowded, breaks>>
  BY DEF Precommit, masterVars
<1> QED
  BY <1>1, <1>2, <1>3, <1>4, <1>5, <1>6 DEF TypeOK

LEMMA AbortOrEndTypes == ASSUME TypeOK, NEW m, NEW s, AbortOrEnd(m, s) PROVE TypeOK'
<1>1. LogTyped /\ UNCHANGED log
  BY SameLog DEF AbortOrEnd, masterVars
<1>2. /\ m \in Servers /\ s \in Servers /\ m # s
      /\ toSlave' \in [Pairs -> Seq(Orders)]
      /\ \A p \in Pairs : \A i \in DOMAIN toSlave'[p] : Issued(toSlave'[p][i].line, Len(log'))
  BY <1>1, ArrivesOK DEF AbortOrEnd
<1>3. DOMAIN slave' = Servers /\ \A t \in Servers : slave'[t] \in [Others(t) -> SlaveStates]
  BY <1>2, BecomesOK DEF AbortOrEnd, SlaveStates
<1>4. UNCHANGED <<msgNumber, file, user, master, slaveTimer, queue, toMaster, spins, crowded, breaks>>
  BY DEF AbortOrEnd, masterVars
<1> QED
  BY <1>1, <1>2, <1>3, <1>4 DEF TypeOK

LEMMA CommitRefusedTypes == ASSUME TypeOK, NEW m, NEW s, CommitRefused(m, s) PROVE TypeOK'
<1>1. LogTyped /\ UNCHANGED log
  BY SameLog DEF CommitRefused, masterVars
<1>2. /\ toSlave' \in [Pairs -> Seq(Orders)]
      /\ \A p \in Pairs : \A i \in DOMAIN toSlave'[p] : Issued(toSlave'[p][i].line, Len(log'))
  BY <1>1, ArrivesOK DEF CommitRefused
<1>3. UNCHANGED <<msgNumber, file, user, master, slave, slaveTimer, queue, toMaster, spins,
                  crowded, breaks>>
  BY DEF CommitRefused, masterVars, slaveVars
<1> QED
  BY <1>1, <1>2, <1>3 DEF TypeOK

LEMMA SavedByOK ==
  ASSUME TypeOK, NEW s \in Servers, NEW c, SavedBy(s, c)
  PROVE  /\ LogTyped /\ Len(log') = Len(log) /\ DOMAIN log' = DOMAIN log
         /\ \A d \in DOMAIN log : log'[d] = IF d = c THEN [log[d] EXCEPT !.saved = @ \cup {s}]
                                                    ELSE log[d]
<1>1. PICK x : x = [log[c] EXCEPT !.saved = @ \cup {s}]
  OBVIOUS
<1>2. log' = [log EXCEPT ![c] = x]
  BY <1>1 DEF SavedBy
<1>3. c \in DOMAIN log => x \in Commands
  <2>1. \A y \in Commands : [y EXCEPT !.saved = @ \cup {s}] \in Commands
    BY DEF Commands
  <2> QED
    BY <2>1, <1>1, LogLength
<1> QED
  BY <1>1, <1>2, <1>3, LogEntryChanged

\* What a COMMIT that is not refused does to the log and to the answers.
LEMMA CommitOK ==
  ASSUME TypeOK, NEW m, NEW s, Commit(m, s)
  PROVE  LET line == Head(toSlave[<<m, s>>]).line
             kind == log[line.text].kind
         IN
         /\ line \in Lines /\ LogTyped
         /\ msgNumber' = [msgNumber EXCEPT ![s] = Updated(@, kind, line.num)]
         /\ \E r \in SaveResults(s, kind, line) :
              /\ file' = [file EXCEPT ![s] = r.file]
              /\ IF r.result = "WROTE" THEN SavedBy(s, line.text) ELSE UNCHANGED log
              /\ \E k \in {"SUCCESS", "UNSUCCESS", "UNKNOWN"} :
                   /\ Tell(m, s, k, line.num)
                   /\ k = "SUCCESS" <=> r.result = "WROTE"
<1>1. PICK line, kind : /\ line = Head(toSlave[<<m, s>>]).line /\ kind = log[line.text].kind
  OBVIOUS
<1>2. Arrives(m, s, {"COMMIT"})
  BY DEF Commit
<1>3. m \in Servers /\ s \in Servers /\ line \in Lines
  <2>1. PICK p \in Pairs : p = <<m, s>> /\ toSlave[p] # <<>>
    BY <1>2 DEF Arrives
  <2>2. toSlave[p] \in Seq(Orders)
    BY DEF TypeOK
  <2>3. Head(toSlave[p]) \in Orders
    BY <2>1, <2>2, Tails
  <2> QED
    BY <2>1, <2>3, <1>1 DEF Pairs, Orders
<1>4. PICK r \in SaveResults(s, kind, line) :
        /\ file' = [file EXCEPT ![s] = r.file]
        /\ IF r.result = "WROTE" THEN SavedBy(s, line.text) ELSE UNCHANGED log
        /\ Tell(m, s, CASE r.result = "WROTE" -> "SUCCESS"
                        [] r.result = "ERROR" -> "UNSUCCESS"
                        [] OTHER -> "UNKNOWN", line.num)
  BY <1>1 DEF Commit
<1>5. LogTyped
  BY <1>3, <1>4, SavedByOK, SameLog
<1>6. msgNumber' = [msgNumber EXCEPT ![s] = Updated(@, kind, line.num)]
  BY <1>1 DEF Commit
<1>7. \E k \in {"SUCCESS", "UNSUCCESS", "UNKNOWN"} :
        Tell(m, s, k, line.num) /\ (k = "SUCCESS" <=> r.result = "WROTE")
  <2>1. CASE r.result = "WROTE"
    BY <2>1, <1>4
  <2>2. CASE r.result = "ERROR"
    BY <2>2, <1>4
  <2>3. CASE r.result \notin {"WROTE", "ERROR"}
    BY <2>3, <1>4
  <2> QED
    BY <2>1, <2>2, <2>3
<1> QED
  BY <1>1, <1>3, <1>4, <1>5, <1>6, <1>7

LEMMA CommitTypes == ASSUME TypeOK, NEW m, NEW s, Commit(m, s) PROVE TypeOK'
<1>1. PICK line, kind : line = Head(toSlave[<<m, s>>]).line /\ kind = log[line.text].kind
  OBVIOUS
<1>2. /\ line \in Lines /\ LogTyped
      /\ msgNumber' = [msgNumber EXCEPT ![s] = Updated(@, kind, line.num)]
  BY <1>1, CommitOK
<1>3. PICK r \in SaveResults(s, kind, line) :
              /\ file' = [file EXCEPT ![s] = r.file]
              /\ \E k \in {"SUCCESS", "UNSUCCESS", "UNKNOWN"} : Tell(m, s, k, line.num)
  BY <1>1, CommitOK
<1>4. /\ m \in Servers /\ s \in Servers /\ m # s /\ <<m, s>> \in Pairs
      /\ toSlave' \in [Pairs -> Seq(Orders)]
      /\ \A p \in Pairs : \A i \in DOMAIN toSlave'[p] : Issued(toSlave'[p][i].line, Len(log'))
      /\ Issued(line, Len(log))
  BY <1>1, <1>2, ArrivesOK DEF Commit
<1>5. DOMAIN slave' = Servers /\ \A t \in Servers : slave'[t] \in [Others(t) -> SlaveStates]
  BY <1>4, BecomesOK DEF Commit, SlaveStates
<1>6. toMaster' \in [Pairs -> Seq(Answers)]
  <2>1. line.num \in {NoNum} \cup Nums
    BY <1>2 DEF Lines
  <2> QED
    BY <1>3, <1>4, <2>1, TellOK
<1>7. file' \in [Servers -> Seq(Lines)]
  <2>1. r.file \in Seq(Lines)
    BY <1>2, <1>3, <1>4, SaveResultsOK
  <2> QED
    BY <2>1, <1>3, <1>4 DEF TypeOK
<1>8. msgNumber' \in [Servers -> 0 .. Earlier + Len(log')]
  <2>1. PICK n \in Nat : n = line.num
    BY <1>2, LogLength DEF Lines, Nums, NoNum
  <2>2. n <= Earlier + Len(log)
    BY <1>4, <2>1 DEF Issued
  <2>3. Len(log) \in Nat /\ Len(log') \in Nat /\ Len(log) <= Len(log') /\ Earlier \in Nat
    BY <1>2, LogLength DEF LogTyped
  <2>4. n \in 0 .. Earlier + Len(log')
    BY <2>2, <2>3
  <2>5. \A t \in Servers : msgNumber[t] \in 0 .. Earlier + Len(log')
    BY <2>3 DEF TypeOK
  <2>7. Wrapped(n) = n
    <3>1. n \in 0 .. Earlier + MaxCmds
      BY <2>2, <2>3, ClusterConstantsOK DEF TypeOK, ClusterConstantsOK
    <3> QED
      BY <3>1, NotWrapped
  <2>6. Updated(msgNumber[s], kind, line.num) \in 0 .. Earlier + Len(log')
    BY <2>1, <2>4, <2>5, <2>7, <1>4 DEF Updated
  <2> QED
    BY <1>2, <1>4, <2>5, <2>6 DEF TypeOK
<1>9. /\ slaveTimer' \in [Servers -> BOOLEAN]
      /\ UNCHANGED <<user, master, queue, spins, crowded, breaks>>
  BY DEF Commit, TypeOK
<1>10. user' \in [Servers -> Users] /\ \A t \in Servers : Issued(user'[t].line, Len(log'))
  BY <1>2, <1>9, SameUser
<1> QED
  BY <1>2, <1>4, <1>5, <1>6, <1>7, <1>8, <1>9, <1>10 DEF TypeOK, LogTyped

\* What an answer does: the state of its peer, and an event if it is the last or a failure.
ReplyState(kind) == CASE kind = "ACK" -> "M_PRECOMMITED"
                      [] kind = "SUCCESS" -> "M_OPERATION_PERFORMED"
                      [] OTHER -> "M_OPERATION_UNSUCCESS"

ReplyEvent(kind) == CASE kind = "ACK" -> "PRECOMMIT_ACK"
                      [] kind = "SUCCESS" -> "COMMIT_SUCCESS"
                      [] OTHER -> "COMMIT_UNSUCCESS"

LEMMA ReplyOK ==
  ASSUME TypeOK, NEW s, NEW p, Reply(s, p)
  PROVE  LET a == Head(toMaster[<<s, p>>])
             st == ReplyState(a.kind)
             srv == [master[s].srv EXCEPT ![p] = st]
             e == Event(ReplyEvent(a.kind), a.num, a.kind = "UNKNOWN")
         IN
         /\ s \in Servers /\ p \in Servers /\ s # p /\ <<s, p>> \in Pairs
         /\ toMaster[<<s, p>>] # <<>> /\ a \in Answers /\ st \in States /\ e \in Events
         /\ srv \in [Others(s) -> States]
         /\ toMaster' \in [Pairs -> Seq(Answers)]
         /\ toMaster'[<<s, p>>] = Tail(toMaster[<<s, p>>])
         /\ \A q \in Pairs : q # <<s, p>> => toMaster'[q] = toMaster[q]
         /\ DOMAIN master' = Servers /\ \A t \in Servers : master'[t] \in SyncLists(t)
         /\ master'[s].srv = srv
         /\ \A t \in Servers : t # s => master'[t] = master[t]
         /\ IF Reached(s, srv, st) THEN queue' = [queue EXCEPT ![s] = Append(@, e)]
                                   ELSE UNCHANGED queue
<1>1. PICK a : a = Head(toMaster[<<s, p>>])
  OBVIOUS
<1>2. PICK st : st = ReplyState(a.kind)
  OBVIOUS
<1>3. PICK srv : srv = [master[s].srv EXCEPT ![p] = st]
  OBVIOUS
<1>4. PICK e : e = Event(ReplyEvent(a.kind), a.num, a.kind = "UNKNOWN")
  OBVIOUS
<1>5. /\ <<s, p>> \in Pairs /\ toMaster[<<s, p>>] # <<>>
      /\ toMaster' = [toMaster EXCEPT ![<<s, p>>] = Tail(@)]
  BY DEF Reply
<1>6. s \in Servers /\ p \in Servers /\ s # p
  BY <1>5 DEF Pairs
<1>7. toMaster[<<s, p>>] \in Seq(Answers) /\ toMaster \in [Pairs -> Seq(Answers)]
  BY <1>5 DEF TypeOK
<1>8. a \in Answers /\ Tail(toMaster[<<s, p>>]) \in Seq(Answers)
  BY <1>1, <1>5, <1>7, Tails
<1>9. /\ toMaster' \in [Pairs -> Seq(Answers)]
      /\ toMaster'[<<s, p>>] = Tail(toMaster[<<s, p>>])
      /\ \A q \in Pairs : q # <<s, p>> => toMaster'[q] = toMaster[q]
  BY <1>5, <1>7, <1>8
<1>10. st \in States
  BY <1>2 DEF ReplyState, States
<1>11. e \in Events
  BY <1>4, <1>8 DEF Event, ReplyEvent, Events, Answers
<1>12. DOMAIN master = Servers /\ \A t \in Servers : master[t] \in SyncLists(t)
  BY DEF TypeOK
<1>13. srv \in [Others(s) -> States]
  <2>1. master[s].srv \in [Others(s) -> States]
    BY <1>6, <1>12 DEF SyncLists
  <2> QED
    BY <2>1, <1>3, <1>10
<1>14. IF Reached(s, srv, st)
         THEN /\ master' = [master EXCEPT ![s] = [srv |-> srv, state |-> st, timer |-> FALSE]]
              /\ queue' = [queue EXCEPT ![s] = Append(@, e)]
         ELSE /\ master' = [master EXCEPT ![s].srv = srv]
              /\ UNCHANGED queue
  BY <1>1, <1>2, <1>3, <1>4 DEF Reply, ReplyState, ReplyEvent
<1>15. \E x \in SyncLists(s) : x.srv = srv /\ master' = [master EXCEPT ![s] = x]
  <2>1. CASE Reached(s, srv, st)
    <3>1. PICK x : x = [srv |-> srv, state |-> st, timer |-> FALSE]
      OBVIOUS
    <3>2. x \in SyncLists(s) /\ x.srv = srv
      BY <3>1, <1>10, <1>13 DEF SyncLists
    <3> QED
      BY <3>1, <3>2, <2>1, <1>14
  <2>2. CASE ~Reached(s, srv, st)
    <3>1. PICK x : x = [master[s] EXCEPT !.srv = srv]
      OBVIOUS
    <3>2. x \in SyncLists(s) /\ x.srv = srv
      BY <3>1, <1>6, <1>12, <1>13 DEF SyncLists
    <3> QED
      BY <3>1, <3>2, <2>2, <1>14
  <2> QED
    BY <2>1, <2>2
<1>16. /\ DOMAIN master' = Servers /\ \A t \in Servers : master'[t] \in SyncLists(t)
       /\ master'[s].srv = srv
       /\ \A t \in Servers : t # s => master'[t] = master[t]
  BY <1>6, <1>12, <1>15
<1>17. IF Reached(s, srv, st) THEN queue' = [queue EXCEPT ![s] = Append(@, e)]
                              ELSE UNCHANGED queue
  BY <1>14
<1> QED
  BY <1>1, <1>2, <1>3, <1>4, <1>5, <1>6, <1>8, <1>9, <1>10, <1>11, <1>13, <1>16, <1>17

LEMMA ReplyTypes == ASSUME TypeOK, NEW s, NEW p, Reply(s, p) PROVE TypeOK'
<1>1. LogTyped /\ UNCHANGED <<msgNumber, file, user, slave, slaveTimer, toSlave, spins, log,
                              crowded, breaks>>
  BY SameLog DEF Reply, slaveVars
<1>2. /\ s \in Servers /\ toMaster' \in [Pairs -> Seq(Answers)]
      /\ DOMAIN master' = Servers /\ \A t \in Servers : master'[t] \in SyncLists(t)
  BY ReplyOK
<1>3. \/ UNCHANGED queue
      \/ \E e \in Events : queue' = [queue EXCEPT ![s] = Append(@, e)]
  <2>1. PICK a, st, srv, e :
          /\ a = Head(toMaster[<<s, p>>]) /\ st = ReplyState(a.kind)
          /\ srv = [master[s].srv EXCEPT ![p] = st]
          /\ e = Event(ReplyEvent(a.kind), a.num, a.kind = "UNKNOWN")
    OBVIOUS
  <2>2. /\ e \in Events
        /\ IF Reached(s, srv, st) THEN queue' = [queue EXCEPT ![s] = Append(@, e)]
                                  ELSE UNCHANGED queue
    BY <2>1, ReplyOK
  <2> QED
    BY <2>2
<1>4. queue' \in [Servers -> Seq(Events)]
  BY <1>2, <1>3, PostOK DEF TypeOK
<1> QED
  BY <1>1, <1>2, <1>4 DEF TypeOK

LEMMA AllAcknowledgedTypes ==
  ASSUME TypeOK, NEW s \in Servers, AllAcknowledged(s) PROVE TypeOK'
<1>1. queue' \in [Servers -> Seq(Events)]
  BY TakesOK DEF AllAcknowledged
<1>2. UNCHANGED <<msgNumber, file, slave, slaveTimer, toMaster, spins, crowded, breaks>>
  BY DEF AllAcknowledged, slaveVars
<1>3. user \in [Servers -> Users] /\ user[s].line \in Lines /\ Issued(user[s].line, Len(log))
  <2>1. user \in [Servers -> Users] /\ Issued(user[s].line, Len(log))
    BY DEF TypeOK
  <2> QED
    BY <2>1 DEF Users
<1>4. CASE user[s].state = "U_WAITING_COMMIT"
  <2>1. PICK x, c : /\ c = user[s].line.text
                    /\ x = [log[c] EXCEPT !.committed = TRUE]
    OBVIOUS
  <2>2. /\ log' = [log EXCEPT ![c] = x]
        /\ user' = [user EXCEPT ![s].state = "U_WAITING_SAVE"]
        /\ master' = [master EXCEPT ![s] = AllAt(@, "M_COMMITED")]
        /\ Multicast(s, "COMMIT", user[s].line)
    BY <1>4, <2>1 DEF AllAcknowledged
  <2>3. c \in DOMAIN log => x \in Commands
    <3>1. \A y \in Commands : [y EXCEPT !.committed = TRUE] \in Commands
      BY DEF Commands
    <3> QED
      BY <3>1, <2>1, LogLength
  <2>4. LogTyped /\ Len(log') = Len(log)
    BY <2>2, <2>3, LogEntryChanged
  <2>5. /\ toSlave' \in [Pairs -> Seq(Orders)]
        /\ \A p \in Pairs : \A i \in DOMAIN toSlave'[p] : Issued(toSlave'[p][i].line, Len(log'))
    BY <1>3, <2>2, <2>4, MulticastOK
  <2>6. DOMAIN master' = Servers /\ \A t \in Servers : master'[t] \in SyncLists(t)
    BY <2>2, AllAtOK DEF States
  <2>7. PICK u : u = [user[s] EXCEPT !.state = "U_WAITING_SAVE"]
    OBVIOUS
  <2>8. u \in Users /\ u.line = user[s].line
    BY <1>3, <2>7 DEF Users
  <2>9. user' = [user EXCEPT ![s] = u]
    BY <2>2, <2>7
  <2>10. user' \in [Servers -> Users] /\ \A t \in Servers : user'[t].line = user[t].line
    BY <1>3, <2>8, <2>9
  <2>11. \A t \in Servers : Issued(user'[t].line, Len(log'))
    BY <2>4, <2>10 DEF TypeOK
  <2> QED
    BY <1>1, <1>2, <2>4, <2>5, <2>6, <2>10, <2>11 DEF TypeOK, LogTyped
<1>5. CASE user[s].state # "U_WAITING_COMMIT"
  BY <1>1, <1>2, <1>5 DEF AllAcknowledged, TypeOK, masterVars
<1> QED
  BY <1>4, <1>5

LEMMA GivesUpTypes == ASSUME TypeOK, NEW s \in Servers, GivesUp(s) PROVE TypeOK'
<1>1. queue' \in [Servers -> Seq(Events)]
  BY TakesOK DEF GivesUp
<1>2. UNCHANGED <<msgNumber, file, slave, slaveTimer, toMaster, spins, crowded, breaks>>
  BY DEF GivesUp, slaveVars
<1>3. LogTyped /\ Len(log') = Len(log)
  BY AnswerOK, SameLog DEF GivesUp
<1>4. user' \in [Servers -> Users] /\ \A t \in Servers : Issued(user'[t].line, Len(log'))
  <2>1. user' = [user EXCEPT ![s] = NoCmd] \/ UNCHANGED user
    BY DEF GivesUp
  <2> QED
    BY <2>1, <1>3, SameUser, UserIdleOK
<1>5. /\ toSlave' \in [Pairs -> Seq(Orders)]
      /\ \A p \in Pairs : \A i \in DOMAIN toSlave'[p] : Issued(toSlave'[p][i].line, Len(log'))
  <2>1. Multicast(s, "ABORT", NoLine)
    BY DEF GivesUp
  <2> QED
    BY <2>1, <1>3, NoLineOK, NoLineIssued, MulticastOK
<1>6. DOMAIN master' = Servers /\ \A t \in Servers : master'[t] \in SyncLists(t)
  BY AllAtOK DEF States, GivesUp
<1> QED
  BY <1>1, <1>2, <1>3, <1>4, <1>5, <1>6 DEF TypeOK, LogTyped

LEMMA SpinsTypes ==
  ASSUME TypeOK, NEW s \in Servers, NEW type, Spins(s, type) PROVE TypeOK'
<1>1. queue' \in [Servers -> Seq(Events)]
  BY TakesOK DEF Spins
<1> QED
  BY <1>1 DEF Spins, TypeOK, masterVars, slaveVars

LEMMA NothingWaitsTypes ==
  ASSUME TypeOK, NEW s \in Servers, NEW type, NothingWaits(s, type) PROVE TypeOK'
<1>1. queue' \in [Servers -> Seq(Events)]
  BY TakesOK DEF NothingWaits
<1> QED
  BY <1>1 DEF NothingWaits, TypeOK, masterVars, slaveVars

\* The answer to the user and the master's own save.
LEMMA PerformedLog ==
  ASSUME TypeOK, NEW s \in Servers, NEW c, NEW v \in {"WROTE", "UNKNOWN", "ERROR"},
         log' = [log EXCEPT ![c].answer = v,
                            ![c].saved = IF v = "WROTE" THEN @ \cup {s} ELSE @]
  PROVE  /\ LogTyped /\ Len(log') = Len(log) /\ DOMAIN log' = DOMAIN log
         /\ \A d \in DOMAIN log : log'[d] =
              IF d = c THEN [log[d] EXCEPT !.answer = v,
                                           !.saved = IF v = "WROTE" THEN @ \cup {s} ELSE @]
                       ELSE log[d]
<1>1. PICK x : x = [log[c] EXCEPT !.answer = v, !.saved = IF v = "WROTE" THEN @ \cup {s} ELSE @]
  OBVIOUS
<1>2. log' = [log EXCEPT ![c] = x]
  <2>1. CASE c \in DOMAIN log
    BY <1>1, <2>1
  <2>2. CASE c \notin DOMAIN log
    BY <1>1, <2>2
  <2> QED
    BY <2>1, <2>2
<1>3. c \in DOMAIN log => x \in Commands
  <2>1. \A y \in Commands :
          [y EXCEPT !.answer = v, !.saved = IF v = "WROTE" THEN @ \cup {s} ELSE @] \in Commands
    BY DEF Commands
  <2> QED
    BY <2>1, <1>1, LogLength
<1>4. /\ LogTyped /\ Len(log') = Len(log) /\ DOMAIN log' = DOMAIN log
      /\ \A d \in DOMAIN log : log'[d] = IF d = c THEN x ELSE log[d]
  BY <1>2, <1>3, LogEntryChanged
<1> QED
  BY <1>1, <1>4

LEMMA AllPerformedTypes == ASSUME TypeOK, NEW s \in Servers, AllPerformed(s) PROVE TypeOK'
<1>1. queue' \in [Servers -> Seq(Events)]
  BY TakesOK DEF AllPerformed
<1>2. UNCHANGED <<msgNumber, slave, slaveTimer, toMaster, spins, crowded, breaks>>
  BY DEF AllPerformed, slaveVars
<1>3. PICK r \in SaveResults(s, user[s].kind, user[s].line) :
        /\ file' = [file EXCEPT ![s] = r.file]
        /\ log' = [log EXCEPT ![user[s].line.text].answer = r.result,
                              ![user[s].line.text].saved = IF r.result = "WROTE"
                                                    THEN @ \cup {s} ELSE @]
  BY DEF AllPerformed
<1>4. user[s].line \in Lines
  <2>1. user[s] \in Users
    BY DEF TypeOK
  <2> QED
    BY <2>1 DEF Users
<1>5. r.file \in Seq(Lines) /\ r.result \in {"WROTE", "UNKNOWN", "ERROR"}
  BY <1>3, <1>4, SaveResultsOK
<1>6. LogTyped /\ Len(log') = Len(log)
  BY <1>3, <1>5, PerformedLog
<1>7. file' \in [Servers -> Seq(Lines)]
  BY <1>3, <1>5 DEF TypeOK
<1>8. user' \in [Servers -> Users] /\ \A t \in Servers : Issued(user'[t].line, Len(log'))
  BY <1>6, UserIdleOK DEF AllPerformed
<1>9. /\ toSlave' \in [Pairs -> Seq(Orders)]
      /\ \A p \in Pairs : \A i \in DOMAIN toSlave'[p] : Issued(toSlave'[p][i].line, Len(log'))
  <2>1. Multicast(s, "END", NoLine)
    BY DEF AllPerformed
  <2> QED
    BY <2>1, <1>6, NoLineOK, NoLineIssued, MulticastOK
<1>10. DOMAIN master' = Servers /\ \A t \in Servers : master'[t] \in SyncLists(t)
  BY AllAtOK DEF States, AllPerformed
<1> QED
  BY <1>1, <1>2, <1>6, <1>7, <1>8, <1>9, <1>10 DEF TypeOK, LogTyped

LEMMA UndoneTypes == ASSUME TypeOK, NEW s \in Servers, Undone(s) PROVE TypeOK'
<1>1. queue' \in [Servers -> Seq(Events)]
  BY TakesOK DEF Undone
<1>2. UNCHANGED <<msgNumber, file, slave, slaveTimer, toMaster, spins, crowded, breaks>>
  BY DEF Undone, slaveVars
<1>3. LogTyped /\ Len(log') = Len(log)
  BY AnswerOK DEF Undone
<1>4. user' \in [Servers -> Users] /\ \A t \in Servers : Issued(user'[t].line, Len(log'))
  BY <1>3, UserIdleOK DEF Undone
<1>5. /\ toSlave' \in [Pairs -> Seq(Orders)]
      /\ \A p \in Pairs : \A i \in DOMAIN toSlave'[p] : Issued(toSlave'[p][i].line, Len(log'))
  <2>1. Multicast(s, "END", NoLine)
    BY DEF Undone
  <2> QED
    BY <2>1, <1>3, NoLineOK, NoLineIssued, MulticastOK
<1>6. DOMAIN master' = Servers /\ \A t \in Servers : master'[t] \in SyncLists(t)
  BY AllAtOK DEF States, Undone
<1> QED
  BY <1>1, <1>2, <1>3, <1>4, <1>5, <1>6 DEF TypeOK, LogTyped

LEMMA ExpiresTypes ==
  ASSUME TypeOK, NEW s \in Servers, NEW type \in {"TIMEOUT_MASTER", "TIMEOUT_SLAVE"},
         Expires(s, type)
  PROVE  /\ queue' \in [Servers -> Seq(Events)] /\ breaks' \in 0 .. MaxBreaks
         /\ queue[s] \in Seq(Events) /\ Event(type, NoNum, FALSE) \in Events
         /\ queue'[s] = Append(queue[s], Event(type, NoNum, FALSE))
         /\ \A t \in Servers : t # s => queue'[t] = queue[t]
         /\ UNCHANGED <<msgNumber, file, user, slave, toSlave, toMaster, spins, log, crowded>>
<1>1. Event(type, NoNum, FALSE) \in Events
  BY DEF Event, Events
<1>2. queue' = [queue EXCEPT ![s] = Append(@, Event(type, NoNum, FALSE))]
  BY DEF Expires
<1>3. breaks' \in 0 .. MaxBreaks
  BY LogLength DEF Expires, TypeOK
<1> QED
  BY <1>1, <1>2, <1>3, PostOK DEF Expires

LEMMA TimerTypes ==
  ASSUME TypeOK, NEW s \in Servers, MasterTimer(s) \/ SlaveTimer(s) PROVE TypeOK'
<1>1. /\ queue' \in [Servers -> Seq(Events)] /\ breaks' \in 0 .. MaxBreaks
      /\ UNCHANGED <<msgNumber, file, user, slave, toSlave, toMaster, spins, log, crowded>>
  BY ExpiresTypes DEF MasterTimer, SlaveTimer
<1>2. DOMAIN master' = Servers /\ \A t \in Servers : master'[t] \in SyncLists(t)
  <2>1. DOMAIN master = Servers /\ \A t \in Servers : master[t] \in SyncLists(t)
    BY DEF TypeOK
  <2>2. CASE UNCHANGED master
    BY <2>1, <2>2
  <2>3. CASE master' = [master EXCEPT ![s].timer = FALSE]
    <3>1. PICK x : x = [master[s] EXCEPT !.timer = FALSE]
      OBVIOUS
    <3>2. x \in SyncLists(s)
      BY <2>1, <3>1 DEF SyncLists
    <3>3. master' = [master EXCEPT ![s] = x]
      BY <2>3, <3>1
    <3> QED
      BY <2>1, <3>2, <3>3
  <2> QED
    BY <2>2, <2>3 DEF MasterTimer, SlaveTimer
<1>3. slaveTimer' \in [Servers -> BOOLEAN]
  BY DEF MasterTimer, SlaveTimer, TypeOK
<1> QED
  BY <1>1, <1>2, <1>3 DEF TypeOK

LEMMA MasterTimeoutOK ==
  ASSUME TypeOK, NEW s \in Servers, MasterTimeout(s)
  PROVE  /\ queue' \in [Servers -> Seq(Events)]
         /\ queue[s] \in Seq(Events) /\ queue[s] # <<>> /\ Tail(queue[s]) \in Seq(Events)
         /\ \/ queue'[s] = Tail(queue[s])
            \/ \E type \in {"PRECOMMIT_ERR", "COMMIT_UNSUCCESS"} :
                 /\ Event(type, NoNum, FALSE) \in Events
                 /\ queue'[s] = Append(Tail(queue[s]), Event(type, NoNum, FALSE))
         /\ \A t \in Servers : t # s => queue'[t] = queue[t]
<1>1. queue \in [Servers -> Seq(Events)] /\ queue[s] # <<>>
  BY DEF TypeOK, MasterTimeout
<1>2. queue[s] \in Seq(Events) /\ Tail(queue[s]) \in Seq(Events)
  BY <1>1, Tails
<1>3. \A type \in {"PRECOMMIT_ERR", "COMMIT_UNSUCCESS"} :
        /\ Event(type, NoNum, FALSE) \in Events
        /\ Append(Tail(queue[s]), Event(type, NoNum, FALSE)) \in Seq(Events)
  <2>1. \A type \in {"PRECOMMIT_ERR", "COMMIT_UNSUCCESS"} : Event(type, NoNum, FALSE) \in Events
    BY DEF Event, Events
  <2> QED
    BY <1>2, <2>1, Appends
<1>4. PICK q : /\ queue' = [queue EXCEPT ![s] = q]
               /\ \/ q = Tail(queue[s])
                  \/ \E type \in {"PRECOMMIT_ERR", "COMMIT_UNSUCCESS"} :
                       q = Append(Tail(queue[s]), Event(type, NoNum, FALSE))
  <2>1. CASE master[s].state = "M_PRECOMMIT_MULTICASTED"
    BY <2>1 DEF MasterTimeout
  <2>2. CASE master[s].state = "M_COMMITED"
    BY <2>2 DEF MasterTimeout
  <2>3. CASE master[s].state \notin {"M_PRECOMMIT_MULTICASTED", "M_COMMITED"}
    BY <2>3 DEF MasterTimeout
  <2> QED
    BY <2>1, <2>2, <2>3
<1>5. q \in Seq(Events)
  BY <1>2, <1>3, <1>4
<1>6. queue' \in [Servers -> Seq(Events)] /\ queue'[s] = q
      /\ \A t \in Servers : t # s => queue'[t] = queue[t]
  BY <1>1, <1>4, <1>5
<1> QED
  BY <1>1, <1>2, <1>3, <1>4, <1>6

LEMMA MasterTimeoutTypes == ASSUME TypeOK, NEW s \in Servers, MasterTimeout(s) PROVE TypeOK'
<1>1. queue' \in [Servers -> Seq(Events)]
  BY MasterTimeoutOK
<1>2. UNCHANGED <<msgNumber, file, user, master, log, slave, slaveTimer, toSlave, toMaster,
                  spins, crowded, breaks>>
  BY DEF MasterTimeout, masterVars, slaveVars
<1> QED
  BY <1>1, <1>2 DEF TypeOK

LEMMA SlaveTimeoutOK ==
  ASSUME TypeOK, NEW s \in Servers, SlaveTimeout(s)
  PROVE  /\ DOMAIN slave' = Servers /\ \A t \in Servers : slave'[t] \in [Others(t) -> SlaveStates]
         /\ \A t \in Servers : t # s => slave'[t] = slave[t]
         /\ \A m \in Others(s) : slave'[s][m] # "S_PRECOMMIT_ACK"
<1>1. DOMAIN slave = Servers /\ \A t \in Servers : slave[t] \in [Others(t) -> SlaveStates]
  BY DEF TypeOK
<1>2. PICK f : f = [m \in Others(s) |-> IF m \in AwaitCommit(s) THEN "IDLE" ELSE slave[s][m]]
  OBVIOUS
<1>3. slave' = [slave EXCEPT ![s] = f]
  BY <1>2 DEF SlaveTimeout
<1>4. f \in [Others(s) -> SlaveStates] /\ \A m \in Others(s) : f[m] # "S_PRECOMMIT_ACK"
  BY <1>1, <1>2 DEF AwaitCommit, SlaveStates
<1> QED
  BY <1>1, <1>3, <1>4

LEMMA SlaveTimeoutTypes == ASSUME TypeOK, NEW s \in Servers, SlaveTimeout(s) PROVE TypeOK'
<1>1. queue' \in [Servers -> Seq(Events)]
  BY TakesOK DEF SlaveTimeout
<1>2. DOMAIN slave' = Servers /\ \A t \in Servers : slave'[t] \in [Others(t) -> SlaveStates]
  BY SlaveTimeoutOK
<1>3. UNCHANGED <<msgNumber, file, user, master, log, slaveTimer, toSlave, toMaster, spins,
                  crowded, breaks>>
  BY DEF SlaveTimeout, masterVars
<1> QED
  BY <1>1, <1>2, <1>3 DEF TypeOK

LEMMA TypesInitially == ASSUME Init PROVE TypeOK
<1>1. Earlier \in Nat /\ MaxCmds \in Nat /\ MaxBreaks \in Nat
  BY ClusterConstantsOK DEF ClusterConstantsOK
<1>2. log = <<>> /\ log \in Seq(Commands) /\ Len(log) = 0
  BY DEF Init
<1>3. msgNumber \in [Servers -> 0 .. Earlier + Len(log)]
  BY <1>1, <1>2 DEF Init
<1>4. file \in [Servers -> Seq(Lines)]
  <2>1. \A n \in 1 .. Earlier : [num |-> n, text |-> 0] \in Lines
    BY <1>1 DEF Lines, Nums
  <2>2. [n \in 1 .. Earlier |-> [num |-> n, text |-> 0]] \in Seq(Lines)
    BY <1>1, <2>1
  <2> QED
    BY <2>2 DEF Init
<1>5. user \in [Servers -> Users] /\ \A s \in Servers : Issued(user[s].line, Len(log))
  <2>1. NoCmd \in Users /\ NoCmd.line = NoLine
    BY NoLineOK DEF NoCmd, Users
  <2>2. Issued(NoLine, Len(log))
    BY <1>1, <1>2 DEF Issued, NoLine, NoNum
  <2> QED
    BY <2>1, <2>2 DEF Init
<1>6. /\ DOMAIN master = Servers /\ DOMAIN slave = Servers
      /\ \A s \in Servers : master[s] \in SyncLists(s) /\ slave[s] \in [Others(s) -> SlaveStates]
  BY DEF Init, SyncLists, SlaveStates, States
<1>7. queue \in [Servers -> Seq(Events)]
  BY DEF Init
<1>8. toSlave \in [Pairs -> Seq(Orders)] /\ toMaster \in [Pairs -> Seq(Answers)]
  BY DEF Init
<1>9. \A p \in Pairs : \A i \in DOMAIN toSlave[p] : Issued(toSlave[p][i].line, Len(log))
  BY DEF Init
<1>10. /\ slaveTimer \in [Servers -> BOOLEAN] /\ spins \in [Servers -> BOOLEAN]
       /\ crowded \in BOOLEAN /\ breaks \in 0 .. MaxBreaks
  <2>1. breaks = 0 /\ breaks \in 0 .. MaxBreaks
    BY <1>1 DEF Init
  <2>2. slaveTimer \in [Servers -> BOOLEAN] /\ spins \in [Servers -> BOOLEAN]
    BY DEF Init
  <2>3. crowded \in BOOLEAN
    BY DEF Init
  <2> QED
    BY <2>1, <2>2, <2>3
<1>11. log \in Seq(Commands) /\ Len(log) <= MaxCmds
  BY <1>1, <1>2
<1> QED
  BY <1>3, <1>4, <1>5, <1>6, <1>7, <1>8, <1>9, <1>10, <1>11 DEF TypeOK

LEMMA TypesStay == ASSUME TypeOK, [Next]_vars PROVE TypeOK'
<1>1. ASSUME NEW s \in Servers, Issue(s) PROVE TypeOK'
  BY <1>1, WriteTypes, ReplaceTypes, LeaveTypes DEF Issue
<1>2. ASSUME NEW s \in Servers, Receive(s) PROVE TypeOK'
  BY <1>2, PrecommitTypes, AbortOrEndTypes, CommitRefusedTypes, CommitTypes, ReplyTypes DEF Receive
<1>3. ASSUME NEW s \in Servers, Handle(s) PROVE TypeOK'
  BY <1>3, AllAcknowledgedTypes, GivesUpTypes, AllPerformedTypes, UndoneTypes, NothingWaitsTypes,
     SpinsTypes, MasterTimeoutTypes, SlaveTimeoutTypes DEF Handle
<1>4. ASSUME NEW s \in Servers, MasterTimer(s) \/ SlaveTimer(s) PROVE TypeOK'
  BY <1>4, TimerTypes
<1>5. CASE UNCHANGED vars
  BY <1>5 DEF TypeOK, vars
<1> QED
  BY <1>1, <1>2, <1>3, <1>4, <1>5 DEF Next

\* Whatever the servers do, every variable keeps its type, and no number that a counter,
\* a command or a message carries runs ahead of the commands that were issued.
THEOREM TypeCorrect == Spec => []TypeOK
<1>1. Init => TypeOK
  BY TypesInitially
<1>2. TypeOK /\ [Next]_vars => TypeOK'
  BY TypesStay
<1> QED
  BY <1>1, <1>2, PTL DEF Spec

-----------------------------------------------------------------------------
(* What a server's exchange consists of: the command of its user, its list *)
(* of peers, its events, and what is under way between it and each peer    *)

Out(s, p)  == toSlave[<<s, p>>]
Back(s, p) == toMaster[<<s, p>>]
Srv(s, p)  == master[s].srv[p]

Busy(s)        == user[s].state # "IDLE"
WaitsCommit(s) == user[s].state = "U_WAITING_COMMIT"
WaitsSave(s)   == user[s].state = "U_WAITING_SAVE"
Cmd(s)         == user[s].line.text

KindsOf(q) == {q[i].kind : i \in DOMAIN q}
TypesOf(q) == {q[i].type : i \in DOMAIN q}

\* A message of kind k can only be the last one of q, or there is at most one.
OnlyLast(q, k) == \A i \in DOMAIN q : q[i].kind = k => i = Len(q)
Once(q, k)     == \A i, j \in DOMAIN q : q[i].kind = k /\ q[j].kind = k => i = j

\* Of the events that carry an exchange on, none follows an acknowledgement; there is
\* at most one success.
AckLast(q) == \A i, j \in DOMAIN q :
  q[i].type = "PRECOMMIT_ACK" /\ q[j].type \in {"PRECOMMIT_ACK", "COMMIT_SUCCESS"} => j <= i
OneSuccess(q) == \A i, j \in DOMAIN q :
  q[i].type = "COMMIT_SUCCESS" /\ q[j].type = "COMMIT_SUCCESS" => i = j

LEMMA KindsAppend ==
  ASSUME NEW S, NEW q \in Seq(S), NEW e \in S
  PROVE  /\ KindsOf(Append(q, e)) = KindsOf(q) \cup {e.kind}
         /\ \A k : k \notin KindsOf(q) => OnlyLast(Append(q, e), k) /\ Once(Append(q, e), k)
         /\ \A k : e.kind # k /\ Once(q, k) => Once(Append(q, e), k)
<1>1. PICK r : r = Append(q, e)
  OBVIOUS
<1>2. /\ Len(r) = Len(q) + 1 /\ DOMAIN r = 1 .. Len(q) + 1 /\ Len(q) \in Nat
      /\ \A i \in DOMAIN q : i \in 1 .. Len(q) /\ r[i] = q[i]
      /\ r[Len(q) + 1] = e
  BY <1>1, Appends
<1>3. \A i \in DOMAIN r : (i \in DOMAIN q /\ r[i] = q[i]) \/ (i = Len(r) /\ r[i] = e)
  BY <1>2
<1>4. \A i \in DOMAIN q : i \in DOMAIN r
  BY <1>2
<1>5. Len(q) + 1 \in DOMAIN r
  BY <1>2
<1>6. KindsOf(r) = KindsOf(q) \cup {e.kind}
  BY <1>2, <1>3, <1>4, <1>5 DEF KindsOf
<1>7. \A k : k \notin KindsOf(q) => OnlyLast(r, k) /\ Once(r, k)
  BY <1>3 DEF KindsOf, OnlyLast, Once
<1>8. \A k : e.kind # k /\ Once(q, k) => Once(r, k)
  BY <1>3 DEF Once
<1> QED
  BY <1>1, <1>6, <1>7, <1>8

LEMMA KindsTail ==
  ASSUME NEW S, NEW q \in Seq(S), q # <<>>
  PROVE  /\ KindsOf(Tail(q)) \subseteq KindsOf(q) /\ Head(q).kind \in KindsOf(q)
         /\ \A k : OnlyLast(q, k) => OnlyLast(Tail(q), k)
         /\ \A k : OnlyLast(q, k) /\ Head(q).kind = k => Tail(q) = <<>>
         /\ \A k : Once(q, k) => Once(Tail(q), k)
         /\ \A k : Once(q, k) /\ Head(q).kind = k => k \notin KindsOf(Tail(q))
<1>1. PICK r : r = Tail(q)
  OBVIOUS
<1>2. /\ Len(r) = Len(q) - 1 /\ Len(q) \in Nat /\ Head(q) = q[1] /\ 1 \in DOMAIN q
      /\ \A i \in DOMAIN r : i \in 1 .. Len(q) - 1 /\ i + 1 \in DOMAIN q /\ r[i] = q[i + 1]
      /\ r \in Seq(S)
  BY <1>1, Tails
<1>3. KindsOf(r) \subseteq KindsOf(q) /\ Head(q).kind \in KindsOf(q)
  BY <1>2 DEF KindsOf
<1>4. \A k : OnlyLast(q, k) => OnlyLast(r, k)
  BY <1>2 DEF OnlyLast
<1>5. ASSUME NEW k, OnlyLast(q, k), Head(q).kind = k PROVE r = <<>>
  <2>1. Len(q) = 1
    BY <1>2, <1>5 DEF OnlyLast
  <2>2. Len(r) = 0
    BY <1>2, <2>1
  <2> QED
    BY <1>2, <2>2
<1>6. \A k : Once(q, k) => Once(r, k)
  BY <1>2, SMTT(20) DEF Once
<1>7. ASSUME NEW k, Once(q, k), Head(q).kind = k PROVE k \notin KindsOf(r)
  <2>1. ASSUME NEW i \in DOMAIN r, r[i].kind = k PROVE FALSE
    <3>1. i + 1 \in DOMAIN q /\ q[i + 1].kind = k /\ q[1].kind = k /\ 1 \in DOMAIN q
      BY <1>2, <1>7, <2>1
    <3>2. i + 1 = 1 /\ i \in 1 .. Len(q) - 1
      BY <1>2, <1>7, <2>1, <3>1 DEF Once
    <3> QED
      BY <3>2
  <2> QED
    BY <2>1 DEF KindsOf
<1> QED
  BY <1>1, <1>3, <1>4, <1>5, <1>6, <1>7

LEMMA KindsEmpty == KindsOf(<<>>) = {} /\ TypesOf(<<>>) = {}
BY DEF KindsOf, TypesOf

\* r has no event of an exchange that q has not, in the same order.
Fewer(q, r) ==
  /\ AckLast(q) => AckLast(r)
  /\ OneSuccess(q) => OneSuccess(r)
  /\ \A t \in {"PRECOMMIT_ACK", "COMMIT_SUCCESS"} : t \in TypesOf(r) => t \in TypesOf(q)

LEMMA TypesAppend ==
  ASSUME NEW q \in Seq(Events), NEW e \in Events
  PROVE  /\ TypesOf(Append(q, e)) = TypesOf(q) \cup {e.type}
         /\ e.type \notin {"PRECOMMIT_ACK", "COMMIT_SUCCESS"} => Fewer(q, Append(q, e))
         /\ AckLast(q) /\ "PRECOMMIT_ACK" \notin TypesOf(q) => AckLast(Append(q, e))
         /\ OneSuccess(q) /\ "COMMIT_SUCCESS" \notin TypesOf(q) => OneSuccess(Append(q, e))
         /\ OneSuccess(q) /\ e.type # "COMMIT_SUCCESS" => OneSuccess(Append(q, e))
<1>1. PICK r : r = Append(q, e)
  OBVIOUS
<1>2. /\ Len(r) = Len(q) + 1 /\ DOMAIN r = 1 .. Len(q) + 1 /\ Len(q) \in Nat
      /\ \A i \in DOMAIN q : i \in 1 .. Len(q) /\ r[i] = q[i]
      /\ r[Len(q) + 1] = e
  BY <1>1, Appends
<1>3. \A i \in DOMAIN r : (i \in DOMAIN q /\ r[i] = q[i]) \/ (i = Len(r) /\ r[i] = e)
  BY <1>2
<1>4. (\A i \in DOMAIN q : i \in DOMAIN r) /\ Len(q) + 1 \in DOMAIN r
      /\ \A i \in DOMAIN r : i \in Nat /\ i <= Len(r)
  BY <1>2
<1>5. TypesOf(r) = TypesOf(q) \cup {e.type}
  BY <1>2, <1>3, <1>4 DEF TypesOf
<1>6. AckLast(q) /\ e.type \notin {"PRECOMMIT_ACK", "COMMIT_SUCCESS"} => AckLast(r)
  BY <1>3 DEF AckLast
<1>7. OneSuccess(q) /\ e.type # "COMMIT_SUCCESS" => OneSuccess(r)
  BY <1>3 DEF OneSuccess
<1>8. OneSuccess(q) /\ "COMMIT_SUCCESS" \notin TypesOf(q) => OneSuccess(r)
  BY <1>3 DEF OneSuccess, TypesOf
<1>9. AckLast(q) /\ "PRECOMMIT_ACK" \notin TypesOf(q) => AckLast(r)
  BY <1>3, <1>4 DEF AckLast, TypesOf
<1> QED
  BY <1>1, <1>5, <1>6, <1>7, <1>8, <1>9 DEF Fewer

LEMMA TypesTail ==
  ASSUME NEW q \in Seq(Events), q # <<>>
  PROVE  /\ TypesOf(Tail(q)) \subseteq TypesOf(q) /\ Head(q).type \in TypesOf(q)
         /\ Fewer(q, Tail(q))
         /\ AckLast(q) /\ Head(q).type = "PRECOMMIT_ACK" =>
              "PRECOMMIT_ACK" \notin TypesOf(Tail(q)) /\ "COMMIT_SUCCESS" \notin TypesOf(Tail(q))
         /\ OneSuccess(q) /\ Head(q).type = "COMMIT_SUCCESS" => "COMMIT_SUCCESS" \notin TypesOf(Tail(q))
<1>1. PICK r : r = Tail(q)
  OBVIOUS
<1>2. /\ Len(q) \in Nat /\ Head(q) = q[1] /\ 1 \in DOMAIN q
      /\ \A i \in DOMAIN r : i \in 1 .. Len(q) - 1 /\ i + 1 \in DOMAIN q /\ r[i] = q[i + 1]
  BY <1>1, Tails
<1>3. TypesOf(r) \subseteq TypesOf(q) /\ Head(q).type \in TypesOf(q)
  BY <1>2 DEF TypesOf
<1>4. AckLast(q) => AckLast(r)
  BY <1>2 DEF AckLast
<1>5. OneSuccess(q) => OneSuccess(r)
  BY <1>2 DEF OneSuccess
<1>6. ASSUME AckLast(q), Head(q).type = "PRECOMMIT_ACK", NEW i \in DOMAIN r,
             r[i].type \in {"PRECOMMIT_ACK", "COMMIT_SUCCESS"}
      PROVE  FALSE
  <2>1. i + 1 \in DOMAIN q /\ q[i + 1].type \in {"PRECOMMIT_ACK", "COMMIT_SUCCESS"}
        /\ q[1].type = "PRECOMMIT_ACK" /\ 1 \in DOMAIN q /\ i \in 1 .. Len(q) - 1
    BY <1>2, <1>6
  <2>2. i + 1 <= 1
    BY <1>6, <2>1 DEF AckLast
  <2> QED
    BY <1>2, <2>1, <2>2
<1>7. ASSUME OneSuccess(q), Head(q).type = "COMMIT_SUCCESS", NEW i \in DOMAIN r,
             r[i].type = "COMMIT_SUCCESS"
      PROVE  FALSE
  <2>1. i + 1 \in DOMAIN q /\ q[i + 1].type = "COMMIT_SUCCESS"
        /\ q[1].type = "COMMIT_SUCCESS" /\ 1 \in DOMAIN q /\ i \in 1 .. Len(q) - 1
    BY <1>2, <1>7
  <2>2. i + 1 = 1
    BY <1>7, <2>1 DEF OneSuccess
  <2> QED
    BY <1>2, <2>1, <2>2
<1>8. AckLast(q) /\ Head(q).type = "PRECOMMIT_ACK" =>
              "PRECOMMIT_ACK" \notin TypesOf(r) /\ "COMMIT_SUCCESS" \notin TypesOf(r)
  BY <1>6 DEF TypesOf
<1>9. OneSuccess(q) /\ Head(q).type = "COMMIT_SUCCESS" => "COMMIT_SUCCESS" \notin TypesOf(r)
  BY <1>7 DEF TypesOf
<1> QED
  BY <1>1, <1>3, <1>4, <1>5, <1>8, <1>9 DEF Fewer

-----------------------------------------------------------------------------
(* What the actions do to the exchanges *)

\* The exchange of t is as it was.
Untouched(t) ==
  /\ user'[t] = user[t] /\ queue'[t] = queue[t]
  /\ \A p \in Others(t) : Srv(t, p)' = Srv(t, p) /\ Out(t, p)' = Out(t, p) /\ Back(t, p)' = Back(t, p)

\* What the log says of a command that was answered stays so.
LogKept ==
  /\ \A c \in DOMAIN log :
       /\ c \in DOMAIN log'
       /\ log'[c].by = log[c].by /\ log'[c].kind = log[c].kind /\ log'[c].num = log[c].num
       /\ log[c].saved \subseteq log'[c].saved
       /\ log[c].answer # "none" =>
            log'[c].answer = log[c].answer /\ log'[c].committed = log[c].committed
  /\ crowded => crowded'

LEMMA Channels ==
  ASSUME TypeOK
  PROVE  \A s \in Servers : \A p \in Others(s) :
           /\ p \in Servers /\ p # s /\ <<s, p>> \in Pairs
           /\ Out(s, p) \in Seq(Orders) /\ Back(s, p) \in Seq(Answers)
           /\ s \in Others(p) /\ queue[s] \in Seq(Events) /\ user[s] \in Users
<1>1. \A s \in Servers : \A p \in Others(s) : p \in Servers /\ p # s /\ <<s, p>> \in Pairs
  BY DEF Others, Pairs
<1> QED
  BY <1>1 DEF TypeOK, Out, Back, Others

LEMMA MulticastEffect ==
  ASSUME TypeOK, NEW s \in Servers,
         NEW kind \in {"PRECOMMIT", "ABORT", "COMMIT", "END"}, NEW line \in Lines,
         Multicast(s, kind, line)
  PROVE  LET e == [kind |-> kind, line |-> line] IN
         /\ e \in Orders
         /\ \A p \in Others(s) : Out(s, p)' = Append(Out(s, p), e)
         /\ \A t \in Servers : t # s => \A p \in Others(t) : Out(t, p)' = Out(t, p)
<1>1. PICK e \in Orders : e = [kind |-> kind, line |-> line]
  BY DEF Orders
<1>2. /\ \A p \in Pairs : p[1] = s  => toSlave'[p] = Append(toSlave[p], e)
      /\ \A p \in Pairs : p[1] # s => toSlave'[p] = toSlave[p]
  BY <1>1, SentOK DEF Multicast
<1>3. \A t \in Servers : \A p \in Others(t) : <<t, p>> \in Pairs /\ <<t, p>>[1] = t
  BY Channels
<1>4. \A p \in Others(s) : Out(s, p)' = Append(Out(s, p), e)
  BY <1>2, <1>3 DEF Out
<1>5. \A t \in Servers : t # s => \A p \in Others(t) : Out(t, p)' = Out(t, p)
  BY <1>2, <1>3 DEF Out
<1> QED
  BY <1>1, <1>4, <1>5

LEMMA AllAtEffect ==
  ASSUME TypeOK, NEW s \in Servers, NEW st \in States,
         master' = [master EXCEPT ![s] = AllAt(@, st)]
  PROVE  /\ \A p \in Others(s) : Srv(s, p)' = st
         /\ \A t \in Servers : t # s => \A p \in Others(t) : Srv(t, p)' = Srv(t, p)
<1>1. /\ master'[s].srv = [p \in Others(s) |-> st]
      /\ \A t \in Servers : t # s => master'[t] = master[t]
  BY AllAtOK
<1>2. \A p \in Others(s) : Srv(s, p)' = st
  BY <1>1 DEF Srv
<1>3. \A t \in Servers : t # s => \A p \in Others(t) : Srv(t, p)' = Srv(t, p)
  BY <1>1 DEF Srv
<1> QED
  BY <1>2, <1>3

LEMMA SameOut ==
  ASSUME UNCHANGED toSlave
  PROVE  \A t \in Servers : \A p \in Others(t) : Out(t, p)' = Out(t, p)
BY DEF Out

LEMMA SameBack ==
  ASSUME UNCHANGED toMaster
  PROVE  \A t \in Servers : \A p \in Others(t) : Back(t, p)' = Back(t, p)
BY DEF Back

LEMMA SameSrv ==
  ASSUME UNCHANGED master
  PROVE  \A t \in Servers : \A p \in Others(t) : Srv(t, p)' = Srv(t, p)
BY DEF Srv

LEMMA LogSame ==
  ASSUME UNCHANGED log, crowded => crowded'
  PROVE  LogKept
BY DEF LogKept

\* A user's command.
LEMMA CommandEffect ==
  ASSUME TypeOK, NEW s \in Servers, NEW kind \in {"WRITE", "REPLACE"}, NEW num \in Nums,
         num <= Earlier + Len(log) + 1, Command(s, kind, num),
         msgNumber' \in [Servers -> 0 .. Earlier + Len(log) + 1]
  PROVE  /\ user[s].state = "IDLE" /\ user'[s].state = "U_WAITING_COMMIT"
         /\ user'[s].kind = kind /\ user'[s].line.num = num /\ user'[s].line.text = Len(log) + 1
         /\ \A t \in Servers : t # s => Untouched(t)
         /\ queue'[s] = queue[s]
         /\ LET e == [kind |-> "PRECOMMIT", line |-> NoLine] IN
              /\ e \in Orders
              /\ \A p \in Others(s) : Out(s, p)' = Append(Out(s, p), e)
         /\ \A p \in Others(s) : Back(s, p)' = Back(s, p)
                                /\ Srv(s, p)' = "M_PRECOMMIT_MULTICASTED"
         /\ LogKept /\ \A c \in DOMAIN log : log'[c] = log[c]
         /\ DOMAIN log' = 1 .. Len(log) + 1
         /\ log'[Len(log) + 1] = [by |-> s, kind |-> kind, num |-> num, answer |-> "none",
                                  committed |-> FALSE, saved |-> {}]
         /\ ~crowded' => ~crowded /\ Quiet
<1>1. /\ log' = Append(log, [by |-> s, kind |-> kind, num |-> num, answer |-> "none",
                             committed |-> FALSE, saved |-> {}])
      /\ user'[s] = [state |-> "U_WAITING_COMMIT", kind |-> kind,
                     line |-> [num |-> num, text |-> Len(log) + 1]]
      /\ \A t \in Servers : t # s => user'[t] = user[t]
  BY CommandTypes
<1>2. /\ user[s].state = "IDLE" /\ crowded' = (crowded \/ ~Quiet)
      /\ Multicast(s, "PRECOMMIT", NoLine)
      /\ master' = [master EXCEPT ![s] = AllAt(@, "M_PRECOMMIT_MULTICASTED")]
      /\ UNCHANGED <<queue, toMaster>>
  BY DEF Command
<1>3. LET e == [kind |-> "PRECOMMIT", line |-> NoLine] IN
      /\ e \in Orders
      /\ \A p \in Others(s) : Out(s, p)' = Append(Out(s, p), e)
      /\ \A t \in Servers : t # s => \A p \in Others(t) : Out(t, p)' = Out(t, p)
  BY <1>2, NoLineOK, MulticastEffect
<1>4. /\ \A p \in Others(s) : Srv(s, p)' = "M_PRECOMMIT_MULTICASTED"
      /\ \A t \in Servers : t # s => \A p \in Others(t) : Srv(t, p)' = Srv(t, p)
  BY <1>2, AllAtEffect DEF States
<1>5. \A t \in Servers : \A p \in Others(t) : Back(t, p)' = Back(t, p)
  BY <1>2, SameBack
<1>6. PICK e \in Commands : e = [by |-> s, kind |-> kind, num |-> num, answer |-> "none",
                                 committed |-> FALSE, saved |-> {}]
  BY DEF Commands
<1>7. /\ \A c \in DOMAIN log : c \in 1 .. Len(log) /\ log'[c] = log[c]
      /\ DOMAIN log' = 1 .. Len(log) + 1 /\ log'[Len(log) + 1] = e /\ Len(log) \in Nat
  BY <1>1, <1>6, LogLength, Appends
<1>8. LogKept
  <2>1. \A c \in DOMAIN log : c \in DOMAIN log' /\ log'[c] = log[c]
    BY <1>7
  <2> QED
    BY <1>2, <2>1 DEF LogKept
<1>10. /\ user'[s].state = "U_WAITING_COMMIT" /\ user'[s].kind = kind
       /\ user'[s].line.num = num /\ user'[s].line.text = Len(log) + 1
  BY <1>1
<1>11. queue'[s] = queue[s] /\ (~crowded' => ~crowded /\ Quiet) /\ user[s].state = "IDLE"
  BY <1>2
<1>9. \A t \in Servers : t # s => Untouched(t)
  BY <1>1, <1>2, <1>3, <1>4, <1>5 DEF Untouched
<1> QED
  BY <1>3, <1>4, <1>5, <1>6, <1>7, <1>8, <1>9, <1>10, <1>11

\* Answers of s to its user: only the entry that has none changes.
LEMMA AnswerKeeps ==
  ASSUME TypeOK, NEW s \in Servers, NEW v \in {"ERROR", "UNKNOWN", "gone"}, Answer(s, v),
         UNCHANGED crowded
  PROVE  /\ LogKept /\ DOMAIN log' = DOMAIN log
         /\ \A c \in DOMAIN log :
              /\ log'[c].saved = log[c].saved /\ log'[c].committed = log[c].committed
              /\ IF log[c].by = s /\ log[c].answer = "none" THEN log'[c].answer = v
                                                            ELSE log'[c] = log[c]
<1>1. /\ DOMAIN log' = DOMAIN log
      /\ \A c \in DOMAIN log : log'[c] =
           IF log[c].by = s /\ log[c].answer = "none" THEN [log[c] EXCEPT !.answer = v] ELSE log[c]
  BY AnswerOK
<1>2. \A c \in DOMAIN log : log[c] \in Commands
  BY LogLength
<1>3. \A x \in Commands : /\ [x EXCEPT !.answer = v].by = x.by
                          /\ [x EXCEPT !.answer = v].kind = x.kind
                          /\ [x EXCEPT !.answer = v].num = x.num
                          /\ [x EXCEPT !.answer = v].saved = x.saved
                          /\ [x EXCEPT !.answer = v].committed = x.committed
                          /\ [x EXCEPT !.answer = v].answer = v
  BY DEF Commands
<1>4. ASSUME NEW c \in DOMAIN log
      PROVE  /\ c \in DOMAIN log'
             /\ log'[c].by = log[c].by /\ log'[c].kind = log[c].kind /\ log'[c].num = log[c].num
             /\ log'[c].saved = log[c].saved /\ log'[c].committed = log[c].committed
             /\ IF log[c].by = s /\ log[c].answer = "none" THEN log'[c].answer = v
                                                           ELSE log'[c] = log[c]
  <2>1. CASE log[c].by = s /\ log[c].answer = "none"
    <3>1. PICK x \in Commands : x = log[c]
      BY <1>2
    <3>2. c \in DOMAIN log' /\ log'[c] = [x EXCEPT !.answer = v]
      BY <1>1, <2>1, <3>1
    <3> QED
      BY <1>3, <2>1, <3>1, <3>2
  <2>2. CASE ~(log[c].by = s /\ log[c].answer = "none")
    BY <2>2, <1>1
  <2> QED
    BY <2>1, <2>2
<1>5. LogKept
  BY <1>4 DEF LogKept
<1> QED
  BY <1>1, <1>4, <1>5

LEMMA LeaveEffect ==
  ASSUME TypeOK, NEW s \in Servers, Leave(s)
  PROVE  /\ Busy(s) /\ user'[s] = NoCmd
         /\ \A t \in Servers : t # s => Untouched(t)
         /\ queue'[s] = queue[s]
         /\ \A p \in Others(s) : Srv(s, p)' = Srv(s, p) /\ Out(s, p)' = Out(s, p)
                                 /\ Back(s, p)' = Back(s, p)
         /\ LogKept /\ DOMAIN log' = DOMAIN log
         /\ \A c \in DOMAIN log :
              /\ log'[c].saved = log[c].saved /\ log'[c].committed = log[c].committed
              /\ IF log[c].by = s /\ log[c].answer = "none" THEN log'[c].answer = "gone"
                                                            ELSE log'[c] = log[c]
         /\ UNCHANGED <<msgNumber, crowded, slave>>
<1>1. /\ UNCHANGED <<msgNumber, crowded, queue, toSlave, toMaster, master, slave>>
      /\ Answer(s, "gone") /\ Busy(s) /\ user' = [user EXCEPT ![s] = NoCmd]
  BY DEF Leave, Busy, slaveVars
<1>2. /\ user'[s] = NoCmd /\ \A t \in Servers : t # s => user'[t] = user[t]
  BY <1>1 DEF TypeOK
<1>3. \A t \in Servers : \A p \in Others(t) :
        Srv(t, p)' = Srv(t, p) /\ Out(t, p)' = Out(t, p) /\ Back(t, p)' = Back(t, p)
  BY <1>1, SameOut, SameBack, SameSrv
<1> QED
  BY <1>1, <1>2, <1>3, AnswerKeeps DEF Untouched

\* A message of the exchange of m reaches its peer s.
Received(m, s) ==
  /\ \A t \in Servers : t # m => Untouched(t)
  /\ user'[m] = user[m] /\ queue'[m] = queue[m]
  /\ \A p \in Others(m) : /\ Srv(m, p)' = Srv(m, p)
                          /\ p # s => Out(m, p)' = Out(m, p) /\ Back(m, p)' = Back(m, p)
  /\ Out(m, s) # <<>> /\ Out(m, s)' = Tail(Out(m, s))
  /\ LogKept /\ UNCHANGED crowded

\* Nothing of the log changes but who has saved what.
OnlySaves ==
  /\ DOMAIN log' = DOMAIN log
  /\ \A c \in DOMAIN log : log'[c].answer = log[c].answer /\ log'[c].committed = log[c].committed

LEMMA ArrivesEffect ==
  ASSUME TypeOK, NEW m, NEW s, NEW kinds, Arrives(m, s, kinds),
         UNCHANGED <<user, master, queue, crowded>>, LogKept,
         \A p \in Pairs : p # <<m, s>> => toMaster'[p] = toMaster[p]
  PROVE  /\ m \in Servers /\ s \in Servers /\ s \in Others(m) /\ <<m, s>> \in Pairs
         /\ Head(Out(m, s)).kind \in kinds /\ Received(m, s)
<1>1. /\ <<m, s>> \in Pairs /\ toSlave[<<m, s>>] # <<>> /\ Head(toSlave[<<m, s>>]).kind \in kinds
      /\ toSlave' = [toSlave EXCEPT ![<<m, s>>] = Tail(@)]
  BY DEF Arrives
<1>2. m \in Servers /\ s \in Servers /\ s \in Others(m)
  BY <1>1 DEF Pairs, Others
<1>3. /\ toSlave'[<<m, s>>] = Tail(toSlave[<<m, s>>])
      /\ \A p \in Pairs : p # <<m, s>> => toSlave'[p] = toSlave[p]
  BY <1>1 DEF TypeOK
<1>4. \A t \in Servers : \A p \in Others(t) : t # m \/ p # s =>
        Out(t, p)' = Out(t, p) /\ Back(t, p)' = Back(t, p)
  <2>1. \A t \in Servers : \A p \in Others(t) :
          <<t, p>> \in Pairs /\ (t # m \/ p # s => <<t, p>> # <<m, s>>)
    BY Channels
  <2> QED
    BY <2>1, <1>3 DEF Out, Back
<1>5. \A t \in Servers : \A p \in Others(t) : Srv(t, p)' = Srv(t, p)
  BY SameSrv
<1> QED
  BY <1>1, <1>2, <1>3, <1>4, <1>5 DEF Received, Untouched, Out

LEMMA TellEffect ==
  ASSUME TypeOK, NEW m, NEW s, <<m, s>> \in Pairs,
         NEW kind \in {"ACK", "SUCCESS", "UNSUCCESS", "UNKNOWN"}, NEW num \in {NoNum} \cup Nums,
         Tell(m, s, kind, num)
  PROVE  /\ \A p \in Pairs : p # <<m, s>> => toMaster'[p] = toMaster[p]
         /\ \E a \in Answers : a.kind = kind /\ Back(m, s)' = Append(Back(m, s), a)
<1>1. PICK a : a = [kind |-> kind, num |-> num]
  OBVIOUS
<1>2. /\ a \in Answers /\ toMaster'[<<m, s>>] = Append(toMaster[<<m, s>>], a)
      /\ \A p \in Pairs : p # <<m, s>> => toMaster'[p] = toMaster[p]
  BY <1>1, TellOK, SMTT(20)
<1>3. a.kind = kind /\ Back(m, s)' = Append(Back(m, s), a)
  BY <1>1, <1>2 DEF Back
<1> QED
  BY <1>2, <1>3

LEMMA PrecommitEffect ==
  ASSUME TypeOK, NEW m, NEW s, Precommit(m, s)
  PROVE  /\ m \in Servers /\ s \in Servers /\ s \in Others(m) /\ Received(m, s)
         /\ Head(Out(m, s)).kind = "PRECOMMIT"
         /\ \E a \in Answers : a.kind = "ACK" /\ Back(m, s)' = Append(Back(m, s), a)
         /\ UNCHANGED <<log, msgNumber>>
<1>1. /\ Arrives(m, s, {"PRECOMMIT"}) /\ Tell(m, s, "ACK", NoNum)
      /\ UNCHANGED <<user, master, queue, crowded, log, msgNumber>>
  BY DEF Precommit, masterVars
<1>2. LogKept
  BY <1>1, LogSame
<1>3. <<m, s>> \in Pairs
  BY <1>1 DEF Arrives
<1>4. /\ \A p \in Pairs : p # <<m, s>> => toMaster'[p] = toMaster[p]
      /\ \E a \in Answers : a.kind = "ACK" /\ Back(m, s)' = Append(Back(m, s), a)
  BY <1>1, <1>3, TellEffect
<1>5. /\ m \in Servers /\ s \in Servers /\ s \in Others(m) /\ Received(m, s)
      /\ Head(Out(m, s)).kind \in {"PRECOMMIT"}
  BY <1>1, <1>2, <1>4, ArrivesEffect
<1> QED
  BY <1>1, <1>4, <1>5

\* ABORT, END, or a COMMIT that is refused: nothing is answered.
LEMMA DropEffect ==
  ASSUME TypeOK, NEW m, NEW s, AbortOrEnd(m, s) \/ CommitRefused(m, s)
  PROVE  /\ m \in Servers /\ s \in Servers /\ s \in Others(m) /\ Received(m, s)
         /\ Head(Out(m, s)).kind # "PRECOMMIT"
         /\ Back(m, s)' = Back(m, s)
         /\ UNCHANGED <<log, msgNumber>>
<1>1. /\ UNCHANGED <<user, master, queue, crowded, log, toMaster, msgNumber>>
      /\ Arrives(m, s, {"ABORT", "END", "COMMIT"})
  BY DEF AbortOrEnd, CommitRefused, masterVars, Arrives
<1>2. LogKept
  BY <1>1, LogSame
<1>3. /\ m \in Servers /\ s \in Servers /\ s \in Others(m) /\ Received(m, s)
      /\ Head(Out(m, s)).kind \in {"ABORT", "END", "COMMIT"}
  BY <1>1, <1>2, ArrivesEffect
<1>4. Back(m, s)' = Back(m, s)
  BY <1>1 DEF Back
<1> QED
  BY <1>1, <1>3, <1>4

LEMMA CommitEffect ==
  ASSUME TypeOK, NEW m, NEW s, Commit(m, s)
  PROVE  LET line == Head(Out(m, s)).line IN
         /\ m \in Servers /\ s \in Servers /\ s \in Others(m) /\ Received(m, s)
         /\ Head(Out(m, s)).kind = "COMMIT" /\ line \in Lines
         /\ OnlySaves
         /\ \E a \in Answers :
              /\ a.kind # "ACK" /\ Back(m, s)' = Append(Back(m, s), a)
              /\ a.kind = "SUCCESS" /\ line.text \in DOMAIN log => s \in log'[line.text].saved
         /\ \A c \in DOMAIN log : c # line.text => log'[c] = log[c]
         /\ \A c \in DOMAIN log : log'[c].saved \subseteq log[c].saved \cup {s}
         /\ msgNumber'[s] = Updated(msgNumber[s], log[line.text].kind, line.num)
         /\ \A t \in Servers : t # s => msgNumber'[t] = msgNumber[t]
<1>1. PICK line, kind : line = Head(toSlave[<<m, s>>]).line /\ kind = log[line.text].kind
  OBVIOUS
<1>2. /\ Arrives(m, s, {"COMMIT"}) /\ UNCHANGED <<user, master, queue, crowded>>
  BY DEF Commit
<1>3. m \in Servers /\ s \in Servers /\ <<m, s>> \in Pairs
  BY <1>2 DEF Arrives, Pairs
<1>4. /\ line \in Lines
      /\ msgNumber' = [msgNumber EXCEPT ![s] = Updated(@, kind, line.num)]
      /\ \E r \in SaveResults(s, kind, line) :
              /\ IF r.result = "WROTE" THEN SavedBy(s, line.text) ELSE UNCHANGED log
              /\ \E k \in {"SUCCESS", "UNSUCCESS", "UNKNOWN"} :
                   /\ Tell(m, s, k, line.num)
                   /\ k = "SUCCESS" <=> r.result = "WROTE"
  BY <1>1, CommitOK
<1>5. PICK k \in {"SUCCESS", "UNSUCCESS", "UNKNOWN"} :
        /\ Tell(m, s, k, line.num)
        /\ IF k = "SUCCESS" THEN SavedBy(s, line.text) ELSE UNCHANGED log
  BY <1>4
<1>6. line.num \in {NoNum} \cup Nums
  BY <1>4 DEF Lines
<1>7. /\ \A p \in Pairs : p # <<m, s>> => toMaster'[p] = toMaster[p]
      /\ \E a \in Answers : a.kind = k /\ Back(m, s)' = Append(Back(m, s), a)
  BY <1>3, <1>5, <1>6, TellEffect
<1>8. PICK a \in Answers : a.kind = k /\ Back(m, s)' = Append(Back(m, s), a)
  BY <1>7
<1>9. /\ DOMAIN log' = DOMAIN log
      /\ \A c \in DOMAIN log :
           /\ log'[c].by = log[c].by /\ log'[c].kind = log[c].kind /\ log'[c].num = log[c].num
           /\ log'[c].answer = log[c].answer /\ log'[c].committed = log[c].committed
           /\ log[c].saved \subseteq log'[c].saved /\ log'[c].saved \subseteq log[c].saved \cup {s}
           /\ c # line.text => log'[c] = log[c]
           /\ c = line.text /\ k = "SUCCESS" => s \in log'[c].saved
  <2>1. CASE k = "SUCCESS"
    <3>1. /\ DOMAIN log' = DOMAIN log
          /\ \A d \in DOMAIN log :
               log'[d] = IF d = line.text THEN [log[d] EXCEPT !.saved = @ \cup {s}] ELSE log[d]
      BY <2>1, <1>3, <1>5, SavedByOK
    <3>2. \A x \in Commands : LET y == [x EXCEPT !.saved = @ \cup {s}] IN
            /\ y.by = x.by /\ y.kind = x.kind /\ y.num = x.num /\ y.answer = x.answer
            /\ y.committed = x.committed /\ y.saved = x.saved \cup {s}
      BY DEF Commands
    <3>3. \A d \in DOMAIN log : log[d] \in Commands
      BY LogLength
    <3>4. ASSUME NEW c \in DOMAIN log
          PROVE  /\ log'[c].by = log[c].by /\ log'[c].kind = log[c].kind /\ log'[c].num = log[c].num
                 /\ log'[c].answer = log[c].answer /\ log'[c].committed = log[c].committed
                 /\ log[c].saved \subseteq log'[c].saved /\ log'[c].saved \subseteq log[c].saved \cup {s}
                 /\ c # line.text => log'[c] = log[c]
                 /\ c = line.text /\ k = "SUCCESS" => s \in log'[c].saved
      <4>1. CASE c = line.text
        <5>1. PICK x \in Commands : x = log[c]
          BY <3>3
        <5>2. log'[c] = [x EXCEPT !.saved = @ \cup {s}]
          BY <4>1, <5>1, <3>1
        <5>3. /\ log'[c].by = x.by /\ log'[c].kind = x.kind /\ log'[c].num = x.num
              /\ log'[c].answer = x.answer /\ log'[c].committed = x.committed
              /\ log'[c].saved = x.saved \cup {s}
          BY <5>2, <3>2
        <5> QED
          BY <4>1, <5>1, <5>3
      <4>2. CASE c # line.text
        BY <4>2, <3>1
      <4> QED
        BY <4>1, <4>2
    <3> QED
      BY <3>1, <3>4
  <2>2. CASE k # "SUCCESS"
    BY <2>2, <1>5
  <2> QED
    BY <2>1, <2>2
<1>10. LogKept /\ OnlySaves
  BY <1>2, <1>9 DEF LogKept, OnlySaves
<1>11. /\ msgNumber'[s] = Updated(msgNumber[s], kind, line.num)
       /\ \A t \in Servers : t # s => msgNumber'[t] = msgNumber[t]
  BY <1>3, <1>4 DEF TypeOK
<1>12. /\ s \in Others(m) /\ Received(m, s) /\ Head(Out(m, s)).kind \in {"COMMIT"}
  BY <1>2, <1>7, <1>10, ArrivesEffect
<1>13. line = Head(Out(m, s)).line
  BY <1>1 DEF Out
<1>14. \E b \in Answers :
              /\ b.kind # "ACK" /\ Back(m, s)' = Append(Back(m, s), b)
              /\ b.kind = "SUCCESS" /\ line.text \in DOMAIN log => s \in log'[line.text].saved
  BY <1>5, <1>8, <1>9
<1> QED
  BY <1>1, <1>3, <1>4, <1>9, <1>10, <1>11, <1>12, <1>13, <1>14

\* An answer reaches the master s.
LEMMA ReplyEffect ==
  ASSUME TypeOK, NEW s, NEW p, Reply(s, p)
  PROVE  /\ s \in Servers /\ p \in Others(s) /\ Back(s, p) # <<>>
         /\ \A t \in Servers : t # s => Untouched(t)
         /\ user'[s] = user[s]
         /\ \A q \in Others(s) : /\ Out(s, q)' = Out(s, q)
                                 /\ q # p => Back(s, q)' = Back(s, q) /\ Srv(s, q)' = Srv(s, q)
         /\ Back(s, p)' = Tail(Back(s, p)) /\ Srv(s, p)' = ReplyState(Head(Back(s, p)).kind)
         /\ \/ queue'[s] = queue[s]
            \/ \E e \in Events :
                 /\ e.type = ReplyEvent(Head(Back(s, p)).kind) /\ queue'[s] = Append(queue[s], e)
                 /\ Head(Back(s, p)).kind \in {"ACK", "SUCCESS"} =>
                      \A q \in Others(s) : Srv(s, q)' = ReplyState(Head(Back(s, p)).kind)
         /\ LogKept /\ UNCHANGED <<log, crowded, msgNumber, slave>>
<1>1. PICK a, st, srv, e :
        /\ a = Head(toMaster[<<s, p>>]) /\ st = ReplyState(a.kind)
        /\ srv = [master[s].srv EXCEPT ![p] = st]
        /\ e = Event(ReplyEvent(a.kind), a.num, a.kind = "UNKNOWN")
  OBVIOUS
<1>2. /\ s \in Servers /\ p \in Servers /\ s # p /\ <<s, p>> \in Pairs
      /\ toMaster[<<s, p>>] # <<>> /\ a \in Answers /\ e \in Events
      /\ toMaster'[<<s, p>>] = Tail(toMaster[<<s, p>>])
      /\ \A q \in Pairs : q # <<s, p>> => toMaster'[q] = toMaster[q]
      /\ master'[s].srv = srv
      /\ \A t \in Servers : t # s => master'[t] = master[t]
      /\ IF Reached(s, srv, st) THEN queue' = [queue EXCEPT ![s] = Append(@, e)]
                                ELSE UNCHANGED queue
  BY <1>1, ReplyOK
<1>3. UNCHANGED <<user, toSlave, log, crowded, msgNumber, slave>>
  BY DEF Reply, slaveVars
<1>4. p \in Others(s) /\ Back(s, p) # <<>> /\ Back(s, p)' = Tail(Back(s, p)) /\ a = Head(Back(s, p))
  BY <1>1, <1>2 DEF Others, Back
<1>5. \A t \in Servers : \A q \in Others(t) : /\ Out(t, q)' = Out(t, q)
                                              /\ t # s \/ q # p => Back(t, q)' = Back(t, q)
  <2>1. \A t \in Servers : \A q \in Others(t) : <<t, q>> \in Pairs
                                /\ (t # s \/ q # p => <<t, q>> # <<s, p>>)
    BY Channels
  <2> QED
    BY <2>1, <1>2, <1>3 DEF Out, Back
<1>6. /\ \A t \in Servers : t # s => \A q \in Others(t) : Srv(t, q)' = Srv(t, q)
      /\ \A q \in Others(s) : q # p => Srv(s, q)' = Srv(s, q)
      /\ Srv(s, p)' = st
      /\ \A q \in Others(s) : Srv(s, q)' = srv[q]
  <2>1. master[s].srv \in [Others(s) -> States]
    BY <1>2 DEF TypeOK, SyncLists
  <2>2. /\ \A q \in Others(s) : q # p => srv[q] = master[s].srv[q]
        /\ srv[p] = st
    BY <2>1, <1>1, <1>4
  <2> QED
    BY <2>2, <1>2 DEF Srv
<1>7. /\ \A t \in Servers : t # s => queue'[t] = queue[t]
      /\ queue'[s] = queue[s] \/ (queue'[s] = Append(queue[s], e) /\ Reached(s, srv, st))
  BY <1>2, PostOK
<1>8. e.type = ReplyEvent(a.kind)
  BY <1>1 DEF Event
<1>9. a.kind \in {"ACK", "SUCCESS"} /\ Reached(s, srv, st) => \A q \in Others(s) : srv[q] = st
  BY <1>1 DEF Reached, ReplyState
<1>10. LogKept
  BY <1>3, LogSame
<1>11. \A t \in Servers : t # s => Untouched(t)
  BY <1>3, <1>5, <1>6, <1>7 DEF Untouched
<1>12. \/ queue'[s] = queue[s]
       \/ /\ e \in Events /\ e.type = ReplyEvent(a.kind) /\ queue'[s] = Append(queue[s], e)
          /\ a.kind \in {"ACK", "SUCCESS"} => \A q \in Others(s) : Srv(s, q)' = ReplyState(a.kind)
  BY <1>1, <1>2, <1>6, <1>7, <1>8, <1>9, ZenonT(40)
<1> QED
  BY <1>1, <1>2, <1>3, <1>4, <1>5, <1>6, <1>10, <1>11, <1>12

\* An event after which the master s calls all peers.
LEMMA CallsEffect ==
  ASSUME TypeOK, NEW s \in Servers, NEW type, Takes(s, type),
         NEW kind \in {"PRECOMMIT", "ABORT", "COMMIT", "END"}, NEW line \in Lines,
         Multicast(s, kind, line),
         NEW st \in States, master' = [master EXCEPT ![s] = AllAt(@, st)],
         UNCHANGED toMaster, \A t \in Servers : t # s => user'[t] = user[t]
  PROVE  /\ \A t \in Servers : t # s => Untouched(t)
         /\ queue[s] \in Seq(Events) /\ queue[s] # <<>> /\ Head(queue[s]).type = type
         /\ queue'[s] = Tail(queue[s])
         /\ LET e == [kind |-> kind, line |-> line] IN
              /\ e \in Orders
              /\ \A p \in Others(s) : Out(s, p)' = Append(Out(s, p), e)
         /\ \A p \in Others(s) : Back(s, p)' = Back(s, p) /\ Srv(s, p)' = st
<1>1. /\ queue[s] \in Seq(Events) /\ queue[s] # <<>> /\ Head(queue[s]).type = type
      /\ queue'[s] = Tail(queue[s]) /\ \A t \in Servers : t # s => queue'[t] = queue[t]
  BY TakesOK DEF Takes
<1>2. LET e == [kind |-> kind, line |-> line] IN
      /\ e \in Orders
      /\ \A p \in Others(s) : Out(s, p)' = Append(Out(s, p), e)
      /\ \A t \in Servers : t # s => \A p \in Others(t) : Out(t, p)' = Out(t, p)
  BY MulticastEffect
<1>3. /\ \A p \in Others(s) : Srv(s, p)' = st
      /\ \A t \in Servers : t # s => \A p \in Others(t) : Srv(t, p)' = Srv(t, p)
  BY AllAtEffect
<1>4. \A t \in Servers : \A p \in Others(t) : Back(t, p)' = Back(t, p)
  BY SameBack
<1>5. \A t \in Servers : t # s => Untouched(t)
  BY <1>1, <1>2, <1>3, <1>4 DEF Untouched
<1> QED
  BY <1>1, <1>2, <1>3, <1>4, <1>5

\* Nothing of an exchange changes but the events of s, and those only become fewer.
OnlyQueue(s) ==
  /\ \A t \in Servers : t # s => Untouched(t)
  /\ user'[s] = user[s] /\ Fewer(queue[s], queue'[s])
  /\ \A p \in Others(s) : Srv(s, p)' = Srv(s, p) /\ Out(s, p)' = Out(s, p) /\ Back(s, p)' = Back(s, p)
  /\ LogKept /\ UNCHANGED <<log, crowded, msgNumber>>

LEMMA OnlyQueueIf ==
  ASSUME TypeOK, NEW s \in Servers, \A t \in Servers : t # s => queue'[t] = queue[t],
         Fewer(queue[s], queue'[s]),
         \A t \in Servers : \A p \in Others(t) : Srv(t, p)' = Srv(t, p),
         UNCHANGED <<user, toSlave, toMaster, log, crowded, msgNumber>>
  PROVE  OnlyQueue(s)
BY LogSame, SameOut, SameBack DEF OnlyQueue, Untouched

LEMMA FewerTrans ==
  ASSUME NEW q, NEW r, NEW u, Fewer(q, r), Fewer(r, u) PROVE Fewer(q, u)
BY DEF Fewer

LEMMA TakesFewer ==
  ASSUME TypeOK, NEW s \in Servers, NEW type, Takes(s, type)
  PROVE  Fewer(queue[s], queue'[s]) /\ \A t \in Servers : t # s => queue'[t] = queue[t]
BY TakesOK, TypesTail

LEMMA MasterTimerSrv ==
  ASSUME TypeOK, NEW s \in Servers, master' = [master EXCEPT ![s].timer = FALSE]
  PROVE  \A t \in Servers : \A p \in Others(t) : Srv(t, p)' = Srv(t, p)
<1>1. DOMAIN master = Servers /\ master[s] \in SyncLists(s)
  BY DEF TypeOK
<1>2. PICK x : x = [master[s] EXCEPT !.timer = FALSE]
  OBVIOUS
<1>3. x.srv = master[s].srv
  BY <1>1, <1>2 DEF SyncLists
<1>4. master' = [master EXCEPT ![s] = x]
  BY <1>2
<1>5. \A t \in Servers : master'[t].srv = master[t].srv
  BY <1>1, <1>3, <1>4
<1> QED
  BY <1>5 DEF Srv

LEMMA QueueSteps ==
  ASSUME TypeOK, NEW s \in Servers,
         \/ \E type \in {"COMMIT_SUCCESS", "COMMIT_UNSUCCESS"} : NothingWaits(s, type) \/ Spins(s, type)
         \/ MasterTimeout(s) \/ SlaveTimeout(s) \/ MasterTimer(s) \/ SlaveTimer(s)
         \/ AllAcknowledged(s) /\ ~WaitsCommit(s)
  PROVE  OnlyQueue(s)
<1>1. ASSUME NEW type, NothingWaits(s, type) \/ Spins(s, type) PROVE OnlyQueue(s)
  <2>1. Takes(s, type) /\ UNCHANGED <<user, master, toSlave, toMaster, log, crowded, msgNumber>>
    BY <1>1 DEF NothingWaits, Spins, masterVars
  <2> QED
    BY <2>1, TakesFewer, SameSrv, OnlyQueueIf
<1>2. CASE SlaveTimeout(s)
  <2>1. /\ Takes(s, "TIMEOUT_SLAVE")
        /\ UNCHANGED <<user, master, toSlave, toMaster, log, crowded, msgNumber>>
    BY <1>2 DEF SlaveTimeout, masterVars
  <2> QED
    BY <2>1, TakesFewer, SameSrv, OnlyQueueIf
<1>3. CASE AllAcknowledged(s) /\ ~WaitsCommit(s)
  <2>1. /\ Takes(s, "PRECOMMIT_ACK")
        /\ UNCHANGED <<user, master, toSlave, toMaster, log, crowded, msgNumber>>
    BY <1>3 DEF AllAcknowledged, masterVars, WaitsCommit
  <2> QED
    BY <2>1, TakesFewer, SameSrv, OnlyQueueIf
<1>4. CASE MasterTimeout(s)
  <2>1. UNCHANGED <<user, master, toSlave, toMaster, log, crowded, msgNumber>>
    BY <1>4 DEF MasterTimeout, masterVars
  <2>2. /\ queue[s] \in Seq(Events) /\ queue[s] # <<>> /\ Tail(queue[s]) \in Seq(Events)
        /\ \/ queue'[s] = Tail(queue[s])
           \/ \E e \in Events : /\ e.type \in {"PRECOMMIT_ERR", "COMMIT_UNSUCCESS"}
                                /\ queue'[s] = Append(Tail(queue[s]), e)
        /\ \A t \in Servers : t # s => queue'[t] = queue[t]
    <3>1. \A type : Event(type, NoNum, FALSE).type = type
      BY DEF Event
    <3> QED
      BY <1>4, <3>1, MasterTimeoutOK
  <2>3. Fewer(queue[s], Tail(queue[s]))
    BY <2>2, TypesTail
  <2>4. ASSUME NEW e \in Events, e.type \in {"PRECOMMIT_ERR", "COMMIT_UNSUCCESS"}
        PROVE  Fewer(Tail(queue[s]), Append(Tail(queue[s]), e))
    BY <2>2, <2>4, TypesAppend
  <2>5. Fewer(queue[s], queue'[s])
    BY <2>2, <2>3, <2>4, FewerTrans
  <2> QED
    BY <2>1, <2>2, <2>5, SameSrv, OnlyQueueIf
<1>5. CASE MasterTimer(s) \/ SlaveTimer(s)
  <2>1. PICK type \in {"TIMEOUT_MASTER", "TIMEOUT_SLAVE"} : Expires(s, type)
    BY <1>5 DEF MasterTimer, SlaveTimer
  <2>2. PICK e : e = Event(type, NoNum, FALSE)
    OBVIOUS
  <2>3. e.type = type
    BY <2>2 DEF Event
  <2>4. /\ queue[s] \in Seq(Events) /\ e \in Events /\ queue'[s] = Append(queue[s], e)
        /\ \A t \in Servers : t # s => queue'[t] = queue[t]
        /\ UNCHANGED <<msgNumber, user, toSlave, toMaster, log, crowded>>
    BY <2>1, <2>2, ExpiresTypes
  <2>5. Fewer(queue[s], queue'[s])
    BY <2>3, <2>4, TypesAppend
  <2>6. \A t \in Servers : \A p \in Others(t) : Srv(t, p)' = Srv(t, p)
    BY <1>5, SameSrv, MasterTimerSrv DEF MasterTimer, SlaveTimer
  <2> QED
    BY <2>4, <2>5, <2>6, OnlyQueueIf
<1> QED
  BY <1>1, <1>2, <1>3, <1>4, <1>5

\* The peers acknowledged the command of s: COMMIT.
LEMMA AcknowledgedEffect ==
  ASSUME TypeOK, NEW s \in Servers, AllAcknowledged(s), WaitsCommit(s)
  PROVE  /\ \A t \in Servers : t # s => Untouched(t)
         /\ queue[s] \in Seq(Events) /\ queue[s] # <<>> /\ Head(queue[s]).type = "PRECOMMIT_ACK"
         /\ queue'[s] = Tail(queue[s])
         /\ LET e == [kind |-> "COMMIT", line |-> user[s].line] IN
              /\ e \in Orders
              /\ \A p \in Others(s) : Out(s, p)' = Append(Out(s, p), e)
         /\ \A p \in Others(s) : Back(s, p)' = Back(s, p) /\ Srv(s, p)' = "M_COMMITED"
         /\ user'[s].state = "U_WAITING_SAVE" /\ user'[s].line = user[s].line
         /\ user'[s].kind = user[s].kind
         /\ DOMAIN log' = DOMAIN log
         /\ \A c \in DOMAIN log :
              /\ c # Cmd(s) => log'[c] = log[c]
              /\ c = Cmd(s) => log'[c].committed = TRUE
              /\ log'[c].by = log[c].by /\ log'[c].kind = log[c].kind /\ log'[c].num = log[c].num
              /\ log'[c].answer = log[c].answer /\ log'[c].saved = log[c].saved
         /\ UNCHANGED <<crowded, msgNumber, slave>>
<1>1. /\ Takes(s, "PRECOMMIT_ACK") /\ Multicast(s, "COMMIT", user[s].line)
      /\ master' = [master EXCEPT ![s] = AllAt(@, "M_COMMITED")]
      /\ user' = [user EXCEPT ![s].state = "U_WAITING_SAVE"]
      /\ log' = [log EXCEPT ![user[s].line.text].committed = TRUE]
      /\ UNCHANGED <<toMaster, crowded, msgNumber, slave>>
  BY DEF AllAcknowledged, WaitsCommit, slaveVars
<1>2. user[s] \in Users /\ user[s].line \in Lines /\ user \in [Servers -> Users]
  BY DEF TypeOK, Users
<1>3. PICK u : u = [user[s] EXCEPT !.state = "U_WAITING_SAVE"]
  OBVIOUS
<1>4. u.state = "U_WAITING_SAVE" /\ u.line = user[s].line /\ u.kind = user[s].kind
  BY <1>2, <1>3 DEF Users
<1>5. user' = [user EXCEPT ![s] = u]
  BY <1>1, <1>3
<1>6. user'[s] = u /\ \A t \in Servers : t # s => user'[t] = user[t]
  BY <1>2, <1>5
<1>7. "M_COMMITED" \in States
  BY DEF States
<1>8. PICK c : c = Cmd(s)
  OBVIOUS
<1>9. PICK x : x = [log[c] EXCEPT !.committed = TRUE]
  OBVIOUS
<1>10. log' = [log EXCEPT ![c] = x]
  BY <1>1, <1>8, <1>9 DEF Cmd
<1>11. \A y \in Commands : LET z == [y EXCEPT !.committed = TRUE] IN
         /\ z.by = y.by /\ z.kind = y.kind /\ z.num = y.num /\ z.answer = y.answer
         /\ z.saved = y.saved /\ z.committed = TRUE /\ z \in Commands
  BY DEF Commands
<1>12. \A d \in DOMAIN log : log[d] \in Commands
  BY LogLength
<1>13. c \in DOMAIN log => x \in Commands
  BY <1>9, <1>11, <1>12
<1>14. DOMAIN log' = DOMAIN log /\ \A d \in DOMAIN log : log'[d] = IF d = c THEN x ELSE log[d]
  BY <1>10, <1>13, LogEntryChanged
<1>15. ASSUME NEW d \in DOMAIN log
       PROVE  /\ d # c => log'[d] = log[d]
              /\ d = c => log'[d].committed = TRUE
              /\ log'[d].by = log[d].by /\ log'[d].kind = log[d].kind /\ log'[d].num = log[d].num
              /\ log'[d].answer = log[d].answer /\ log'[d].saved = log[d].saved
  <2>1. CASE d = c
    <3>1. PICK y \in Commands : y = log[d]
      BY <1>12
    <3>2. log'[d] = [y EXCEPT !.committed = TRUE]
      BY <2>1, <3>1, <1>9, <1>14
    <3> QED
      BY <2>1, <3>1, <3>2, <1>11
  <2>2. CASE d # c
    BY <2>2, <1>14
  <2> QED
    BY <2>1, <2>2
<1>16. /\ \A t \in Servers : t # s => Untouched(t)
       /\ queue[s] \in Seq(Events) /\ queue[s] # <<>> /\ Head(queue[s]).type = "PRECOMMIT_ACK"
       /\ queue'[s] = Tail(queue[s])
       /\ LET e == [kind |-> "COMMIT", line |-> user[s].line] IN
            /\ e \in Orders
            /\ \A p \in Others(s) : Out(s, p)' = Append(Out(s, p), e)
       /\ \A p \in Others(s) : Back(s, p)' = Back(s, p) /\ Srv(s, p)' = "M_COMMITED"
  BY <1>1, <1>2, <1>6, <1>7, CallsEffect
<1> QED
  BY <1>1, <1>4, <1>6, <1>8, <1>14, <1>15, <1>16

\* The master s calls its peers off or ends the exchange, and its list is IDLE again.
CallsOff(s, type, kind) ==
  /\ \A t \in Servers : t # s => Untouched(t)
  /\ queue[s] \in Seq(Events) /\ queue[s] # <<>> /\ Head(queue[s]).type = type
  /\ queue'[s] = Tail(queue[s])
  /\ \E e \in Orders : e.kind = kind /\ \A p \in Others(s) : Out(s, p)' = Append(Out(s, p), e)
  /\ \A p \in Others(s) : Back(s, p)' = Back(s, p) /\ Srv(s, p)' = "IDLE"
  /\ LogKept /\ DOMAIN log' = DOMAIN log
  /\ UNCHANGED <<crowded, msgNumber, slave>>

LEMMA CallsOffIf ==
  ASSUME TypeOK, NEW s \in Servers, NEW type, Takes(s, type),
         NEW kind \in {"ABORT", "END"}, Multicast(s, kind, NoLine),
         master' = [master EXCEPT ![s] = AllAt(@, "IDLE")],
         UNCHANGED <<toMaster, crowded, msgNumber, slave>>, LogKept, DOMAIN log' = DOMAIN log,
         \A t \in Servers : t # s => user'[t] = user[t]
  PROVE  CallsOff(s, type, kind)
<1>1. PICK e : e = [kind |-> kind, line |-> NoLine]
  OBVIOUS
<1>2. "IDLE" \in States /\ e.kind = kind
  BY <1>1 DEF States
<1>3. /\ queue[s] \in Seq(Events) /\ queue[s] # <<>> /\ Head(queue[s]).type = type
      /\ queue'[s] = Tail(queue[s]) /\ \A t \in Servers : t # s => queue'[t] = queue[t]
  BY TakesOK DEF Takes
<1>4. /\ e \in Orders
      /\ \A p \in Others(s) : Out(s, p)' = Append(Out(s, p), e)
      /\ \A t \in Servers : t # s => \A p \in Others(t) : Out(t, p)' = Out(t, p)
  <2>1. LET x == [kind |-> kind, line |-> NoLine] IN
        /\ x \in Orders
        /\ \A p \in Others(s) : Out(s, p)' = Append(Out(s, p), x)
        /\ \A t \in Servers : t # s => \A p \in Others(t) : Out(t, p)' = Out(t, p)
    BY NoLineOK, MulticastEffect
  <2> QED
    BY <1>1, <2>1
<1>5. /\ \A p \in Others(s) : Srv(s, p)' = "IDLE"
      /\ \A t \in Servers : t # s => \A p \in Others(t) : Srv(t, p)' = Srv(t, p)
  BY <1>2, AllAtEffect
<1>6. \A t \in Servers : \A p \in Others(t) : Back(t, p)' = Back(t, p)
  BY SameBack
<1>7. \A t \in Servers : t # s => Untouched(t)
  BY <1>3, <1>4, <1>5, <1>6 DEF Untouched
<1> QED
  BY <1>2, <1>3, <1>4, <1>5, <1>6, <1>7 DEF CallsOff

\* What is said of the command of s that had no answer, and of the others.
Told(s, v) ==
  \A c \in DOMAIN log :
    /\ log'[c].saved = log[c].saved /\ log'[c].committed = log[c].committed
    /\ IF log[c].by = s /\ log[c].answer = "none" THEN log'[c].answer = v ELSE log'[c] = log[c]

LEMMA GivesUpEffect ==
  ASSUME TypeOK, NEW s \in Servers, GivesUp(s)
  PROVE  /\ CallsOff(s, "PRECOMMIT_ERR", "ABORT")
         /\ IF WaitsCommit(s) THEN user'[s] = NoCmd /\ Told(s, "ERROR")
                              ELSE user'[s] = user[s] /\ UNCHANGED log
<1>1. /\ Takes(s, "PRECOMMIT_ERR") /\ Multicast(s, "ABORT", NoLine)
      /\ master' = [master EXCEPT ![s] = AllAt(@, "IDLE")]
      /\ UNCHANGED <<toMaster, crowded, msgNumber, slave>>
  BY DEF GivesUp, slaveVars
<1>2. CASE WaitsCommit(s)
  <2>1. Answer(s, "ERROR") /\ user' = [user EXCEPT ![s] = NoCmd]
    BY <1>2 DEF GivesUp, WaitsCommit
  <2>2. user'[s] = NoCmd /\ \A t \in Servers : t # s => user'[t] = user[t]
    BY <2>1 DEF TypeOK
  <2>3. LogKept /\ DOMAIN log' = DOMAIN log /\ Told(s, "ERROR")
    BY <1>1, <2>1, AnswerKeeps DEF Told
  <2> QED
    BY <1>1, <1>2, <2>2, <2>3, CallsOffIf
<1>3. CASE ~WaitsCommit(s)
  <2>1. UNCHANGED <<user, log>>
    BY <1>3 DEF GivesUp, WaitsCommit
  <2> QED
    BY <1>1, <1>3, <2>1, LogSame, CallsOffIf
<1> QED
  BY <1>2, <1>3

LEMMA UndoneEffect ==
  ASSUME TypeOK, NEW s \in Servers, Undone(s)
  PROVE  /\ CallsOff(s, "COMMIT_UNSUCCESS", "END") /\ WaitsSave(s) /\ user'[s] = NoCmd
         /\ \E v \in {"ERROR", "UNKNOWN"} : Told(s, v)
<1>1. /\ Takes(s, "COMMIT_UNSUCCESS") /\ Multicast(s, "END", NoLine) /\ WaitsSave(s)
      /\ master' = [master EXCEPT ![s] = AllAt(@, "IDLE")]
      /\ user' = [user EXCEPT ![s] = NoCmd]
      /\ UNCHANGED <<toMaster, crowded, msgNumber, slave>>
  BY DEF Undone, slaveVars, WaitsSave
<1>2. PICK v \in {"ERROR", "UNKNOWN"} : Answer(s, v)
  BY DEF Undone
<1>3. user'[s] = NoCmd /\ \A t \in Servers : t # s => user'[t] = user[t]
  BY <1>1 DEF TypeOK
<1>4. LogKept /\ DOMAIN log' = DOMAIN log /\ Told(s, v)
  BY <1>1, <1>2, AnswerKeeps DEF Told
<1> QED
  BY <1>1, <1>3, <1>4, CallsOffIf

LEMMA AllPerformedEffect ==
  ASSUME TypeOK, NEW s \in Servers, AllPerformed(s),
         Cmd(s) \in DOMAIN log, log[Cmd(s)].answer = "none"
  PROVE  /\ CallsOff(s, "COMMIT_SUCCESS", "END") /\ WaitsSave(s) /\ user'[s] = NoCmd
         /\ \A c \in DOMAIN log : c # Cmd(s) => log'[c] = log[c]
         /\ log'[Cmd(s)].answer \in {"WROTE", "UNKNOWN", "ERROR"}
         /\ log'[Cmd(s)].committed = log[Cmd(s)].committed
         /\ log'[Cmd(s)].answer = "WROTE" => s \in log'[Cmd(s)].saved
<1>1. /\ Takes(s, "COMMIT_SUCCESS") /\ Multicast(s, "END", NoLine) /\ WaitsSave(s)
      /\ master' = [master EXCEPT ![s] = AllAt(@, "IDLE")]
      /\ user' = [user EXCEPT ![s] = NoCmd]
      /\ UNCHANGED <<toMaster, crowded, msgNumber, slave>>
  BY DEF AllPerformed, slaveVars, WaitsSave
<1>2. user'[s] = NoCmd /\ \A t \in Servers : t # s => user'[t] = user[t]
  BY <1>1 DEF TypeOK
<1>3. user[s].line \in Lines
  BY DEF TypeOK, Users
<1>4. PICK r \in SaveResults(s, user[s].kind, user[s].line) :
        log' = [log EXCEPT ![user[s].line.text].answer = r.result,
                           ![user[s].line.text].saved = IF r.result = "WROTE"
                                                          THEN @ \cup {s} ELSE @]
  BY DEF AllPerformed
<1>5. PICK c, v : c = Cmd(s) /\ v = r.result
  OBVIOUS
<1>6. v \in {"WROTE", "UNKNOWN", "ERROR"} /\ c \in DOMAIN log
  BY <1>3, <1>4, <1>5, SaveResultsOK
<1>7. log' = [log EXCEPT ![c].answer = v,
                         ![c].saved = IF v = "WROTE" THEN @ \cup {s} ELSE @]
  BY <1>4, <1>5 DEF Cmd
<1>8. /\ DOMAIN log' = DOMAIN log
      /\ \A d \in DOMAIN log : log'[d] =
           IF d = c THEN [log[d] EXCEPT !.answer = v, !.saved = IF v = "WROTE" THEN @ \cup {s} ELSE @]
                    ELSE log[d]
  BY <1>6, <1>7, PerformedLog
<1>9. \A y \in Commands :
        LET z == [y EXCEPT !.answer = v, !.saved = IF v = "WROTE" THEN @ \cup {s} ELSE @] IN
        /\ z.by = y.by /\ z.kind = y.kind /\ z.num = y.num /\ z.answer = v
        /\ z.saved = (IF v = "WROTE" THEN y.saved \cup {s} ELSE y.saved)
        /\ z.committed = y.committed
  BY DEF Commands
<1>10. PICK y \in Commands : y = log[c]
  BY <1>6, LogLength
<1>11. log'[c] = [y EXCEPT !.answer = v, !.saved = IF v = "WROTE" THEN @ \cup {s} ELSE @]
  BY <1>6, <1>8, <1>10
<1>12. /\ log'[c].by = y.by /\ log'[c].kind = y.kind /\ log'[c].num = y.num
       /\ log'[c].answer = v /\ log'[c].committed = y.committed
       /\ log'[c].saved = (IF v = "WROTE" THEN y.saved \cup {s} ELSE y.saved)
  BY <1>9, <1>11
<1>13. \A d \in DOMAIN log : d # c => log'[d] = log[d]
  BY <1>8
<1>14. LogKept
  <2>1. ASSUME NEW d \in DOMAIN log
        PROVE  /\ d \in DOMAIN log'
               /\ log'[d].by = log[d].by /\ log'[d].kind = log[d].kind /\ log'[d].num = log[d].num
               /\ log[d].saved \subseteq log'[d].saved
               /\ log[d].answer # "none" =>
                    log'[d].answer = log[d].answer /\ log'[d].committed = log[d].committed
    <3>1. CASE d = c
      BY <3>1, <1>5, <1>8, <1>10, <1>12
    <3>2. CASE d # c
      BY <3>2, <1>8, <1>13
    <3> QED
      BY <3>1, <3>2
  <2> QED
    BY <2>1, <1>1 DEF LogKept
<1>15. CallsOff(s, "COMMIT_SUCCESS", "END")
  BY <1>1, <1>2, <1>8, <1>14, CallsOffIf
<1>16. /\ log'[c].answer \in {"WROTE", "UNKNOWN", "ERROR"}
       /\ log'[c].committed = log[c].committed
       /\ log'[c].answer = "WROTE" => s \in log'[c].saved
  BY <1>6, <1>10, <1>12
<1> QED
  BY <1>1, <1>2, <1>5, <1>13, <1>15, <1>16

-----------------------------------------------------------------------------
(* How far an exchange has come between its master and one peer: o is under *)
(* way to the peer, b under way back, v is what the master's list says      *)

Asks(o, b, v) ==
  /\ OnlyLast(o, "PRECOMMIT") /\ OnlyLast(b, "ACK")
  /\ "PRECOMMIT" \in KindsOf(o) => "ACK" \notin KindsOf(b)
  /\ "ACK" \in KindsOf(b) => o = <<>>
  /\ v = "M_PRECOMMITED" => o = <<>> /\ b = <<>>

Asked(o, b) == "PRECOMMIT" \notin KindsOf(o) /\ "ACK" \notin KindsOf(b)

Saves(o, b, v) ==
  /\ Once(o, "COMMIT") /\ Once(b, "SUCCESS")
  /\ "COMMIT" \in KindsOf(o) => "SUCCESS" \notin KindsOf(b)
  /\ v = "M_OPERATION_PERFORMED" => "COMMIT" \notin KindsOf(o) /\ "SUCCESS" \notin KindsOf(b)

Saved(o, b) == "COMMIT" \notin KindsOf(o) /\ "SUCCESS" \notin KindsOf(b)

\* Nothing is under way but the command c, and where it is said to be saved it is.
SavesOnly(o, b, v, c, p, saved) ==
  /\ \A i \in DOMAIN o : o[i].kind = "COMMIT" => o[i].line.text = c
  /\ "SUCCESS" \in KindsOf(b) \/ v = "M_OPERATION_PERFORMED" => p \in saved

LEMMA AppendedCommits ==
  ASSUME NEW o \in Seq(Orders), NEW e \in Orders, NEW c,
         \A i \in DOMAIN o : o[i].kind = "COMMIT" => o[i].line.text = c,
         e.kind = "COMMIT" => e.line.text = c
  PROVE  \A i \in DOMAIN Append(o, e) : Append(o, e)[i].kind = "COMMIT" => Append(o, e)[i].line.text = c
<1>1. PICK r : r = Append(o, e)
  OBVIOUS
<1>2. /\ DOMAIN r = 1 .. Len(o) + 1 /\ Len(o) \in Nat /\ DOMAIN o = 1 .. Len(o)
      /\ \A i \in DOMAIN o : r[i] = o[i]
      /\ r[Len(o) + 1] = e
  BY <1>1, Appends
<1>3. \A i \in DOMAIN r : (i \in DOMAIN o /\ r[i] = o[i]) \/ r[i] = e
  BY <1>2
<1> QED
  BY <1>1, <1>3

\* The exchange begins: PRECOMMIT is sent.
LEMMA AsksFirst ==
  ASSUME NEW o \in Seq(Orders), NEW b, NEW e \in Orders, e.kind = "PRECOMMIT", Asked(o, b)
  PROVE  Asks(Append(o, e), b, "M_PRECOMMIT_MULTICASTED")
<1>1. OnlyLast(Append(o, e), "PRECOMMIT")
  BY KindsAppend DEF Asked
<1>2. OnlyLast(b, "ACK") /\ "ACK" \notin KindsOf(b)
  BY DEF Asked, OnlyLast, KindsOf
<1> QED
  BY <1>1, <1>2 DEF Asks

\* Another message is sent.
LEMMA SendsOther ==
  ASSUME NEW o \in Seq(Orders), NEW b, NEW e \in Orders
  PROVE  /\ Asked(o, b) /\ e.kind # "PRECOMMIT" => Asked(Append(o, e), b)
         /\ Saved(o, b) /\ e.kind # "COMMIT" => Saved(Append(o, e), b)
         /\ \A v : Saves(o, b, v) /\ e.kind # "COMMIT" => Saves(Append(o, e), b, "IDLE")
         /\ Saved(o, b) => Saves(Append(o, e), b, "M_COMMITED")
         /\ \A v, c, p, d : SavesOnly(o, b, v, c, p, d) /\ e.kind # "COMMIT"
                           => SavesOnly(Append(o, e), b, "IDLE", c, p, d)
         /\ \A c, p, d : Saved(o, b) /\ e.line.text = c => SavesOnly(Append(o, e), b, "M_COMMITED", c, p, d)
<1>1. KindsOf(Append(o, e)) = KindsOf(o) \cup {e.kind}
  BY KindsAppend
<1>2. Asked(o, b) /\ e.kind # "PRECOMMIT" => Asked(Append(o, e), b)
  BY <1>1 DEF Asked
<1>3. Saved(o, b) /\ e.kind # "COMMIT" => Saved(Append(o, e), b)
  BY <1>1 DEF Saved
<1>4. ASSUME NEW v, Saves(o, b, v), e.kind # "COMMIT"
      PROVE  Saves(Append(o, e), b, "IDLE")
  BY <1>1, <1>4, KindsAppend DEF Saves
<1>5. ASSUME Saved(o, b) PROVE Saves(Append(o, e), b, "M_COMMITED")
  <2>1. Once(Append(o, e), "COMMIT")
    BY <1>5, KindsAppend DEF Saved
  <2>2. Once(b, "SUCCESS") /\ "SUCCESS" \notin KindsOf(b)
    BY <1>5 DEF Saved, Once, KindsOf
  <2> QED
    BY <2>1, <2>2 DEF Saves
<1>6. ASSUME NEW v, NEW c, NEW p, NEW d, SavesOnly(o, b, v, c, p, d), e.kind # "COMMIT"
      PROVE  SavesOnly(Append(o, e), b, "IDLE", c, p, d)
  BY <1>6, AppendedCommits DEF SavesOnly
<1>7. ASSUME NEW c, NEW p, NEW d, Saved(o, b), e.line.text = c
      PROVE  SavesOnly(Append(o, e), b, "M_COMMITED", c, p, d)
  <2>1. \A i \in DOMAIN o : o[i].kind = "COMMIT" => o[i].line.text = c
    BY <1>7 DEF Saved, KindsOf
  <2> QED
    BY <1>7, <2>1, AppendedCommits DEF SavesOnly, Saved
<1> QED
  BY <1>2, <1>3, <1>4, <1>5, <1>6, <1>7

\* PRECOMMIT reaches the peer, which acknowledges it.
LEMMA PrecommitArrives ==
  ASSUME NEW o \in Seq(Orders), NEW b \in Seq(Answers), NEW a \in Answers, NEW v,
         o # <<>>, Head(o).kind = "PRECOMMIT", a.kind = "ACK"
  PROVE  /\ Asks(o, b, v) => Asks(Tail(o), Append(b, a), v)
         /\ ~Asked(o, b)
         /\ Saved(o, b) => Saved(Tail(o), Append(b, a))
         /\ Saves(o, b, v) => Saves(Tail(o), Append(b, a), v)
         /\ \A c, p, d : SavesOnly(o, b, v, c, p, d) => SavesOnly(Tail(o), Append(b, a), v, c, p, d)
<1>1. KindsOf(Tail(o)) \subseteq KindsOf(o) /\ "PRECOMMIT" \in KindsOf(o)
  BY KindsTail
<1>2. KindsOf(Append(b, a)) = KindsOf(b) \cup {"ACK"}
  BY KindsAppend
<1>3. ASSUME Asks(o, b, v) PROVE Asks(Tail(o), Append(b, a), v)
  <2>1. Tail(o) = <<>> /\ "ACK" \notin KindsOf(b) /\ v # "M_PRECOMMITED"
    BY <1>1, <1>3, KindsTail DEF Asks
  <2>2. OnlyLast(Append(b, a), "ACK")
    BY <2>1, KindsAppend
  <2>3. OnlyLast(Tail(o), "PRECOMMIT")
    BY <1>3, KindsTail DEF Asks
  <2>4. "PRECOMMIT" \notin KindsOf(Tail(o))
    BY <2>1, KindsEmpty
  <2> QED
    BY <2>1, <2>2, <2>3, <2>4 DEF Asks
<1>4. ~Asked(o, b) /\ (Saved(o, b) => Saved(Tail(o), Append(b, a)))
  BY <1>1, <1>2 DEF Asked, Saved
<1>5. ASSUME Saves(o, b, v) PROVE Saves(Tail(o), Append(b, a), v)
  <2>1. Once(Tail(o), "COMMIT") /\ Once(Append(b, a), "SUCCESS")
    BY <1>5, KindsTail, KindsAppend DEF Saves
  <2> QED
    BY <1>1, <1>2, <1>5, <2>1 DEF Saves
<1>6. ASSUME NEW c, NEW p, NEW d, SavesOnly(o, b, v, c, p, d)
      PROVE  SavesOnly(Tail(o), Append(b, a), v, c, p, d)
  BY <1>2, <1>6, Tails DEF SavesOnly
<1> QED
  BY <1>3, <1>4, <1>5, <1>6

\* Another message reaches the peer, which may answer, but not acknowledge.
LEMMA OtherArrives ==
  ASSUME NEW o \in Seq(Orders), NEW b \in Seq(Answers), NEW b1, NEW v,
         o # <<>>, Head(o).kind # "PRECOMMIT",
         \/ b1 = b
         \/ Head(o).kind = "COMMIT" /\ \E a \in Answers : a.kind # "ACK" /\ b1 = Append(b, a)
  PROVE  /\ Asks(o, b, v) => Asks(Tail(o), b1, v)
         /\ Asked(o, b) => Asked(Tail(o), b1)
         /\ Saved(o, b) => Saved(Tail(o), b1) /\ Head(o).kind # "COMMIT"
         /\ Saves(o, b, v) => Saves(Tail(o), b1, v)
<1>1. KindsOf(Tail(o)) \subseteq KindsOf(o) /\ Head(o).kind \in KindsOf(o)
  BY KindsTail
<1>2. /\ KindsOf(b1) \subseteq KindsOf(b) \cup {"SUCCESS", "UNSUCCESS", "UNKNOWN"}
      /\ "ACK" \notin KindsOf(b) => "ACK" \notin KindsOf(b1)
      /\ Head(o).kind # "COMMIT" => b1 = b
      /\ "SUCCESS" \notin KindsOf(b) => Once(b1, "SUCCESS")
  <2>1. CASE b1 = b
    BY <2>1 DEF Once, KindsOf
  <2>2. ASSUME NEW a \in Answers, Head(o).kind = "COMMIT", a.kind # "ACK", b1 = Append(b, a)
        PROVE  /\ KindsOf(b1) \subseteq KindsOf(b) \cup {"SUCCESS", "UNSUCCESS", "UNKNOWN"}
               /\ Once(b1, "SUCCESS") \/ "SUCCESS" \in KindsOf(b)
    <3>1. KindsOf(b1) = KindsOf(b) \cup {a.kind}
      BY <2>2, KindsAppend
    <3>2. a.kind \in {"SUCCESS", "UNSUCCESS", "UNKNOWN"}
      BY <2>2 DEF Answers
    <3> QED
      BY <2>2, <3>1, <3>2, KindsAppend
  <2> QED
    BY <2>1, <2>2
<1>3. ASSUME Asks(o, b, v) PROVE Asks(Tail(o), b1, v)
  <2>1. "ACK" \notin KindsOf(b1) /\ v # "M_PRECOMMITED" /\ OnlyLast(Tail(o), "PRECOMMIT")
    BY <1>2, <1>3, KindsTail DEF Asks
  <2> QED
    BY <2>1 DEF Asks, OnlyLast, KindsOf
<1>4. Asked(o, b) => Asked(Tail(o), b1)
  BY <1>1, <1>2 DEF Asked
<1>5. Saved(o, b) => Saved(Tail(o), b1) /\ Head(o).kind # "COMMIT"
  BY <1>1, <1>2 DEF Saved
<1>6. ASSUME Saves(o, b, v) PROVE Saves(Tail(o), b1, v)
  <2>1. Once(Tail(o), "COMMIT")
    BY <1>6, KindsTail DEF Saves
  <2>2. CASE Head(o).kind = "COMMIT"
    <3>1. /\ "COMMIT" \notin KindsOf(Tail(o)) /\ Once(b1, "SUCCESS")
          /\ v # "M_OPERATION_PERFORMED"
      BY <1>1, <1>2, <1>6, <2>2, KindsTail DEF Saves
    <3> QED
      BY <2>1, <3>1 DEF Saves
  <2>3. CASE Head(o).kind # "COMMIT"
    BY <1>1, <1>2, <1>6, <2>1, <2>3 DEF Saves
  <2> QED
    BY <2>2, <2>3
<1> QED
  BY <1>3, <1>4, <1>5, <1>6

\* An answer reaches the master.
LEMMA AnswerArrives ==
  ASSUME NEW o \in Seq(Orders), NEW b \in Seq(Answers), NEW v, b # <<>>
  PROVE  LET st == ReplyState(Head(b).kind) IN
         /\ Asks(o, b, v) => Asks(o, Tail(b), st)
         /\ Asked(o, b) => Asked(o, Tail(b)) /\ Head(b).kind # "ACK"
         /\ Saved(o, b) => Saved(o, Tail(b)) /\ Head(b).kind # "SUCCESS"
         /\ Saves(o, b, v) => Saves(o, Tail(b), st)
         /\ \A c, p, d : SavesOnly(o, b, v, c, p, d) => SavesOnly(o, Tail(b), st, c, p, d)
<1>1. PICK st : st = ReplyState(Head(b).kind)
  OBVIOUS
<1>2. /\ st = "M_PRECOMMITED" <=> Head(b).kind = "ACK"
      /\ st = "M_OPERATION_PERFORMED" <=> Head(b).kind = "SUCCESS"
  BY <1>1 DEF ReplyState
<1>3. KindsOf(Tail(b)) \subseteq KindsOf(b) /\ Head(b).kind \in KindsOf(b)
  BY KindsTail
<1>4. ASSUME Asks(o, b, v) PROVE Asks(o, Tail(b), st)
  <2>1. OnlyLast(Tail(b), "ACK")
    BY <1>4, KindsTail DEF Asks
  <2>2. st = "M_PRECOMMITED" => o = <<>> /\ Tail(b) = <<>>
    BY <1>2, <1>3, <1>4, KindsTail DEF Asks
  <2> QED
    BY <1>3, <1>4, <2>1, <2>2 DEF Asks
<1>5. Asked(o, b) => Asked(o, Tail(b)) /\ Head(b).kind # "ACK"
  BY <1>3 DEF Asked
<1>6. Saved(o, b) => Saved(o, Tail(b)) /\ Head(b).kind # "SUCCESS"
  BY <1>3 DEF Saved
<1>7. ASSUME Saves(o, b, v) PROVE Saves(o, Tail(b), st)
  <2>1. Once(Tail(b), "SUCCESS")
    BY <1>7, KindsTail DEF Saves
  <2>2. st = "M_OPERATION_PERFORMED" => "COMMIT" \notin KindsOf(o) /\ "SUCCESS" \notin KindsOf(Tail(b))
    BY <1>2, <1>3, <1>7, KindsTail DEF Saves
  <2> QED
    BY <1>3, <1>7, <2>1, <2>2 DEF Saves
<1>8. ASSUME NEW c, NEW p, NEW d, SavesOnly(o, b, v, c, p, d) PROVE SavesOnly(o, Tail(b), st, c, p, d)
  BY <1>2, <1>3, <1>8 DEF SavesOnly
<1> QED
  BY <1>1, <1>4, <1>5, <1>6, <1>7, <1>8

-----------------------------------------------------------------------------
(* The inductive invariant of WroteEverywhere *)

\* A user's record and the log agree about the command that waits for its answer.
Logged(s) == Busy(s) =>
  /\ Cmd(s) \in DOMAIN log
  /\ log[Cmd(s)].by = s /\ log[Cmd(s)].answer = "none"
  /\ log[Cmd(s)].kind = user[s].kind /\ log[Cmd(s)].num = user[s].line.num
  /\ log[Cmd(s)].committed <=> WaitsSave(s)

\* Until an exchange of s failed before its COMMIT, acknowledgements are only of the
\* command that waits for them, and the event that reports them is their last trace.
InOrder(s) == ~FailedEarly(s) =>
  IF WaitsCommit(s)
  THEN /\ \A p \in Others(s) : Asks(Out(s, p), Back(s, p), Srv(s, p))
       /\ AckLast(queue[s])
       /\ "PRECOMMIT_ACK" \in TypesOf(queue[s]) => \A p \in Others(s) : Srv(s, p) = "M_PRECOMMITED"
  ELSE /\ \A p \in Others(s) : Asked(Out(s, p), Back(s, p))
       /\ "PRECOMMIT_ACK" \notin TypesOf(queue[s])

\* Until an exchange of s failed after its COMMIT, or while exchanges do not overlap, the
\* same of COMMITs and their successes.
Fresh(s) == ~FailedLate(s) \/ (Busy(s) /\ ~crowded) =>
  IF WaitsSave(s)
  THEN /\ \A p \in Others(s) : Saves(Out(s, p), Back(s, p), Srv(s, p))
       /\ OneSuccess(queue[s])
       /\ "COMMIT_SUCCESS" \in TypesOf(queue[s]) => \A p \in Others(s) : Saved(Out(s, p), Back(s, p))
  ELSE /\ \A p \in Others(s) : Saved(Out(s, p), Back(s, p))
       /\ "COMMIT_SUCCESS" \notin TypesOf(queue[s])

Confused(s) == crowded /\ FailedEarly(s) /\ FailedLate(s)

\* A success that s knows of is one of the command that waits for it.
Stored(s) == WaitsSave(s) /\ ~Confused(s) =>
  /\ \A p \in Others(s) :
       SavesOnly(Out(s, p), Back(s, p), Srv(s, p), Cmd(s), p, log[Cmd(s)].saved)
  /\ "COMMIT_SUCCESS" \in TypesOf(queue[s]) => Others(s) \subseteq log[Cmd(s)].saved

Exchange(s) == Logged(s) /\ InOrder(s) /\ Fresh(s) /\ Stored(s)

LEMMA FailuresStay ==
  ASSUME LogKept
  PROVE  \A t : (FailedEarly(t) => FailedEarly(t)') /\ (FailedLate(t) => FailedLate(t)')
BY DEF LogKept, FailedEarly, FailedLate

\* The exchange of another master.
LEMMA OthersKept ==
  ASSUME TypeOK, NEW t \in Servers, Untouched(t), LogKept, Exchange(t), Logged(t)'
  PROVE  Exchange(t)'
<1>1. /\ FailedEarly(t) => FailedEarly(t)'
      /\ FailedLate(t) => FailedLate(t)'
      /\ crowded => crowded'
  BY FailuresStay DEF LogKept
<1>2. /\ WaitsCommit(t)' <=> WaitsCommit(t)
      /\ WaitsSave(t)' <=> WaitsSave(t)
      /\ Busy(t)' <=> Busy(t)
      /\ Cmd(t)' = Cmd(t)
      /\ queue'[t] = queue[t]
      /\ \A p \in Others(t) : Srv(t, p)' = Srv(t, p) /\ Out(t, p)' = Out(t, p) /\ Back(t, p)' = Back(t, p)
  BY DEF Untouched, WaitsCommit, WaitsSave, Busy, Cmd
<1>3. InOrder(t)'
  BY <1>1, <1>2 DEF Exchange, InOrder
<1>4. Fresh(t)'
  BY <1>1, <1>2 DEF Exchange, Fresh
<1>5. Stored(t)'
  <2>1. SUFFICES ASSUME WaitsSave(t)', ~Confused(t)' PROVE Stored(t)'
    BY DEF Stored
  <2>2. WaitsSave(t) /\ ~Confused(t) /\ Busy(t)
    BY <2>1, <1>1, <1>2 DEF Confused, WaitsSave, Busy
  <2>3. log[Cmd(t)].saved \subseteq log'[Cmd(t)].saved
    BY <2>2 DEF LogKept, Exchange, Logged
  <2>4. \A p \in Others(t) :
          SavesOnly(Out(t, p), Back(t, p), Srv(t, p), Cmd(t), p, log'[Cmd(t)].saved)
    BY <2>2, <2>3 DEF Exchange, Stored, SavesOnly
  <2>5. "COMMIT_SUCCESS" \in TypesOf(queue[t]) => Others(t) \subseteq log'[Cmd(t)].saved
    BY <2>2, <2>3 DEF Exchange, Stored
  <2> QED
    BY <1>2, <2>4, <2>5 DEF Stored
<1> QED
  BY <1>3, <1>4, <1>5 DEF Exchange

LEMMA LoggedKept ==
  ASSUME NEW t, user'[t] = user[t], Logged(t), LogKept,
         Busy(t) => /\ log'[Cmd(t)].answer = log[Cmd(t)].answer
                    /\ log'[Cmd(t)].committed = log[Cmd(t)].committed
  PROVE  Logged(t)'
BY DEF Logged, LogKept, Busy, WaitsSave, Cmd

LEMMA QueueStepKeeps ==
  ASSUME TypeOK, NEW s \in Servers, OnlyQueue(s), \A t \in Servers : Exchange(t)
  PROVE  \A t \in Servers : Exchange(t)'
<1>1. \A t \in Servers : Logged(t)'
  <2>1. \A t \in Servers : user'[t] = user[t]
    BY DEF OnlyQueue, Untouched
  <2> QED
    BY <2>1, LoggedKept DEF OnlyQueue, Exchange
<1>2. \A t \in Servers : t # s => Exchange(t)'
  BY <1>1, OthersKept DEF OnlyQueue
<1>3. /\ FailedEarly(s)' <=> FailedEarly(s)
      /\ FailedLate(s)' <=> FailedLate(s)
      /\ WaitsCommit(s)' <=> WaitsCommit(s)
      /\ WaitsSave(s)' <=> WaitsSave(s)
      /\ Busy(s)' <=> Busy(s)
      /\ Cmd(s)' = Cmd(s)
  BY DEF OnlyQueue, FailedEarly, FailedLate, WaitsCommit, WaitsSave, Busy, Cmd
<1>4. /\ \A p \in Others(s) : Srv(s, p)' = Srv(s, p) /\ Out(s, p)' = Out(s, p) /\ Back(s, p)' = Back(s, p)
      /\ AckLast(queue[s]) => AckLast(queue'[s])
      /\ OneSuccess(queue[s]) => OneSuccess(queue'[s])
      /\ "PRECOMMIT_ACK" \in TypesOf(queue'[s]) => "PRECOMMIT_ACK" \in TypesOf(queue[s])
      /\ "COMMIT_SUCCESS" \in TypesOf(queue'[s]) => "COMMIT_SUCCESS" \in TypesOf(queue[s])
      /\ UNCHANGED <<log, crowded>>
  BY DEF OnlyQueue, Fewer
<1>5. InOrder(s)'
  BY <1>3, <1>4 DEF Exchange, InOrder
<1>6. Fresh(s)'
  BY <1>3, <1>4 DEF Exchange, Fresh
<1>7. Stored(s)'
  BY <1>3, <1>4 DEF Exchange, Stored, Confused
<1> QED
  BY <1>1, <1>2, <1>5, <1>6, <1>7 DEF Exchange

LEMMA ReceivedLogged ==
  ASSUME TypeOK, NEW m \in Servers, NEW s, Received(m, s), UNCHANGED log \/ OnlySaves,
         \A t \in Servers : Exchange(t)
  PROVE  /\ \A t \in Servers : Logged(t)' /\ (t # m => Exchange(t)')
         /\ FailedEarly(m)' <=> FailedEarly(m)
         /\ FailedLate(m)' <=> FailedLate(m)
         /\ WaitsCommit(m)' <=> WaitsCommit(m)
         /\ WaitsSave(m)' <=> WaitsSave(m)
         /\ Busy(m)' <=> Busy(m)
         /\ Cmd(m)' = Cmd(m)
<1>1. \A c \in DOMAIN log : log'[c].answer = log[c].answer /\ log'[c].committed = log[c].committed
  BY DEF OnlySaves
<1>2. \A t \in Servers : user'[t] = user[t] /\ Logged(t)
  BY DEF Received, Untouched, Exchange
<1>3. \A t \in Servers : Logged(t)'
  BY <1>1, <1>2, LoggedKept DEF Received, Logged
<1>4. \A t \in Servers : t # m => Exchange(t)'
  BY <1>3, OthersKept DEF Received
<1>5. DOMAIN log' = DOMAIN log /\ \A c \in DOMAIN log : log'[c].by = log[c].by
  BY DEF Received, LogKept, OnlySaves
<1>6. (FailedEarly(m)' <=> FailedEarly(m)) /\ (FailedLate(m)' <=> FailedLate(m))
  BY <1>1, <1>5 DEF FailedEarly, FailedLate
<1> QED
  BY <1>2, <1>3, <1>4, <1>6 DEF WaitsCommit, WaitsSave, Busy, Cmd

LEMMA PrecommitKeeps ==
  ASSUME TypeOK, NEW m, NEW s, Precommit(m, s), \A t \in Servers : Exchange(t)
  PROVE  \A t \in Servers : Exchange(t)'
<1>1. /\ m \in Servers /\ s \in Others(m) /\ Received(m, s) /\ UNCHANGED log
      /\ Head(Out(m, s)).kind = "PRECOMMIT"
  BY PrecommitEffect
<1>2. PICK a \in Answers : a.kind = "ACK" /\ Back(m, s)' = Append(Back(m, s), a)
  BY PrecommitEffect
<1>3. /\ \A t \in Servers : Logged(t)' /\ (t # m => Exchange(t)')
      /\ FailedEarly(m)' <=> FailedEarly(m)
      /\ FailedLate(m)' <=> FailedLate(m)
      /\ WaitsCommit(m)' <=> WaitsCommit(m)
      /\ WaitsSave(m)' <=> WaitsSave(m)
      /\ Busy(m)' <=> Busy(m)
      /\ Cmd(m)' = Cmd(m)
  BY <1>1, ReceivedLogged
<1>4. /\ \A p \in Others(m) : /\ Srv(m, p)' = Srv(m, p)
                              /\ p # s => Out(m, p)' = Out(m, p) /\ Back(m, p)' = Back(m, p)
      /\ Out(m, s) # <<>> /\ Out(m, s)' = Tail(Out(m, s))
      /\ queue'[m] = queue[m] /\ UNCHANGED crowded
  BY <1>1 DEF Received
<1>5. Out(m, s) \in Seq(Orders) /\ Back(m, s) \in Seq(Answers)
  BY <1>1, Channels
<1>6. /\ Asks(Out(m, s), Back(m, s), Srv(m, s)) => Asks(Out(m, s), Back(m, s), Srv(m, s))'
      /\ ~Asked(Out(m, s), Back(m, s))
      /\ Saved(Out(m, s), Back(m, s)) => Saved(Out(m, s), Back(m, s))'
      /\ Saves(Out(m, s), Back(m, s), Srv(m, s)) => Saves(Out(m, s), Back(m, s), Srv(m, s))'
      /\ \A c, d : SavesOnly(Out(m, s), Back(m, s), Srv(m, s), c, s, d)
                     => SavesOnly(Out(m, s)', Back(m, s)', Srv(m, s)', c, s, d)
  BY <1>1, <1>2, <1>4, <1>5, PrecommitArrives
<1>7. InOrder(m)'
  BY <1>1, <1>3, <1>4, <1>6 DEF Exchange, InOrder
<1>8. Fresh(m)'
  BY <1>1, <1>3, <1>4, <1>6 DEF Exchange, Fresh
<1>9. Stored(m)'
  BY <1>1, <1>3, <1>4, <1>6 DEF Exchange, Stored, Confused
<1> QED
  BY <1>1, <1>3, <1>7, <1>8, <1>9 DEF Exchange

\* Any other message reaches a peer: order and count stay; what is saved is seen below.
LEMMA ArrivalKeeps ==
  ASSUME TypeOK, NEW m \in Servers, NEW s \in Others(m), Received(m, s),
         Head(Out(m, s)).kind # "PRECOMMIT", UNCHANGED log \/ OnlySaves,
         \/ Back(m, s)' = Back(m, s)
         \/ /\ Head(Out(m, s)).kind = "COMMIT"
            /\ \E a \in Answers : a.kind # "ACK" /\ Back(m, s)' = Append(Back(m, s), a),
         \A t \in Servers : Exchange(t)
  PROVE  /\ \A t \in Servers : Logged(t)' /\ (t # m => Exchange(t)')
         /\ InOrder(m)' /\ Fresh(m)'
<1>3. /\ \A t \in Servers : Logged(t)' /\ (t # m => Exchange(t)')
      /\ FailedEarly(m)' <=> FailedEarly(m)
      /\ FailedLate(m)' <=> FailedLate(m)
      /\ WaitsCommit(m)' <=> WaitsCommit(m)
      /\ WaitsSave(m)' <=> WaitsSave(m)
      /\ Busy(m)' <=> Busy(m)
  BY ReceivedLogged
<1>4. /\ \A p \in Others(m) : /\ Srv(m, p)' = Srv(m, p)
                              /\ p # s => Out(m, p)' = Out(m, p) /\ Back(m, p)' = Back(m, p)
      /\ Out(m, s) # <<>> /\ Out(m, s)' = Tail(Out(m, s))
      /\ queue'[m] = queue[m] /\ UNCHANGED crowded
  BY DEF Received
<1>5. Out(m, s) \in Seq(Orders) /\ Back(m, s) \in Seq(Answers)
  BY Channels
<1>6. PICK b1 : b1 = Back(m, s)'
  OBVIOUS
<1>7. /\ Asks(Out(m, s), Back(m, s), Srv(m, s)) => Asks(Tail(Out(m, s)), b1, Srv(m, s))
      /\ Asked(Out(m, s), Back(m, s)) => Asked(Tail(Out(m, s)), b1)
      /\ Saved(Out(m, s), Back(m, s)) => Saved(Tail(Out(m, s)), b1)
      /\ Saves(Out(m, s), Back(m, s), Srv(m, s)) => Saves(Tail(Out(m, s)), b1, Srv(m, s))
  BY <1>4, <1>5, <1>6, OtherArrives
<1>8. /\ Asks(Out(m, s), Back(m, s), Srv(m, s)) => Asks(Out(m, s), Back(m, s), Srv(m, s))'
      /\ Asked(Out(m, s), Back(m, s)) => Asked(Out(m, s), Back(m, s))'
      /\ Saved(Out(m, s), Back(m, s)) => Saved(Out(m, s), Back(m, s))'
      /\ Saves(Out(m, s), Back(m, s), Srv(m, s)) => Saves(Out(m, s), Back(m, s), Srv(m, s))'
  BY <1>4, <1>6, <1>7
<1>9. InOrder(m)'
  BY <1>3, <1>4, <1>8 DEF Exchange, InOrder
<1>10. Fresh(m)'
  BY <1>3, <1>4, <1>8 DEF Exchange, Fresh
<1> QED
  BY <1>3, <1>9, <1>10

LEMMA DropKeeps ==
  ASSUME TypeOK, NEW m, NEW s, AbortOrEnd(m, s) \/ CommitRefused(m, s),
         \A t \in Servers : Exchange(t)
  PROVE  \A t \in Servers : Exchange(t)'
<1>1. /\ m \in Servers /\ s \in Others(m) /\ Received(m, s) /\ UNCHANGED log
      /\ Head(Out(m, s)).kind # "PRECOMMIT" /\ Back(m, s)' = Back(m, s)
  BY DropEffect
<1>2. /\ \A t \in Servers : Logged(t)' /\ (t # m => Exchange(t)')
      /\ InOrder(m)' /\ Fresh(m)'
  BY <1>1, ArrivalKeeps
<1>3. /\ FailedEarly(m)' <=> FailedEarly(m)
      /\ FailedLate(m)' <=> FailedLate(m)
      /\ WaitsSave(m)' <=> WaitsSave(m)
      /\ Cmd(m)' = Cmd(m)
  BY <1>1, ReceivedLogged
<1>4. /\ \A p \in Others(m) : /\ Srv(m, p)' = Srv(m, p) /\ Back(m, p)' = Back(m, p)
                              /\ p # s => Out(m, p)' = Out(m, p)
      /\ Out(m, s) # <<>> /\ Out(m, s)' = Tail(Out(m, s))
      /\ queue'[m] = queue[m] /\ UNCHANGED crowded
  BY <1>1 DEF Received
<1>5. Out(m, s) \in Seq(Orders)
  BY <1>1, Channels
<1>6. \A c : (\A i \in DOMAIN Out(m, s) : Out(m, s)[i].kind = "COMMIT" => Out(m, s)[i].line.text = c)
          => \A i \in DOMAIN Tail(Out(m, s)) :
               Tail(Out(m, s))[i].kind = "COMMIT" => Tail(Out(m, s))[i].line.text = c
  BY <1>4, <1>5, Tails
<1>7. \A c, d : SavesOnly(Out(m, s), Back(m, s), Srv(m, s), c, s, d)
                  => SavesOnly(Tail(Out(m, s)), Back(m, s), Srv(m, s), c, s, d)
  BY <1>6 DEF SavesOnly
<1>8. Stored(m)'
  BY <1>1, <1>3, <1>4, <1>7 DEF Exchange, Stored, Confused
<1> QED
  BY <1>1, <1>2, <1>8 DEF Exchange

LEMMA CommitKeeps ==
  ASSUME TypeOK, NEW m, NEW s, Commit(m, s), \A t \in Servers : Exchange(t)
  PROVE  \A t \in Servers : Exchange(t)'
<1>1. PICK line : line = Head(Out(m, s)).line
  OBVIOUS
<1>2. /\ m \in Servers /\ s \in Others(m) /\ Received(m, s) /\ OnlySaves
      /\ Head(Out(m, s)).kind = "COMMIT"
  BY CommitEffect
<1>3. PICK a \in Answers :
        /\ a.kind # "ACK" /\ Back(m, s)' = Append(Back(m, s), a)
        /\ a.kind = "SUCCESS" /\ line.text \in DOMAIN log => s \in log'[line.text].saved
  BY <1>1, CommitEffect
<1>4. /\ \A t \in Servers : Logged(t)' /\ (t # m => Exchange(t)')
      /\ InOrder(m)' /\ Fresh(m)'
  <2>1. \/ Back(m, s)' = Back(m, s)
        \/ /\ Head(Out(m, s)).kind = "COMMIT"
           /\ \E x \in Answers : x.kind # "ACK" /\ Back(m, s)' = Append(Back(m, s), x)
    BY <1>2, <1>3
  <2> QED
    BY <1>2, <2>1, ArrivalKeeps
<1>5. /\ FailedEarly(m)' <=> FailedEarly(m)
      /\ FailedLate(m)' <=> FailedLate(m)
      /\ WaitsSave(m)' <=> WaitsSave(m)
      /\ Cmd(m)' = Cmd(m)
  BY <1>2, ReceivedLogged
<1>6. /\ \A p \in Others(m) : /\ Srv(m, p)' = Srv(m, p)
                              /\ p # s => Out(m, p)' = Out(m, p) /\ Back(m, p)' = Back(m, p)
      /\ Out(m, s) # <<>> /\ Out(m, s)' = Tail(Out(m, s))
      /\ queue'[m] = queue[m] /\ UNCHANGED crowded
  BY <1>2 DEF Received
<1>7. Out(m, s) \in Seq(Orders) /\ Back(m, s) \in Seq(Answers)
  BY <1>2, Channels
<1>8. SUFFICES ASSUME WaitsSave(m), ~Confused(m) PROVE Stored(m)'
  BY <1>2, <1>4, <1>5, <1>6 DEF Exchange, Stored, Confused
<1>9. PICK c : c = Cmd(m)
  OBVIOUS
<1>10. c \in DOMAIN log /\ log[c].saved \subseteq log'[c].saved
  BY <1>2, <1>8, <1>9 DEF Exchange, Logged, WaitsSave, Busy, Received, LogKept
<1>11. /\ \A p \in Others(m) : SavesOnly(Out(m, p), Back(m, p), Srv(m, p), c, p, log[c].saved)
       /\ "COMMIT_SUCCESS" \in TypesOf(queue[m]) => Others(m) \subseteq log[c].saved
  BY <1>2, <1>8, <1>9 DEF Exchange, Stored
<1>12. \A p \in Others(m) : p # s => SavesOnly(Out(m, p)', Back(m, p)', Srv(m, p)', c, p, log'[c].saved)
  BY <1>6, <1>10, <1>11 DEF SavesOnly
<1>13. SavesOnly(Out(m, s)', Back(m, s)', Srv(m, s)', c, s, log'[c].saved)
  <2>1. line.text = c
    <3>1. /\ 1 \in DOMAIN Out(m, s) /\ Head(Out(m, s)) = Out(m, s)[1]
      BY <1>6, <1>7, Tails
    <3> QED
      BY <1>1, <1>2, <1>11, <3>1 DEF SavesOnly
  <2>2. a.kind = "SUCCESS" => s \in log'[c].saved
    BY <1>3, <1>10, <2>1
  <2>3. KindsOf(Back(m, s)') = KindsOf(Back(m, s)) \cup {a.kind}
    BY <1>3, <1>7, KindsAppend
  <2>4. \A i \in DOMAIN Tail(Out(m, s)) :
               Tail(Out(m, s))[i].kind = "COMMIT" => Tail(Out(m, s))[i].line.text = c
    BY <1>2, <1>6, <1>7, <1>11, Tails DEF SavesOnly
  <2>5. /\ "SUCCESS" \in KindsOf(Back(m, s)) => s \in log[c].saved
        /\ Srv(m, s) = "M_OPERATION_PERFORMED" => s \in log[c].saved
    BY <1>2, <1>11 DEF SavesOnly
  <2>6. /\ "SUCCESS" \in KindsOf(Back(m, s)') => s \in log'[c].saved
        /\ Srv(m, s)' = "M_OPERATION_PERFORMED" => s \in log'[c].saved
    BY <1>2, <1>6, <1>10, <2>2, <2>3, <2>5
  <2> QED
    BY <1>6, <2>4, <2>6 DEF SavesOnly
<1>14. "COMMIT_SUCCESS" \in TypesOf(queue'[m]) => Others(m) \subseteq log'[c].saved
  BY <1>6, <1>10, <1>11
<1> QED
  BY <1>5, <1>9, <1>12, <1>13, <1>14 DEF Stored

LEMMA ReplyKeeps ==
  ASSUME TypeOK, NEW s, NEW p, Reply(s, p), \A t \in Servers : Exchange(t)
  PROVE  \A t \in Servers : Exchange(t)'
<1>1. /\ s \in Servers /\ p \in Others(s) /\ Back(s, p) # <<>>
      /\ \A t \in Servers : t # s => Untouched(t)
      /\ user'[s] = user[s]
      /\ \A q \in Others(s) : /\ Out(s, q)' = Out(s, q)
                              /\ q # p => Back(s, q)' = Back(s, q) /\ Srv(s, q)' = Srv(s, q)
      /\ Back(s, p)' = Tail(Back(s, p)) /\ Srv(s, p)' = ReplyState(Head(Back(s, p)).kind)
      /\ LogKept /\ UNCHANGED <<log, crowded>>
  BY ReplyEffect
<1>2. PICK k : k = Head(Back(s, p)).kind
  OBVIOUS
<1>3. Srv(s, p)' = ReplyState(k)
  BY <1>1, <1>2
<1>4. \/ queue'[s] = queue[s]
      \/ \E e \in Events :
           /\ e.type = ReplyEvent(k) /\ queue'[s] = Append(queue[s], e)
           /\ k \in {"ACK", "SUCCESS"} => \A q \in Others(s) : Srv(s, q)' = ReplyState(k)
  BY <1>2, ReplyEffect
<1>5. /\ Out(s, p) \in Seq(Orders) /\ Back(s, p) \in Seq(Answers) /\ queue[s] \in Seq(Events)
  BY <1>1, Channels
<1>6. /\ k = "ACK" <=> ReplyState(k) = "M_PRECOMMITED"
      /\ k = "SUCCESS" <=> ReplyState(k) = "M_OPERATION_PERFORMED"
      /\ k = "ACK" <=> ReplyEvent(k) = "PRECOMMIT_ACK"
      /\ k = "SUCCESS" <=> ReplyEvent(k) = "COMMIT_SUCCESS"
  BY DEF ReplyState, ReplyEvent
<1>7. /\ Asks(Out(s, p), Back(s, p), Srv(s, p)) => Asks(Out(s, p), Back(s, p), Srv(s, p))'
      /\ Asked(Out(s, p), Back(s, p)) => Asked(Out(s, p), Back(s, p))' /\ k # "ACK"
      /\ Saved(Out(s, p), Back(s, p)) => Saved(Out(s, p), Back(s, p))' /\ k # "SUCCESS"
      /\ Saves(Out(s, p), Back(s, p), Srv(s, p)) => Saves(Out(s, p), Back(s, p), Srv(s, p))'
      /\ \A c, d : SavesOnly(Out(s, p), Back(s, p), Srv(s, p), c, p, d)
                     => SavesOnly(Out(s, p)', Back(s, p)', Srv(s, p)', c, p, d)
  BY <1>1, <1>2, <1>3, <1>5, AnswerArrives
<1>8. /\ AckLast(queue[s]) /\ "PRECOMMIT_ACK" \notin TypesOf(queue[s]) => AckLast(queue'[s])
      /\ OneSuccess(queue[s]) /\ ("COMMIT_SUCCESS" \in TypesOf(queue[s]) => k # "SUCCESS")
           => OneSuccess(queue'[s])
      /\ "PRECOMMIT_ACK" \in TypesOf(queue'[s]) =>
           \/ "PRECOMMIT_ACK" \in TypesOf(queue[s])
           \/ k = "ACK" /\ \A q \in Others(s) : Srv(s, q)' = "M_PRECOMMITED"
      /\ "COMMIT_SUCCESS" \in TypesOf(queue'[s]) =>
           \/ "COMMIT_SUCCESS" \in TypesOf(queue[s])
           \/ k = "SUCCESS" /\ \A q \in Others(s) : Srv(s, q)' = "M_OPERATION_PERFORMED"
  <2>1. CASE queue'[s] = queue[s]
    BY <2>1
  <2>2. ASSUME NEW e \in Events, e.type = ReplyEvent(k), queue'[s] = Append(queue[s], e),
               k \in {"ACK", "SUCCESS"} => \A q \in Others(s) : Srv(s, q)' = ReplyState(k)
        PROVE  <1>8!1 /\ <1>8!2 /\ <1>8!3 /\ <1>8!4
    <3>1. /\ TypesOf(queue'[s]) = TypesOf(queue[s]) \cup {ReplyEvent(k)}
          /\ AckLast(queue[s]) /\ "PRECOMMIT_ACK" \notin TypesOf(queue[s]) => AckLast(queue'[s])
          /\ OneSuccess(queue[s]) /\ "COMMIT_SUCCESS" \notin TypesOf(queue[s]) => OneSuccess(queue'[s])
          /\ OneSuccess(queue[s]) /\ ReplyEvent(k) # "COMMIT_SUCCESS" => OneSuccess(queue'[s])
      BY <2>2, <1>5, TypesAppend
    <3> QED
      BY <2>2, <3>1, <1>6
  <2> QED
    BY <2>1, <2>2, <1>4
<1>9. \A t \in Servers : Logged(t)'
  <2>1. \A t \in Servers : user'[t] = user[t]
    BY <1>1 DEF Untouched
  <2> QED
    BY <1>1, <2>1, LoggedKept DEF Exchange
<1>10. \A t \in Servers : t # s => Exchange(t)'
  BY <1>1, <1>9, OthersKept
<1>11. /\ FailedEarly(s)' <=> FailedEarly(s)
       /\ FailedLate(s)' <=> FailedLate(s)
       /\ WaitsCommit(s)' <=> WaitsCommit(s)
       /\ WaitsSave(s)' <=> WaitsSave(s)
       /\ Busy(s)' <=> Busy(s)
       /\ Cmd(s)' = Cmd(s)
  BY <1>1 DEF FailedEarly, FailedLate, WaitsCommit, WaitsSave, Busy, Cmd
<1>12. InOrder(s)'
  <2>1. SUFFICES ASSUME ~FailedEarly(s) PROVE InOrder(s)'
    BY <1>11 DEF InOrder
  <2>2. CASE WaitsCommit(s)
    <3>1. /\ \A q \in Others(s) : Asks(Out(s, q), Back(s, q), Srv(s, q))
          /\ AckLast(queue[s])
          /\ "PRECOMMIT_ACK" \in TypesOf(queue[s]) => \A q \in Others(s) : Srv(s, q) = "M_PRECOMMITED"
      BY <1>1, <2>1, <2>2 DEF Exchange, InOrder
    <3>2. "PRECOMMIT_ACK" \notin TypesOf(queue[s])
      BY <1>1, <3>1 DEF Asks
    <3>3. \A q \in Others(s) : Asks(Out(s, q), Back(s, q), Srv(s, q))'
      BY <1>1, <1>7, <3>1
    <3> QED
      BY <1>8, <1>11, <2>2, <3>1, <3>2, <3>3 DEF InOrder
  <2>3. CASE ~WaitsCommit(s)
    <3>1. /\ \A q \in Others(s) : Asked(Out(s, q), Back(s, q))
          /\ "PRECOMMIT_ACK" \notin TypesOf(queue[s])
      BY <1>1, <2>1, <2>3 DEF Exchange, InOrder
    <3>2. \A q \in Others(s) : Asked(Out(s, q), Back(s, q))'
      BY <1>1, <1>7, <3>1
    <3> QED
      BY <1>1, <1>7, <1>8, <1>11, <2>3, <3>1, <3>2 DEF InOrder
  <2> QED
    BY <2>2, <2>3
<1>13. Fresh(s)'
  <2>1. SUFFICES ASSUME ~FailedLate(s) \/ (Busy(s) /\ ~crowded) PROVE Fresh(s)'
    BY <1>1, <1>11 DEF Fresh
  <2>2. CASE WaitsSave(s)
    <3>1. /\ \A q \in Others(s) : Saves(Out(s, q), Back(s, q), Srv(s, q))
          /\ OneSuccess(queue[s])
          /\ "COMMIT_SUCCESS" \in TypesOf(queue[s]) => \A q \in Others(s) : Saved(Out(s, q), Back(s, q))
      BY <1>1, <2>1, <2>2 DEF Exchange, Fresh
    <3>2. \A q \in Others(s) : Saves(Out(s, q), Back(s, q), Srv(s, q))'
      BY <1>1, <1>7, <3>1
    <3>3. OneSuccess(queue'[s])
      BY <1>1, <1>7, <1>8, <3>1
    <3>4. ASSUME "COMMIT_SUCCESS" \in TypesOf(queue'[s]), NEW q \in Others(s)
          PROVE  Saved(Out(s, q), Back(s, q))'
      <4>1. CASE "COMMIT_SUCCESS" \in TypesOf(queue[s])
        BY <1>1, <1>7, <3>1, <4>1
      <4>2. CASE Srv(s, q)' = "M_OPERATION_PERFORMED"
        BY <3>2, <4>2 DEF Saves, Saved
      <4> QED
        BY <1>8, <3>4, <4>1, <4>2
    <3> QED
      BY <1>11, <2>2, <3>2, <3>3, <3>4 DEF Fresh
  <2>3. CASE ~WaitsSave(s)
    <3>1. /\ \A q \in Others(s) : Saved(Out(s, q), Back(s, q))
          /\ "COMMIT_SUCCESS" \notin TypesOf(queue[s])
      BY <1>1, <2>1, <2>3 DEF Exchange, Fresh
    <3>2. \A q \in Others(s) : Saved(Out(s, q), Back(s, q))'
      BY <1>1, <1>7, <3>1
    <3> QED
      BY <1>1, <1>7, <1>8, <1>11, <2>3, <3>1, <3>2 DEF Fresh
  <2> QED
    BY <2>2, <2>3
<1>14. Stored(s)'
  <2>1. SUFFICES ASSUME WaitsSave(s), ~Confused(s) PROVE Stored(s)'
    BY <1>1, <1>11 DEF Stored, Confused
  <2>2. PICK c, d : c = Cmd(s) /\ d = log[c].saved
    OBVIOUS
  <2>3. /\ \A q \in Others(s) : SavesOnly(Out(s, q), Back(s, q), Srv(s, q), c, q, d)
        /\ "COMMIT_SUCCESS" \in TypesOf(queue[s]) => Others(s) \subseteq d
    BY <1>1, <2>1, <2>2 DEF Exchange, Stored
  <2>4. \A q \in Others(s) : SavesOnly(Out(s, q)', Back(s, q)', Srv(s, q)', c, q, d)
    BY <1>1, <1>7, <2>3
  <2>5. "COMMIT_SUCCESS" \in TypesOf(queue'[s]) => Others(s) \subseteq d
    BY <1>8, <2>3, <2>4 DEF SavesOnly
  <2>6. Cmd(s)' = c /\ log'[c].saved = d
    BY <1>1, <1>11, <2>2
  <2> QED
    BY <2>4, <2>5, <2>6 DEF Stored
<1> QED
  BY <1>1, <1>9, <1>10, <1>12, <1>13, <1>14 DEF Exchange

\* A command that is answered, but not "3.0 WROTE".
LEMMA ToldKeeps ==
  ASSUME TypeOK, NEW s \in Servers, Busy(s), NEW v \in {"ERROR", "UNKNOWN", "gone"},
         Told(s, v), DOMAIN log' = DOMAIN log, LogKept, user'[s] = NoCmd,
         \A t \in Servers : t # s => Untouched(t), \A t \in Servers : Exchange(t)
  PROVE  /\ \A t \in Servers : t # s => Exchange(t)'
         /\ Logged(s)' /\ ~WaitsCommit(s)' /\ ~WaitsSave(s)' /\ ~Busy(s)'
         /\ WaitsCommit(s) => FailedEarly(s)'
         /\ WaitsSave(s) => FailedLate(s)'
         /\ WaitsCommit(s) \/ WaitsSave(s)
<1>1. ~WaitsCommit(s)' /\ ~WaitsSave(s)' /\ ~Busy(s)'
  BY DEF NoCmd, WaitsCommit, WaitsSave, Busy
<1>2. \A t \in Servers : Logged(t)'
  <2>1. ASSUME NEW t \in Servers, t # s, Busy(t)
        PROVE  log'[Cmd(t)] = log[Cmd(t)]
    <3>1. Cmd(t) \in DOMAIN log /\ log[Cmd(t)].by = t
      BY <2>1 DEF Exchange, Logged
    <3> QED
      BY <2>1, <3>1 DEF Told
  <2>2. \A t \in Servers : t # s => Logged(t)'
    BY <2>1, LoggedKept DEF Untouched, Exchange
  <2> QED
    BY <1>1, <2>2 DEF Logged
<1>3. \A t \in Servers : t # s => Exchange(t)'
  BY <1>2, OthersKept
<1>4. WaitsCommit(s) \/ WaitsSave(s)
  <2>1. user[s] \in Users
    BY DEF TypeOK
  <2> QED
    BY <2>1 DEF Users, Busy, WaitsCommit, WaitsSave
<1>5. PICK c : c = Cmd(s)
  OBVIOUS
<1>6. /\ c \in DOMAIN log' /\ log'[c].by = s /\ log'[c].answer = v
      /\ log'[c].committed <=> WaitsSave(s)
  BY <1>5 DEF Exchange, Logged, Told, LogKept
<1>7. WaitsCommit(s) => FailedEarly(s)'
  BY <1>6 DEF FailedEarly, WaitsCommit, WaitsSave
<1>8. WaitsSave(s) => FailedLate(s)'
  BY <1>6 DEF FailedLate
<1> QED
  BY <1>1, <1>2, <1>3, <1>4, <1>7, <1>8

LEMMA LeaveKeeps ==
  ASSUME TypeOK, NEW s \in Servers, Leave(s), \A t \in Servers : Exchange(t)
  PROVE  \A t \in Servers : Exchange(t)'
<1>1. /\ Busy(s) /\ user'[s] = NoCmd /\ queue'[s] = queue[s]
      /\ \A t \in Servers : t # s => Untouched(t)
      /\ \A p \in Others(s) : Srv(s, p)' = Srv(s, p) /\ Out(s, p)' = Out(s, p)
                              /\ Back(s, p)' = Back(s, p)
      /\ LogKept /\ DOMAIN log' = DOMAIN log /\ Told(s, "gone")
  BY LeaveEffect DEF Told
<1>2. /\ \A t \in Servers : t # s => Exchange(t)'
      /\ Logged(s)' /\ ~WaitsCommit(s)' /\ ~WaitsSave(s)' /\ ~Busy(s)'
      /\ WaitsCommit(s) => FailedEarly(s)'
      /\ WaitsSave(s) => FailedLate(s)'
  BY <1>1, ToldKeeps
<1>3. (FailedEarly(s) => FailedEarly(s)') /\ (FailedLate(s) => FailedLate(s)')
  BY <1>1, FailuresStay
<1>4. InOrder(s)'
  BY <1>1, <1>2, <1>3 DEF Exchange, InOrder
<1>5. Fresh(s)'
  BY <1>1, <1>2, <1>3 DEF Exchange, Fresh
<1>6. Stored(s)'
  BY <1>2 DEF Stored
<1> QED
  BY <1>2, <1>4, <1>5, <1>6 DEF Exchange

\* What the peers are told when an exchange is called off or ends, whatever the user is told.
LEMMA CalledOff ==
  ASSUME TypeOK, NEW s \in Servers, NEW type, NEW kind \in {"ABORT", "END"},
         CallsOff(s, type, kind)
  PROVE  /\ \A p \in Others(s) : Asked(Out(s, p), Back(s, p)) => Asked(Out(s, p), Back(s, p))'
         /\ \A p \in Others(s) : Saved(Out(s, p), Back(s, p)) => Saved(Out(s, p), Back(s, p))'
         /\ \A p \in Others(s) : Saves(Out(s, p), Back(s, p), Srv(s, p))
                                   => Saves(Out(s, p), Back(s, p), Srv(s, p))'
         /\ \A p \in Others(s) : \A c, d : SavesOnly(Out(s, p), Back(s, p), Srv(s, p), c, p, d)
              => SavesOnly(Out(s, p)', Back(s, p)', Srv(s, p)', c, p, d)
         /\ Fewer(queue[s], queue'[s])
         /\ OneSuccess(queue[s]) /\ type = "COMMIT_SUCCESS" => "COMMIT_SUCCESS" \notin TypesOf(queue'[s])
         /\ type \in TypesOf(queue[s])
<1>1. PICK e \in Orders : e.kind = kind /\ \A p \in Others(s) : Out(s, p)' = Append(Out(s, p), e)
  BY DEF CallsOff
<1>2. \A p \in Others(s) : Back(s, p)' = Back(s, p) /\ Srv(s, p)' = "IDLE"
  BY DEF CallsOff
<1>3. ASSUME NEW p \in Others(s)
      PROVE  /\ Asked(Out(s, p), Back(s, p)) => Asked(Append(Out(s, p), e), Back(s, p))
             /\ Saved(Out(s, p), Back(s, p)) => Saved(Append(Out(s, p), e), Back(s, p))
             /\ Saves(Out(s, p), Back(s, p), Srv(s, p)) => Saves(Append(Out(s, p), e), Back(s, p), "IDLE")
             /\ \A c, d : SavesOnly(Out(s, p), Back(s, p), Srv(s, p), c, p, d)
                  => SavesOnly(Append(Out(s, p), e), Back(s, p), "IDLE", c, p, d)
  <2>1. Out(s, p) \in Seq(Orders)
    BY Channels
  <2>2. e.kind # "PRECOMMIT" /\ e.kind # "COMMIT"
    BY <1>1
  <2> QED
    BY <2>1, <2>2, SendsOther
<1>4. /\ queue[s] \in Seq(Events) /\ queue[s] # <<>> /\ Head(queue[s]).type = type
      /\ queue'[s] = Tail(queue[s])
  BY DEF CallsOff
<1>5. /\ Fewer(queue[s], queue'[s]) /\ type \in TypesOf(queue[s])
      /\ OneSuccess(queue[s]) /\ type = "COMMIT_SUCCESS" => "COMMIT_SUCCESS" \notin TypesOf(queue'[s])
  BY <1>4, TypesTail
<1> QED
  BY <1>1, <1>2, <1>3, <1>5

LEMMA GivesUpKeeps ==
  ASSUME TypeOK, NEW s \in Servers, GivesUp(s), \A t \in Servers : Exchange(t)
  PROVE  \A t \in Servers : Exchange(t)'
<1>1. /\ CallsOff(s, "PRECOMMIT_ERR", "ABORT")
      /\ IF WaitsCommit(s) THEN user'[s] = NoCmd /\ Told(s, "ERROR")
                           ELSE user'[s] = user[s] /\ UNCHANGED log
  BY GivesUpEffect
<1>2. /\ \A t \in Servers : t # s => Untouched(t)
      /\ LogKept /\ DOMAIN log' = DOMAIN log /\ UNCHANGED crowded
  BY <1>1 DEF CallsOff
<1>3. (FailedEarly(s) => FailedEarly(s)') /\ (FailedLate(s) => FailedLate(s)')
  BY <1>2, FailuresStay
<1>4. /\ \A p \in Others(s) : Asked(Out(s, p), Back(s, p)) => Asked(Out(s, p), Back(s, p))'
      /\ \A p \in Others(s) : Saved(Out(s, p), Back(s, p)) => Saved(Out(s, p), Back(s, p))'
      /\ \A p \in Others(s) : Saves(Out(s, p), Back(s, p), Srv(s, p))
                                => Saves(Out(s, p), Back(s, p), Srv(s, p))'
      /\ \A p \in Others(s) : \A c, d : SavesOnly(Out(s, p), Back(s, p), Srv(s, p), c, p, d)
           => SavesOnly(Out(s, p)', Back(s, p)', Srv(s, p)', c, p, d)
      /\ OneSuccess(queue[s]) => OneSuccess(queue'[s])
      /\ "PRECOMMIT_ACK" \in TypesOf(queue'[s]) => "PRECOMMIT_ACK" \in TypesOf(queue[s])
      /\ "COMMIT_SUCCESS" \in TypesOf(queue'[s]) => "COMMIT_SUCCESS" \in TypesOf(queue[s])
  BY <1>1, CalledOff DEF Fewer
<1>5. CASE WaitsCommit(s)
  <2>1. Busy(s) /\ ~WaitsSave(s)
    BY <1>5 DEF Busy, WaitsCommit, WaitsSave
  <2>2. /\ \A t \in Servers : t # s => Exchange(t)'
        /\ Logged(s)' /\ ~WaitsCommit(s)' /\ ~WaitsSave(s)' /\ ~Busy(s)'
        /\ FailedEarly(s)'
    BY <1>1, <1>2, <1>5, <2>1, ToldKeeps
  <2>3. InOrder(s)' /\ Stored(s)'
    BY <2>2 DEF InOrder, Stored
  <2>4. Fresh(s)'
    BY <1>3, <1>4, <2>1, <2>2 DEF Exchange, Fresh
  <2> QED
    BY <2>2, <2>3, <2>4 DEF Exchange
<1>6. CASE ~WaitsCommit(s)
  <2>1. \A t \in Servers : user'[t] = user[t]
    BY <1>1, <1>2, <1>6 DEF Untouched
  <2>2. \A t \in Servers : Logged(t)'
    BY <1>1, <1>2, <1>6, <2>1, LoggedKept DEF Exchange
  <2>3. \A t \in Servers : t # s => Exchange(t)'
    BY <1>2, <2>2, OthersKept
  <2>4. /\ FailedEarly(s)' <=> FailedEarly(s)
        /\ FailedLate(s)' <=> FailedLate(s)
        /\ WaitsCommit(s)' <=> WaitsCommit(s)
        /\ WaitsSave(s)' <=> WaitsSave(s)
        /\ Busy(s)' <=> Busy(s)
        /\ Cmd(s)' = Cmd(s) /\ UNCHANGED <<log, crowded>>
    BY <1>1, <1>2, <1>6 DEF FailedEarly, FailedLate, WaitsCommit, WaitsSave, Busy, Cmd
  <2>5. InOrder(s)'
    BY <1>4, <1>6, <2>4 DEF Exchange, InOrder
  <2>6. Fresh(s)'
    BY <1>4, <2>4 DEF Exchange, Fresh
  <2>7. Stored(s)'
    BY <1>4, <2>4 DEF Exchange, Stored, Confused
  <2> QED
    BY <2>2, <2>3, <2>5, <2>6, <2>7 DEF Exchange
<1> QED
  BY <1>5, <1>6

LEMMA UndoneKeeps ==
  ASSUME TypeOK, NEW s \in Servers, Undone(s), \A t \in Servers : Exchange(t)
  PROVE  \A t \in Servers : Exchange(t)'
<1>1. CallsOff(s, "COMMIT_UNSUCCESS", "END") /\ WaitsSave(s) /\ user'[s] = NoCmd
  BY UndoneEffect
<1>2. PICK v \in {"ERROR", "UNKNOWN"} : Told(s, v)
  BY UndoneEffect
<1>3. /\ \A t \in Servers : t # s => Untouched(t)
      /\ LogKept /\ DOMAIN log' = DOMAIN log
  BY <1>1 DEF CallsOff
<1>4. Busy(s) /\ ~WaitsCommit(s)
  BY <1>1 DEF Busy, WaitsCommit, WaitsSave
<1>5. /\ \A t \in Servers : t # s => Exchange(t)'
      /\ Logged(s)' /\ ~WaitsCommit(s)' /\ ~WaitsSave(s)' /\ ~Busy(s)'
      /\ FailedLate(s)'
  BY <1>1, <1>2, <1>3, <1>4, ToldKeeps
<1>6. Fresh(s)' /\ Stored(s)'
  BY <1>5 DEF Fresh, Stored
<1>7. /\ \A p \in Others(s) : Asked(Out(s, p), Back(s, p)) => Asked(Out(s, p), Back(s, p))'
      /\ "PRECOMMIT_ACK" \in TypesOf(queue'[s]) => "PRECOMMIT_ACK" \in TypesOf(queue[s])
  BY <1>1, CalledOff DEF Fewer
<1>8. InOrder(s)'
  BY <1>3, <1>4, <1>5, <1>7, FailuresStay DEF Exchange, InOrder
<1> QED
  BY <1>5, <1>6, <1>8 DEF Exchange

LEMMA PerformedKeeps ==
  ASSUME TypeOK, NEW s \in Servers, AllPerformed(s), \A t \in Servers : Exchange(t)
  PROVE  /\ \A t \in Servers : Exchange(t)'
         /\ Cmd(s) \in DOMAIN log /\ log[Cmd(s)].by = s /\ log[Cmd(s)].answer = "none"
         /\ ~Confused(s) => Others(s) \subseteq log[Cmd(s)].saved
<1>1. Takes(s, "COMMIT_SUCCESS") /\ WaitsSave(s)
  BY DEF AllPerformed, WaitsSave
<1>2. /\ Busy(s) /\ ~WaitsCommit(s) /\ Cmd(s) \in DOMAIN log /\ log[Cmd(s)].by = s
      /\ log[Cmd(s)].answer = "none"
  BY <1>1 DEF Exchange, Logged, Busy, WaitsSave, WaitsCommit
<1>3. /\ CallsOff(s, "COMMIT_SUCCESS", "END") /\ user'[s] = NoCmd
      /\ \A c \in DOMAIN log : c # Cmd(s) => log'[c] = log[c]
  BY <1>2, AllPerformedEffect
<1>4. /\ \A t \in Servers : t # s => Untouched(t)
      /\ LogKept /\ DOMAIN log' = DOMAIN log
  BY <1>3 DEF CallsOff
<1>5. /\ \A p \in Others(s) : Asked(Out(s, p), Back(s, p)) => Asked(Out(s, p), Back(s, p))'
      /\ \A p \in Others(s) : Saved(Out(s, p), Back(s, p)) => Saved(Out(s, p), Back(s, p))'
      /\ OneSuccess(queue[s]) => "COMMIT_SUCCESS" \notin TypesOf(queue'[s])
      /\ "PRECOMMIT_ACK" \in TypesOf(queue'[s]) => "PRECOMMIT_ACK" \in TypesOf(queue[s])
      /\ "COMMIT_SUCCESS" \in TypesOf(queue[s])
  BY <1>3, CalledOff DEF Fewer
<1>6. ~WaitsCommit(s)' /\ ~WaitsSave(s)' /\ ~Busy(s)'
  BY <1>3 DEF NoCmd, WaitsCommit, WaitsSave, Busy
<1>7. \A t \in Servers : Logged(t)'
  <2>1. ASSUME NEW t \in Servers, t # s, Busy(t)
        PROVE  log'[Cmd(t)] = log[Cmd(t)]
    <3>1. Cmd(t) \in DOMAIN log /\ log[Cmd(t)].by = t
      BY <2>1 DEF Exchange, Logged
    <3> QED
      BY <2>1, <3>1, <1>2, <1>3
  <2>2. \A t \in Servers : t # s => Logged(t)'
    BY <1>4, <2>1, LoggedKept DEF Untouched, Exchange
  <2> QED
    BY <1>6, <2>2 DEF Logged
<1>8. \A t \in Servers : t # s => Exchange(t)'
  BY <1>4, <1>7, OthersKept
<1>9. (FailedEarly(s) => FailedEarly(s)') /\ (FailedLate(s) => FailedLate(s)')
  BY <1>4, FailuresStay
<1>10. InOrder(s)'
  BY <1>2, <1>5, <1>6, <1>9 DEF Exchange, InOrder
<1>11. Fresh(s)'
  BY <1>1, <1>5, <1>6, <1>9 DEF Exchange, Fresh
<1>12. Stored(s)'
  BY <1>6 DEF Stored
<1>13. ~Confused(s) => Others(s) \subseteq log[Cmd(s)].saved
  BY <1>1, <1>5 DEF Exchange, Stored
<1> QED
  BY <1>2, <1>7, <1>8, <1>10, <1>11, <1>12, <1>13 DEF Exchange

LEMMA AcknowledgedKeeps ==
  ASSUME TypeOK, NEW s \in Servers, AllAcknowledged(s), WaitsCommit(s),
         \A t \in Servers : Exchange(t)
  PROVE  \A t \in Servers : Exchange(t)'
<1>1. /\ \A t \in Servers : t # s => Untouched(t)
      /\ queue[s] \in Seq(Events) /\ queue[s] # <<>> /\ Head(queue[s]).type = "PRECOMMIT_ACK"
      /\ queue'[s] = Tail(queue[s])
      /\ \A p \in Others(s) : Back(s, p)' = Back(s, p) /\ Srv(s, p)' = "M_COMMITED"
      /\ user'[s].state = "U_WAITING_SAVE" /\ user'[s].line = user[s].line
      /\ user'[s].kind = user[s].kind
      /\ DOMAIN log' = DOMAIN log
      /\ \A c \in DOMAIN log :
           /\ c # Cmd(s) => log'[c] = log[c]
           /\ c = Cmd(s) => log'[c].committed = TRUE
           /\ log'[c].by = log[c].by /\ log'[c].kind = log[c].kind /\ log'[c].num = log[c].num
           /\ log'[c].answer = log[c].answer /\ log'[c].saved = log[c].saved
      /\ UNCHANGED crowded
  BY AcknowledgedEffect
<1>2. PICK e \in Orders :
        /\ e.kind = "COMMIT" /\ e.line.text = Cmd(s)
        /\ \A p \in Others(s) : Out(s, p)' = Append(Out(s, p), e)
  <2>1. PICK e : e = [kind |-> "COMMIT", line |-> user[s].line]
    OBVIOUS
  <2>2. e \in Orders /\ \A p \in Others(s) : Out(s, p)' = Append(Out(s, p), e)
    BY <2>1, AcknowledgedEffect, ZenonT(40)
  <2>3. e.kind = "COMMIT" /\ e.line.text = Cmd(s)
    BY <2>1 DEF Cmd
  <2> QED
    BY <2>2, <2>3
<1>3. /\ WaitsSave(s)' /\ ~WaitsCommit(s)' /\ Busy(s)' /\ Cmd(s)' = Cmd(s)
      /\ Busy(s) /\ ~WaitsSave(s)
  BY <1>1 DEF WaitsSave, WaitsCommit, Busy, Cmd
<1>4. /\ Cmd(s) \in DOMAIN log /\ log[Cmd(s)].by = s /\ log[Cmd(s)].answer = "none"
      /\ log[Cmd(s)].kind = user[s].kind /\ log[Cmd(s)].num = user[s].line.num
  BY <1>3 DEF Exchange, Logged
<1>5. LogKept
  <2>1. ASSUME NEW c \in DOMAIN log, log[c].answer # "none" PROVE log'[c] = log[c]
    BY <1>1, <1>4, <2>1
  <2> QED
    BY <1>1, <2>1 DEF LogKept
<1>6. \A t \in Servers : Logged(t)'
  <2>1. ASSUME NEW t \in Servers, t # s, Busy(t)
        PROVE  log'[Cmd(t)] = log[Cmd(t)]
    <3>1. Cmd(t) \in DOMAIN log /\ log[Cmd(t)].by = t
      BY <2>1 DEF Exchange, Logged
    <3> QED
      BY <2>1, <3>1, <1>1, <1>4
  <2>2. \A t \in Servers : t # s => Logged(t)'
    BY <1>1, <1>5, <2>1, LoggedKept DEF Untouched, Exchange
  <2>3. Logged(s)'
    BY <1>1, <1>3, <1>4 DEF Logged
  <2> QED
    BY <2>2, <2>3
<1>7. \A t \in Servers : t # s => Exchange(t)'
  BY <1>1, <1>5, <1>6, OthersKept
<1>8. (FailedEarly(s) => FailedEarly(s)') /\ (FailedLate(s) => FailedLate(s)')
  BY <1>5, FailuresStay
<1>9. /\ TypesOf(queue'[s]) \subseteq TypesOf(queue[s]) /\ "PRECOMMIT_ACK" \in TypesOf(queue[s])
      /\ AckLast(queue[s]) => /\ "PRECOMMIT_ACK" \notin TypesOf(queue'[s])
                              /\ "COMMIT_SUCCESS" \notin TypesOf(queue'[s])
      /\ OneSuccess(queue[s]) => OneSuccess(queue'[s])
  BY <1>1, TypesTail DEF Fewer
<1>10. ~FailedEarly(s) => /\ \A p \in Others(s) : Asked(Out(s, p), Back(s, p))
                          /\ \A p \in Others(s) : Saved(Out(s, p), Back(s, p))
                          /\ "PRECOMMIT_ACK" \notin TypesOf(queue'[s])
                          /\ "COMMIT_SUCCESS" \notin TypesOf(queue'[s])
  <2>1. SUFFICES ASSUME ~FailedEarly(s) PROVE <1>10!2
    OBVIOUS
  <2>2. /\ \A p \in Others(s) : Asks(Out(s, p), Back(s, p), Srv(s, p))
        /\ AckLast(queue[s])
        /\ \A p \in Others(s) : Srv(s, p) = "M_PRECOMMITED"
    BY <1>9, <2>1 DEF Exchange, InOrder
  <2>3. \A p \in Others(s) : Out(s, p) = <<>> /\ Back(s, p) = <<>>
    BY <2>2 DEF Asks
  <2> QED
    BY <1>9, <2>2, <2>3, KindsEmpty DEF Asked, Saved
<1>11. ~FailedLate(s) \/ ~crowded => /\ \A p \in Others(s) : Saved(Out(s, p), Back(s, p))
                                     /\ "COMMIT_SUCCESS" \notin TypesOf(queue'[s])
  BY <1>3, <1>9 DEF Exchange, Fresh
<1>12. ASSUME NEW p \in Others(s)
       PROVE  /\ Asked(Out(s, p), Back(s, p)) => Asked(Out(s, p), Back(s, p))'
              /\ Saved(Out(s, p), Back(s, p)) =>
                   /\ Saves(Out(s, p), Back(s, p), Srv(s, p))'
                   /\ \A d : SavesOnly(Out(s, p)', Back(s, p)', Srv(s, p)', Cmd(s), p, d)
  <2>1. Out(s, p) \in Seq(Orders)
    BY Channels
  <2>2. /\ Asked(Out(s, p), Back(s, p)) => Asked(Append(Out(s, p), e), Back(s, p))
        /\ Saved(Out(s, p), Back(s, p)) =>
             /\ Saves(Append(Out(s, p), e), Back(s, p), "M_COMMITED")
             /\ \A d : SavesOnly(Append(Out(s, p), e), Back(s, p), "M_COMMITED", Cmd(s), p, d)
    BY <1>2, <2>1, SendsOther
  <2> QED
    BY <1>1, <1>2, <2>2
<1>13. InOrder(s)'
  BY <1>3, <1>8, <1>10, <1>12 DEF InOrder
<1>14. Fresh(s)'
  <2>1. SUFFICES ASSUME ~FailedLate(s) \/ ~crowded PROVE Fresh(s)'
    BY <1>1, <1>8 DEF Fresh
  <2>2. OneSuccess(queue'[s])
    <3>1. "COMMIT_SUCCESS" \notin TypesOf(queue'[s])
      BY <1>11, <2>1
    <3> QED
      BY <3>1 DEF OneSuccess, TypesOf
  <2>3. \A p \in Others(s) : Saves(Out(s, p), Back(s, p), Srv(s, p))'
    BY <1>11, <1>12, <2>1
  <2> QED
    BY <1>3, <1>11, <2>1, <2>2, <2>3 DEF Fresh
<1>15. Stored(s)'
  <2>1. SUFFICES ASSUME ~Confused(s)' PROVE Stored(s)'
    BY DEF Stored
  <2>2. ~FailedEarly(s) \/ ~FailedLate(s) \/ ~crowded
    BY <1>1, <1>8, <2>1 DEF Confused
  <2>3. /\ \A p \in Others(s) : Saved(Out(s, p), Back(s, p))
        /\ "COMMIT_SUCCESS" \notin TypesOf(queue'[s])
    BY <1>10, <1>11, <2>2
  <2>4. \A p \in Others(s) : \A d : SavesOnly(Out(s, p)', Back(s, p)', Srv(s, p)', Cmd(s), p, d)
    BY <1>12, <2>3
  <2> QED
    BY <1>3, <2>3, <2>4 DEF Stored
<1> QED
  BY <1>6, <1>7, <1>13, <1>14, <1>15 DEF Exchange

LEMMA CommandKeeps ==
  ASSUME TypeOK, NEW s \in Servers, NEW kind \in {"WRITE", "REPLACE"}, NEW num \in Nums,
         num <= Earlier + Len(log) + 1, Command(s, kind, num),
         msgNumber' \in [Servers -> 0 .. Earlier + Len(log) + 1], \A t \in Servers : Exchange(t)
  PROVE  \A t \in Servers : Exchange(t)'
<1>1. PICK n : n = Len(log) + 1
  OBVIOUS
<1>2. PICK x : x = [by |-> s, kind |-> kind, num |-> num, answer |-> "none",
                    committed |-> FALSE, saved |-> {}]
  OBVIOUS
<1>3. /\ user[s].state = "IDLE" /\ user'[s].state = "U_WAITING_COMMIT"
      /\ user'[s].kind = kind /\ user'[s].line.num = num /\ user'[s].line.text = n
      /\ \A t \in Servers : t # s => Untouched(t)
      /\ queue'[s] = queue[s]
      /\ \A p \in Others(s) : Back(s, p)' = Back(s, p)
                             /\ Srv(s, p)' = "M_PRECOMMIT_MULTICASTED"
      /\ LogKept /\ \A c \in DOMAIN log : log'[c] = log[c]
      /\ ~crowded' => ~crowded /\ Quiet
  <2>1. user'[s].line.text = Len(log) + 1
    BY CommandEffect, ZenonT(40)
  <2>2. user'[s].line.text = n
    BY <2>1, <1>1
  <2>3. user[s].state = "IDLE" /\ user'[s].state = "U_WAITING_COMMIT"
    BY CommandEffect
  <2>8. user'[s].kind = kind
    BY CommandEffect
  <2>10. user'[s].line.num = num
    <3>1. user'[s] = [state |-> "U_WAITING_COMMIT", kind |-> kind,
                      line |-> [num |-> num, text |-> Len(log) + 1]]
      BY CommandTypes
    <3> QED
      BY <3>1
  <2>9. queue'[s] = queue[s]
    BY CommandEffect
  <2>4. \A t \in Servers : t # s => Untouched(t)
    BY CommandEffect, ZenonT(40)
  <2>5. \A p \in Others(s) : Back(s, p)' = Back(s, p)
                             /\ Srv(s, p)' = "M_PRECOMMIT_MULTICASTED"
    BY CommandEffect
  <2>6. LogKept /\ (\A c \in DOMAIN log : log'[c] = log[c])
    BY CommandEffect
  <2>7. ~crowded' => ~crowded /\ Quiet
    BY CommandEffect
  <2> QED
    BY <2>2, <2>3, <2>4, <2>5, <2>6, <2>7, <2>8, <2>9, <2>10
<1>4. DOMAIN log' = 1 .. n /\ log'[n] = x /\ n \in Nat /\ n > 0
  BY <1>1, <1>2, CommandEffect, LogLength
<1>5. PICK e \in Orders : /\ e.kind = "PRECOMMIT"
                          /\ \A p \in Others(s) : Out(s, p)' = Append(Out(s, p), e)
  <2>1. PICK e : e = [kind |-> "PRECOMMIT", line |-> NoLine]
    OBVIOUS
  <2>2. e \in Orders /\ \A p \in Others(s) : Out(s, p)' = Append(Out(s, p), e)
    BY <2>1, CommandEffect
  <2> QED
    BY <2>1, <2>2
<1>6. /\ WaitsCommit(s)' /\ ~WaitsSave(s)' /\ Busy(s)' /\ Cmd(s)' = n
      /\ ~WaitsCommit(s) /\ ~WaitsSave(s) /\ ~Busy(s)
  BY <1>3 DEF WaitsSave, WaitsCommit, Busy, Cmd
<1>7. Logged(s)'
  <2>1. /\ x.by = s /\ x.kind = kind /\ x.num = num /\ x.answer = "none" /\ ~x.committed
    BY <1>2
  <2>2. n \in DOMAIN log' /\ log'[n] = x
    BY <1>4
  <2>3. log'[n].committed <=> WaitsSave(s)'
    BY <1>6, <2>1, <2>2
  <2> QED
    BY <1>3, <1>6, <2>1, <2>2, <2>3 DEF Logged
<1>8. \A t \in Servers : t # s => Logged(t)'
  <2>1. \A t \in Servers : Busy(t) => Cmd(t) \in DOMAIN log
    BY DEF Exchange, Logged
  <2> QED
    BY <1>3, <2>1, LoggedKept DEF Untouched, Exchange
<1>9. \A t \in Servers : t # s => Exchange(t)'
  BY <1>3, <1>8, OthersKept
<1>10. (FailedEarly(s) => FailedEarly(s)') /\ (FailedLate(s) => FailedLate(s)')
  BY <1>3, FailuresStay
<1>11. ASSUME NEW p \in Others(s)
       PROVE  /\ Asked(Out(s, p), Back(s, p)) => Asks(Out(s, p), Back(s, p), Srv(s, p))'
              /\ Saved(Out(s, p), Back(s, p)) => Saved(Out(s, p), Back(s, p))'
  <2>1. Out(s, p) \in Seq(Orders)
    BY Channels
  <2>2. /\ Asked(Out(s, p), Back(s, p))
             => Asks(Append(Out(s, p), e), Back(s, p), "M_PRECOMMIT_MULTICASTED")
        /\ Saved(Out(s, p), Back(s, p)) => Saved(Append(Out(s, p), e), Back(s, p))
    BY <1>5, <2>1, AsksFirst, SendsOther
  <2> QED
    BY <1>3, <1>5, <2>2
<1>12. InOrder(s)'
  <2>1. SUFFICES ASSUME ~FailedEarly(s) PROVE InOrder(s)'
    BY <1>10 DEF InOrder
  <2>2. /\ \A p \in Others(s) : Asked(Out(s, p), Back(s, p))
        /\ "PRECOMMIT_ACK" \notin TypesOf(queue[s])
    BY <1>6, <2>1 DEF Exchange, InOrder
  <2>3. AckLast(queue[s])
    BY <2>2 DEF AckLast, TypesOf
  <2> QED
    BY <1>3, <1>6, <1>11, <2>2, <2>3 DEF InOrder
<1>13. Fresh(s)'
  <2>1. SUFFICES ASSUME ~FailedLate(s) \/ ~crowded' PROVE Fresh(s)'
    BY <1>10 DEF Fresh
  <2>2. /\ \A p \in Others(s) : Saved(Out(s, p), Back(s, p))
        /\ "COMMIT_SUCCESS" \notin TypesOf(queue[s])
    <3>1. CASE ~FailedLate(s)
      BY <1>6, <3>1 DEF Exchange, Fresh
    <3>2. CASE ~crowded'
      <4>1. /\ \A p \in Pairs : toSlave[p] = <<>> /\ toMaster[p] = <<>>
            /\ queue[s] = <<>>
        BY <1>3, <3>2 DEF Quiet
      <4>2. \A p \in Others(s) : Out(s, p) = <<>> /\ Back(s, p) = <<>>
        BY <4>1, Channels DEF Out, Back
      <4> QED
        BY <4>1, <4>2, KindsEmpty DEF Saved
    <3> QED
      BY <2>1, <3>1, <3>2
  <2> QED
    BY <1>3, <1>6, <1>11, <2>2 DEF Fresh
<1>14. Stored(s)'
  BY <1>6 DEF Stored
<1> QED
  BY <1>7, <1>8, <1>9, <1>12, <1>13, <1>14 DEF Exchange

LEMMA ExchangesInitially == ASSUME Init PROVE \A s \in Servers : Exchange(s)
<1>1. ASSUME NEW s \in Servers PROVE Exchange(s)
  <2>1. user[s].state = "IDLE"
    BY DEF Init, NoCmd
  <2>2. ~Busy(s) /\ ~WaitsCommit(s) /\ ~WaitsSave(s)
    BY <2>1 DEF Busy, WaitsCommit, WaitsSave
  <2>3. queue[s] = <<>>
    BY DEF Init
  <2>4. \A p \in Others(s) : Out(s, p) = <<>> /\ Back(s, p) = <<>>
    BY DEF Init, Out, Back, Others, Pairs
  <2>5. \A p \in Others(s) : Asked(Out(s, p), Back(s, p)) /\ Saved(Out(s, p), Back(s, p))
    BY <2>4, KindsEmpty DEF Asked, Saved
  <2>6. TypesOf(queue[s]) = {}
    BY <2>3, KindsEmpty
  <2> QED
    BY <2>2, <2>5, <2>6 DEF Exchange, Logged, InOrder, Fresh, Stored
<1> QED
  BY <1>1

LEMMA ExchangesStay ==
  ASSUME TypeOK, \A t \in Servers : Exchange(t), [Next]_vars
  PROVE  \A t \in Servers : Exchange(t)'
<1>1. ASSUME NEW s \in Servers, Issue(s) PROVE \A t \in Servers : Exchange(t)'
  <2>1. CASE Leave(s)
    BY <2>1, LeaveKeeps
  <2>2. CASE Write(s)
    <3>1. PICK num : num = msgNumber'[s]
      OBVIOUS
    <3>2. /\ num \in Nums /\ num <= Earlier + Len(log) + 1
          /\ msgNumber' \in [Servers -> 0 .. Earlier + Len(log) + 1]
          /\ Command(s, "WRITE", num)
      BY <2>2, <3>1, WriteCommand
    <3> QED
      BY <3>2, CommandKeeps
  <2>3. ASSUME NEW num \in 1 .. Earlier + 1, Replace(s, num)
        PROVE  \A t \in Servers : Exchange(t)'
    <3>1. /\ num \in Nums /\ num <= Earlier + Len(log) + 1
          /\ msgNumber' \in [Servers -> 0 .. Earlier + Len(log) + 1]
          /\ Command(s, "REPLACE", num)
      BY <2>3, ReplaceCommand
    <3> QED
      BY <3>1, CommandKeeps
  <2> QED
    BY <1>1, <2>1, <2>2, <2>3 DEF Issue
<1>2. ASSUME NEW s \in Servers, Receive(s) PROVE \A t \in Servers : Exchange(t)'
  BY <1>2, PrecommitKeeps, DropKeeps, CommitKeeps, ReplyKeeps DEF Receive
<1>3. ASSUME NEW s \in Servers, Handle(s) \/ MasterTimer(s) \/ SlaveTimer(s)
      PROVE  \A t \in Servers : Exchange(t)'
  <2>1. CASE OnlyQueue(s)
    BY <2>1, QueueStepKeeps
  <2>2. CASE AllAcknowledged(s) /\ WaitsCommit(s)
    BY <2>2, AcknowledgedKeeps
  <2>3. CASE GivesUp(s)
    BY <2>3, GivesUpKeeps
  <2>4. CASE AllPerformed(s)
    BY <2>4, PerformedKeeps
  <2>5. CASE Undone(s)
    BY <2>5, UndoneKeeps
  <2> QED
    BY <1>3, <2>1, <2>2, <2>3, <2>4, <2>5, QueueSteps DEF Handle
<1>4. CASE UNCHANGED vars
  <2>1. LogKept
    BY <1>4 DEF vars, LogKept
  <2>2. \A t \in Servers : Untouched(t)
    BY <1>4, SameOut, SameBack, SameSrv DEF vars, Untouched
  <2>3. \A t \in Servers : Logged(t)'
    BY <1>4, <2>1, LoggedKept DEF vars, Exchange
  <2> QED
    BY <2>1, <2>2, <2>3, OthersKept
<1> QED
  BY <1>1, <1>2, <1>3, <1>4 DEF Next

\* No command is answered "3.0 WROTE" in this step.
NoneWrote == \A c \in DOMAIN log' :
  log'[c].answer = "WROTE" => c \in DOMAIN log /\ log[c].answer = "WROTE"

LEMMA WroteShown ==
  ASSUME \A c \in DOMAIN log' : \A s : log'[c].answer = "WROTE" /\ log'[c].by = s =>
           \/ log'[c].saved = Servers
           \/ crowded' /\ FailedEarly(s)' /\ FailedLate(s)'
  PROVE  WroteEverywhere'
<1>1. ASSUME NEW c \in DOMAIN log', log'[c].answer = "WROTE", log'[c].saved # Servers
      PROVE  crowded' /\ FailedEarly(log[c].by)' /\ FailedLate(log[c].by)'
  <2>1. PICK s : s = log'[c].by
    OBVIOUS
  <2>2. crowded' /\ FailedEarly(s)' /\ FailedLate(s)'
    BY <1>1, <2>1
  <2> QED
    BY <2>1, <2>2 DEF FailedEarly, FailedLate
<1> QED
  BY <1>1 DEF WroteEverywhere

LEMMA WroteKept ==
  ASSUME TypeOK, TypeOK', WroteEverywhere, LogKept, NoneWrote
  PROVE  WroteEverywhere'
<1>1. SUFFICES ASSUME NEW c \in DOMAIN log', NEW s, log'[c].answer = "WROTE", log'[c].by = s
               PROVE  \/ log'[c].saved = Servers
                      \/ crowded' /\ FailedEarly(s)' /\ FailedLate(s)'
  BY WroteShown
<1>2. /\ c \in DOMAIN log /\ log[c].answer = "WROTE" /\ log'[c].by = log[c].by
      /\ log[c].saved \subseteq log'[c].saved
  BY <1>1 DEF NoneWrote, LogKept
<1>3. log'[c].saved \subseteq Servers
  <2>1. log' \in Seq(Commands)
    BY DEF TypeOK
  <2>2. log'[c] \in Commands
    BY <1>1, <2>1
  <2> QED
    BY <2>2 DEF Commands
<1>4. s = log[c].by
  BY <1>1, <1>2
<1>5. \/ log[c].saved = Servers
      \/ crowded /\ FailedEarly(s) /\ FailedLate(s)
  BY <1>2, <1>4 DEF WroteEverywhere
<1>6. (FailedEarly(s) => FailedEarly(s)') /\ (FailedLate(s) => FailedLate(s)') /\ (crowded => crowded')
  BY FailuresStay DEF LogKept
<1>8. CASE log[c].saved = Servers
  BY <1>2, <1>3, <1>8
<1>9. CASE crowded /\ FailedEarly(s) /\ FailedLate(s)
  BY <1>6, <1>9
<1> QED
  BY <1>5, <1>8, <1>9

LEMMA NoneWroteIf ==
  ASSUME NEW s, NEW v \in {"ERROR", "UNKNOWN", "gone"}, Told(s, v), DOMAIN log' = DOMAIN log
  PROVE  NoneWrote
BY DEF Told, NoneWrote

LEMMA AcknowledgedLog ==
  ASSUME TypeOK, NEW s \in Servers, AllAcknowledged(s), WaitsCommit(s), Exchange(s)
  PROVE  LogKept /\ DOMAIN log' = DOMAIN log /\ \A c \in DOMAIN log : log'[c].answer = log[c].answer
<1>1. /\ DOMAIN log' = DOMAIN log
      /\ \A c \in DOMAIN log : log'[c].answer = log[c].answer
  BY AcknowledgedEffect
<1>2. /\ \A c \in DOMAIN log :
           /\ c # Cmd(s) => log'[c] = log[c]
           /\ log'[c].by = log[c].by /\ log'[c].kind = log[c].kind /\ log'[c].num = log[c].num
           /\ log'[c].saved = log[c].saved
      /\ UNCHANGED crowded
  BY AcknowledgedEffect
<1>3. Cmd(s) \in DOMAIN log => log[Cmd(s)].answer = "none"
  BY DEF Exchange, Logged, Busy, WaitsCommit
<1> QED
  BY <1>1, <1>2, <1>3 DEF LogKept

LEMMA WroteStays ==
  ASSUME TypeOK, TypeOK', \A t \in Servers : Exchange(t), WroteEverywhere, [Next]_vars
  PROVE  WroteEverywhere'
<1>1. SUFFICES \/ LogKept /\ NoneWrote
               \/ WroteEverywhere'
  BY WroteKept
<1>2. ASSUME NEW s \in Servers, NEW kind \in {"WRITE", "REPLACE"}, NEW num \in Nums,
             num <= Earlier + Len(log) + 1, Command(s, kind, num),
             msgNumber' \in [Servers -> 0 .. Earlier + Len(log) + 1]
      PROVE  LogKept /\ NoneWrote
  <2>1. PICK n, x : /\ n = Len(log) + 1
                    /\ x = [by |-> s, kind |-> kind, num |-> num, answer |-> "none",
                            committed |-> FALSE, saved |-> {}]
    OBVIOUS
  <2>2. LogKept /\ (\A c \in DOMAIN log : log'[c] = log[c])
    BY <1>2, CommandEffect
  <2>3. DOMAIN log' = 1 .. n /\ log'[n] = x
    BY <1>2, <2>1, CommandEffect
  <2>4. DOMAIN log = 1 .. Len(log) /\ Len(log) \in Nat
    BY LogLength
  <2>5. \A c \in DOMAIN log' : c \in DOMAIN log \/ c = n
    BY <2>1, <2>3, <2>4
  <2>6. x.answer = "none"
    BY <2>1
  <2> QED
    BY <2>2, <2>3, <2>5, <2>6 DEF NoneWrote
<1>3. ASSUME NEW s \in Servers, Issue(s) PROVE LogKept /\ NoneWrote
  <2>1. CASE Leave(s)
    <3>1. LogKept /\ DOMAIN log' = DOMAIN log /\ Told(s, "gone")
      BY <2>1, LeaveEffect DEF Told
    <3> QED
      BY <3>1, NoneWroteIf
  <2>2. CASE Write(s)
    <3>1. PICK num : num = msgNumber'[s]
      OBVIOUS
    <3>2. /\ num \in Nums /\ num <= Earlier + Len(log) + 1
          /\ msgNumber' \in [Servers -> 0 .. Earlier + Len(log) + 1]
          /\ Command(s, "WRITE", num)
      BY <2>2, <3>1, WriteCommand
    <3> QED
      BY <1>2, <3>2
  <2>3. ASSUME NEW num \in 1 .. Earlier + 1, Replace(s, num) PROVE LogKept /\ NoneWrote
    <3>1. /\ num \in Nums /\ num <= Earlier + Len(log) + 1
          /\ msgNumber' \in [Servers -> 0 .. Earlier + Len(log) + 1]
          /\ Command(s, "REPLACE", num)
      BY <2>3, ReplaceCommand
    <3> QED
      BY <1>2, <3>1
  <2> QED
    BY <1>3, <2>1, <2>2, <2>3 DEF Issue
<1>4. ASSUME UNCHANGED log, LogKept PROVE LogKept /\ NoneWrote
  BY <1>4 DEF NoneWrote
<1>5. ASSUME NEW s \in Servers, Receive(s) PROVE LogKept /\ NoneWrote
  <2>1. ASSUME NEW p \in Servers, Commit(p, s) PROVE LogKept /\ NoneWrote
    <3>1. Received(p, s) /\ OnlySaves
      BY <2>1, CommitEffect
    <3> QED
      BY <3>1 DEF Received, OnlySaves, NoneWrote
  <2>2. ASSUME NEW p \in Servers, Precommit(p, s) \/ AbortOrEnd(p, s) \/ CommitRefused(p, s)
        PROVE  UNCHANGED log /\ LogKept
    BY <2>2, PrecommitEffect, DropEffect DEF Received
  <2>3. ASSUME NEW p \in Servers, Reply(s, p) PROVE UNCHANGED log /\ LogKept
    BY <2>3, ReplyEffect
  <2> QED
    BY <1>4, <1>5, <2>1, <2>2, <2>3 DEF Receive
<1>6. ASSUME NEW s \in Servers, AllPerformed(s) PROVE WroteEverywhere'
  <2>1. PICK c : c = Cmd(s)
    OBVIOUS
  <2>2. /\ c \in DOMAIN log /\ log[c].by = s /\ log[c].answer = "none"
        /\ ~Confused(s) => Others(s) \subseteq log[c].saved
    BY <1>6, <2>1, PerformedKeeps
  <2>3. /\ CallsOff(s, "COMMIT_SUCCESS", "END")
        /\ \A d \in DOMAIN log : d # c => log'[d] = log[d]
        /\ log'[c].answer = "WROTE" => s \in log'[c].saved
    BY <1>6, <2>1, <2>2, AllPerformedEffect
  <2>4. LogKept /\ DOMAIN log' = DOMAIN log
    BY <2>3 DEF CallsOff
  <2>5. CASE log'[c].answer # "WROTE"
    <3>1. NoneWrote
      BY <2>3, <2>4, <2>5 DEF NoneWrote
    <3> QED
      BY <2>4, <3>1, WroteKept
  <2>6. ASSUME log'[c].answer = "WROTE", NEW d \in DOMAIN log', NEW t, log'[d].answer = "WROTE",
               log'[d].by = t
        PROVE  \/ log'[d].saved = Servers
               \/ crowded' /\ FailedEarly(t)' /\ FailedLate(t)'
    <3>1. \A u : (FailedEarly(u) => FailedEarly(u)') /\ (FailedLate(u) => FailedLate(u)')
      BY <2>4, FailuresStay
    <3>2. crowded => crowded'
      BY <2>4 DEF LogKept
    <3>3. t = log[d].by
      BY <2>4, <2>6 DEF LogKept
    <3>5. CASE d = c
      <4>1. CASE Confused(s)
        BY <2>2, <3>1, <3>2, <3>3, <3>5, <4>1 DEF Confused
      <4>2. CASE ~Confused(s)
        <5>1. Others(s) \subseteq log'[c].saved /\ s \in log'[c].saved
          BY <2>2, <2>3, <2>4, <2>6, <4>2 DEF LogKept
        <5>2. log'[c].saved \subseteq Servers
          <6>1. log' \in Seq(Commands)
            BY DEF TypeOK
          <6>2. log'[c] \in Commands
            BY <2>2, <2>4, <6>1
          <6> QED
            BY <6>2 DEF Commands
        <5> QED
          BY <3>5, <5>1, <5>2 DEF Others
      <4> QED
        BY <4>1, <4>2
    <3>6. CASE d # c
      <4>1. \/ log[d].saved = Servers
            \/ crowded /\ FailedEarly(t) /\ FailedLate(t)
        BY <2>3, <2>4, <2>6, <3>3, <3>6 DEF WroteEverywhere
      <4>2. log'[d].saved = log[d].saved
        BY <2>3, <2>4, <2>6, <3>6
      <4> QED
        BY <3>1, <3>2, <4>1, <4>2
    <3> QED
      BY <3>5, <3>6
  <2> QED
    BY <2>5, <2>6, WroteShown
<1>7. ASSUME NEW s \in Servers, Handle(s) \/ MasterTimer(s) \/ SlaveTimer(s)
      PROVE  (LogKept /\ NoneWrote) \/ WroteEverywhere'
  <2>1. CASE OnlyQueue(s)
    BY <1>4, <2>1 DEF OnlyQueue
  <2>2. CASE AllAcknowledged(s) /\ WaitsCommit(s)
    BY <2>2, AcknowledgedLog DEF NoneWrote
  <2>3. CASE GivesUp(s)
    <3>1. /\ CallsOff(s, "PRECOMMIT_ERR", "ABORT")
          /\ Told(s, "ERROR") \/ UNCHANGED log
      BY <2>3, GivesUpEffect
    <3> QED
      BY <1>4, <3>1, NoneWroteIf DEF CallsOff
  <2>4. CASE AllPerformed(s)
    BY <1>6, <2>4
  <2>5. CASE Undone(s)
    <3>1. PICK v \in {"ERROR", "UNKNOWN"} : Told(s, v)
      BY <2>5, UndoneEffect
    <3> QED
      BY <2>5, <3>1, UndoneEffect, NoneWroteIf DEF CallsOff
  <2> QED
    BY <1>7, <2>1, <2>2, <2>3, <2>4, <2>5, QueueSteps DEF Handle
<1>8. CASE UNCHANGED vars
  BY <1>4, <1>8 DEF vars, LogKept
<1> QED
  BY <1>3, <1>5, <1>7, <1>8 DEF Next

\* The invariant behind WroteEverywhere: of every master's exchange, what is under way, what
\* its list of peers says and the events it has yet to read are of the command that waits,
\* until both kinds of failure and an overlap have made it possible that they are not.
THEOREM ExchangesHold == Spec => []\A s \in Servers : Exchange(s)
<1>1. Init => TypeOK /\ \A s \in Servers : Exchange(s)
  BY TypesInitially, ExchangesInitially
<1>2. TypeOK /\ (\A s \in Servers : Exchange(s)) /\ [Next]_vars
        => TypeOK' /\ (\A s \in Servers : Exchange(s))'
  BY TypesStay, ExchangesStay
<1> QED
  BY <1>1, <1>2, PTL DEF Spec

\* With any number of masters, commands, timers that expire and users that leave: a command
\* is answered "3.0 WROTE" only when every server has stored it, unless its master had
\* overlapping exchanges of which one failed before and one after its COMMIT.
THEOREM WroteEverywhereHolds == Spec => []WroteEverywhere
<1>1. Init => WroteEverywhere
  BY DEF Init, WroteEverywhere
<1>2. TypeOK /\ TypeOK' /\ (\A s \in Servers : Exchange(s)) /\ WroteEverywhere /\ [Next]_vars
        => WroteEverywhere'
  BY WroteStays
<1> QED
  BY <1>1, <1>2, TypeCorrect, ExchangesHold, PTL DEF Spec

-----------------------------------------------------------------------------
(* Released: who still waits for a COMMIT when all is quiet *)

\* st, the slave's record of its master, will not be left waiting by o, the messages that
\* are under way to it.
Settled(o, st) == IF o = <<>> THEN st # "S_PRECOMMIT_ACK" ELSE o[Len(o)].kind # "PRECOMMIT"

Gone(s) == \E c \in DOMAIN log : log[c].by = s /\ log[c].answer = "gone"

\* The invariant behind Released: after every PRECOMMIT another message follows, unless the
\* master's user still waits or has left.
Awaited(s) == \A p \in Others(s) : Settled(Out(s, p), slave[p][s]) \/ Busy(s) \/ Gone(s)

LEMMA SettledTail ==
  ASSUME NEW o \in Seq(Orders), o # <<>>, NEW st, NEW st1
  PROVE  /\ Settled(o, st) /\ Head(o).kind = "PRECOMMIT" => Settled(Tail(o), st1)
         /\ Settled(o, st) /\ st1 # "S_PRECOMMIT_ACK" => Settled(Tail(o), st1)
<1>1. PICK r : r = Tail(o)
  OBVIOUS
<1>2. /\ Len(r) = Len(o) - 1 /\ Len(o) \in Nat /\ Head(o) = o[1] /\ 1 \in DOMAIN o /\ r \in Seq(Orders)
      /\ \A i \in DOMAIN r : r[i] = o[i + 1]
  BY <1>1, Tails
<1>3. r = <<>> => Len(o) = 1
  BY <1>2
<1>4. r # <<>> => r[Len(r)] = o[Len(o)]
  BY <1>2
<1> QED
  BY <1>1, <1>2, <1>3, <1>4 DEF Settled

LEMMA SettledAppend ==
  ASSUME NEW o \in Seq(Orders), NEW e \in Orders, e.kind # "PRECOMMIT", NEW st
  PROVE  Settled(Append(o, e), st)
<1>1. PICK r : r = Append(o, e)
  OBVIOUS
<1>2. r # <<>> /\ Len(r) = Len(o) + 1 /\ r[Len(o) + 1] = e
  BY <1>1, Appends
<1> QED
  BY <1>1, <1>2 DEF Settled

LEMMA GoneStays == ASSUME LogKept PROVE \A s : Gone(s) => Gone(s)'
BY DEF LogKept, Gone

\* A master whose channels stay, and whose peers' records of it do.
LEMMA AwaitedKept ==
  ASSUME NEW t, Awaited(t), LogKept, user'[t] = user[t],
         \A p \in Others(t) : Out(t, p)' = Out(t, p) /\ slave'[p][t] = slave[p][t]
  PROVE  Awaited(t)'
<1>1. (Gone(t) => Gone(t)') /\ (Busy(t)' <=> Busy(t))
  BY GoneStays DEF Busy
<1>2. \A p \in Others(t) : Settled(Out(t, p), slave[p][t]) => Settled(Out(t, p)', slave'[p][t])
  OBVIOUS
<1> QED
  BY <1>1, <1>2 DEF Awaited

LEMMA ArrivalAwaited ==
  ASSUME TypeOK, NEW m \in Servers, NEW s \in Others(m), Received(m, s),
         \A t \in Servers : Awaited(t),
         \A p \in Servers : \A t \in Others(p) : p # s \/ t # m => slave'[p][t] = slave[p][t],
         \/ Head(Out(m, s)).kind = "PRECOMMIT"
         \/ slave'[s][m] # "S_PRECOMMIT_ACK"
  PROVE  \A t \in Servers : Awaited(t)'
<1>1. \A t \in Servers : \A p \in Others(t) : p \in Servers /\ t \in Others(p) /\ Out(t, p) \in Seq(Orders)
  BY Channels
<1>2. /\ \A t \in Servers : t # m => \A p \in Others(t) : Out(t, p)' = Out(t, p)
      /\ \A p \in Others(m) : p # s => Out(m, p)' = Out(m, p)
      /\ Out(m, s) # <<>> /\ Out(m, s)' = Tail(Out(m, s))
      /\ \A t \in Servers : user'[t] = user[t]
      /\ LogKept
  BY DEF Received, Untouched
<1>3. \A t \in Servers : t # m => Awaited(t)'
  BY <1>1, <1>2, AwaitedKept
<1>4. (Gone(m) => Gone(m)') /\ (Busy(m)' <=> Busy(m))
  BY <1>2, GoneStays DEF Busy
<1>5. \A p \in Others(m) : p # s => (Settled(Out(m, p), slave[p][m]) => Settled(Out(m, p)', slave'[p][m]))
  BY <1>1, <1>2
<1>6. Settled(Out(m, s), slave[s][m]) => Settled(Out(m, s)', slave'[s][m])
  BY <1>1, <1>2, SettledTail
<1>7. Awaited(m)'
  BY <1>4, <1>5, <1>6 DEF Awaited
<1> QED
  BY <1>3, <1>7

LEMMA AwaitedOthers ==
  ASSUME TypeOK, NEW s \in Servers, \A t \in Servers : t # s => Untouched(t), LogKept,
         UNCHANGED slave, \A t \in Servers : Awaited(t)
  PROVE  \A t \in Servers : t # s => Awaited(t)'
BY AwaitedKept DEF Untouched

LEMMA CallsAwaited ==
  ASSUME TypeOK, NEW s \in Servers, NEW e \in Orders, e.kind # "PRECOMMIT",
         \A p \in Others(s) : Out(s, p)' = Append(Out(s, p), e)
  PROVE  Awaited(s)'
<1>1. \A p \in Others(s) : Out(s, p) \in Seq(Orders)
  BY Channels
<1>2. \A p \in Others(s) : Settled(Out(s, p)', slave'[p][s])
  BY <1>1, SettledAppend
<1> QED
  BY <1>2 DEF Awaited

LEMMA ReceiveAwaited ==
  ASSUME TypeOK, NEW m, NEW s, \A t \in Servers : Awaited(t),
         Precommit(m, s) \/ AbortOrEnd(m, s) \/ CommitRefused(m, s) \/ Commit(m, s)
  PROVE  \A t \in Servers : Awaited(t)'
<1>1. /\ m \in Servers /\ s \in Servers /\ s \in Others(m) /\ m # s /\ Received(m, s)
      /\ Precommit(m, s) => Head(Out(m, s)).kind = "PRECOMMIT"
  <2>1. m \in Servers /\ s \in Servers /\ s \in Others(m) /\ Received(m, s)
    BY PrecommitEffect, DropEffect, CommitEffect
  <2> QED
    BY <2>1, PrecommitEffect DEF Others
<1>2. \A t \in Servers : \A p \in Others(t) : p \in Servers /\ p # t
  BY Channels
<1>3. CASE \E st \in SlaveStates : Becomes(m, s, st) /\ (Precommit(m, s) \/ st # "S_PRECOMMIT_ACK")
  <2>1. PICK st \in SlaveStates : Becomes(m, s, st) /\ (Precommit(m, s) \/ st # "S_PRECOMMIT_ACK")
    BY <1>3
  <2>2. /\ slave'[s][m] = st
        /\ \A t \in Servers, k \in Servers : k # t /\ (t # s \/ k # m) => slave'[t][k] = slave[t][k]
    BY <1>1, <2>1, BecomesOK
  <2>3. \A p \in Servers : \A t \in Others(p) : p # s \/ t # m => slave'[p][t] = slave[p][t]
    BY <1>2, <2>2
  <2> QED
    BY <1>1, <2>1, <2>2, <2>3, ArrivalAwaited
<1>4. CASE CommitRefused(m, s)
  <2>1. UNCHANGED slave /\ slave[s][m] # "S_PRECOMMIT_ACK"
    BY <1>4 DEF CommitRefused, Refuses, slaveVars
  <2> QED
    BY <1>1, <2>1, ArrivalAwaited
<1>5. CommitRefused(m, s) \/
      \E st \in SlaveStates : Becomes(m, s, st) /\ (Precommit(m, s) \/ st # "S_PRECOMMIT_ACK")
  <2>1. /\ "IDLE" \in SlaveStates /\ "S_COMMITED" \in SlaveStates /\ "S_PRECOMMIT_ACK" \in SlaveStates
    BY DEF SlaveStates
  <2>2. CASE Precommit(m, s)
    BY <2>1, <2>2 DEF Precommit
  <2>3. CASE AbortOrEnd(m, s)
    BY <2>1, <2>3 DEF AbortOrEnd
  <2>4. CASE Commit(m, s)
    BY <2>1, <2>4 DEF Commit
  <2> QED
    BY <2>2, <2>3, <2>4
<1> QED
  BY <1>3, <1>4, <1>5

LEMMA AwaitedStays ==
  ASSUME TypeOK, \A t \in Servers : Exchange(t), \A t \in Servers : Awaited(t), [Next]_vars
  PROVE  \A t \in Servers : Awaited(t)'
<1>1. ASSUME NEW s \in Servers, NEW kind \in {"WRITE", "REPLACE"}, NEW num \in Nums,
             num <= Earlier + Len(log) + 1, Command(s, kind, num),
             msgNumber' \in [Servers -> 0 .. Earlier + Len(log) + 1]
      PROVE  \A t \in Servers : Awaited(t)'
  <2>1. \A t \in Servers : t # s => Untouched(t)
    BY <1>1, CommandEffect, ZenonT(40)
  <2>2. LogKept /\ (\A c \in DOMAIN log : log'[c] = log[c])
    BY <1>1, CommandEffect
  <2>3. UNCHANGED slave
    BY <1>1 DEF Command, slaveVars
  <2>4. user[s].state = "IDLE" /\ user'[s].state = "U_WAITING_COMMIT"
    BY <1>1, CommandEffect
  <2>5. Awaited(s)'
    BY <2>4 DEF Awaited, Busy
  <2> QED
    BY <1>1, <2>1, <2>2, <2>3, <2>5, AwaitedOthers
<1>2. ASSUME NEW s \in Servers, Issue(s) PROVE \A t \in Servers : Awaited(t)'
  <2>1. CASE Leave(s)
    <3>1. /\ Busy(s) /\ LogKept /\ UNCHANGED slave /\ Told(s, "gone")
          /\ DOMAIN log' = DOMAIN log
          /\ \A t \in Servers : t # s => Untouched(t)
      BY <2>1, LeaveEffect DEF Told
    <3>2. PICK c : c = Cmd(s)
      OBVIOUS
    <3>3. c \in DOMAIN log /\ log[c].by = s /\ log[c].answer = "none"
      BY <3>1, <3>2 DEF Exchange, Logged
    <3>4. c \in DOMAIN log' /\ log'[c].answer = "gone" /\ log'[c].by = s
      BY <3>1, <3>3 DEF Told, LogKept
    <3>5. Gone(s)'
      BY <3>4 DEF Gone
    <3> QED
      BY <3>1, <3>5, AwaitedOthers DEF Awaited
  <2>2. CASE Write(s)
    <3>1. PICK num : num = msgNumber'[s]
      OBVIOUS
    <3>2. /\ num \in Nums /\ num <= Earlier + Len(log) + 1
          /\ msgNumber' \in [Servers -> 0 .. Earlier + Len(log) + 1]
          /\ Command(s, "WRITE", num)
      BY <2>2, <3>1, WriteCommand
    <3> QED
      BY <1>1, <3>2
  <2>3. ASSUME NEW num \in 1 .. Earlier + 1, Replace(s, num) PROVE \A t \in Servers : Awaited(t)'
    <3>1. /\ num \in Nums /\ num <= Earlier + Len(log) + 1
          /\ msgNumber' \in [Servers -> 0 .. Earlier + Len(log) + 1]
          /\ Command(s, "REPLACE", num)
      BY <2>3, ReplaceCommand
    <3> QED
      BY <1>1, <3>1
  <2> QED
    BY <1>2, <2>1, <2>2, <2>3 DEF Issue
<1>3. ASSUME \A t \in Servers : \A p \in Others(t) : Out(t, p)' = Out(t, p) /\ slave'[p][t] = slave[p][t],
             \A t \in Servers : user'[t] = user[t], LogKept
      PROVE  \A t \in Servers : Awaited(t)'
  BY <1>3, AwaitedKept
<1>4. ASSUME NEW s \in Servers, Receive(s) PROVE \A t \in Servers : Awaited(t)'
  <2>1. ASSUME NEW p \in Servers, Reply(s, p) PROVE \A t \in Servers : Awaited(t)'
    <3>1. /\ s \in Servers /\ LogKept /\ UNCHANGED <<log, slave>> /\ user'[s] = user[s]
          /\ \A t \in Servers : t # s => Untouched(t)
          /\ \A q \in Others(s) : Out(s, q)' = Out(s, q)
      BY <2>1, ReplyEffect
    <3>2. /\ \A t \in Servers : user'[t] = user[t]
          /\ \A t \in Servers : \A q \in Others(t) : Out(t, q)' = Out(t, q)
      BY <3>1 DEF Untouched
    <3> QED
      BY <1>3, <3>1, <3>2
  <2> QED
    BY <1>4, <2>1, ReceiveAwaited DEF Receive
<1>5. ASSUME NEW s \in Servers, NEW type, NEW kind \in {"ABORT", "END"}, CallsOff(s, type, kind)
      PROVE  \A t \in Servers : Awaited(t)'
  <2>1. PICK e \in Orders : e.kind = kind /\ \A p \in Others(s) : Out(s, p)' = Append(Out(s, p), e)
    BY <1>5 DEF CallsOff
  <2>2. Awaited(s)'
    BY <1>5, <2>1, CallsAwaited
  <2>3. LogKept /\ UNCHANGED slave /\ \A t \in Servers : t # s => Untouched(t)
    BY <1>5 DEF CallsOff
  <2> QED
    BY <2>2, <2>3, AwaitedOthers
<1>6. ASSUME NEW s \in Servers, Handle(s) \/ MasterTimer(s) \/ SlaveTimer(s)
      PROVE  \A t \in Servers : Awaited(t)'
  <2>1. ASSUME OnlyQueue(s)
        PROVE  /\ LogKept /\ \A t \in Servers : user'[t] = user[t]
               /\ \A t \in Servers : \A p \in Others(t) : Out(t, p)' = Out(t, p)
    BY <2>1 DEF OnlyQueue, Untouched
  <2>2. CASE SlaveTimeout(s)
    <3>1. OnlyQueue(s)
      BY <2>2, QueueSteps
    <3>2. /\ \A t \in Servers : t # s => slave'[t] = slave[t]
          /\ \A m \in Others(s) : slave'[s][m] # "S_PRECOMMIT_ACK"
      BY <2>2, SlaveTimeoutOK
    <3>3. \A t \in Servers : \A p \in Others(t) : p \in Servers /\ t \in Others(p)
      BY Channels
    <3>4. \A t \in Servers : \A p \in Others(t) :
            Settled(Out(t, p), slave[p][t]) => Settled(Out(t, p)', slave'[p][t])
      BY <2>1, <3>1, <3>2, <3>3 DEF Settled
    <3>5. \A t \in Servers : (Gone(t) => Gone(t)') /\ (Busy(t)' <=> Busy(t))
      BY <2>1, <3>1, GoneStays DEF Busy
    <3> QED
      BY <3>4, <3>5 DEF Awaited
  <2>3. CASE OnlyQueue(s) /\ UNCHANGED slave
    BY <1>3, <2>1, <2>3
  <2>4. CASE AllAcknowledged(s) /\ WaitsCommit(s)
    <3>1. PICK e : e = [kind |-> "COMMIT", line |-> user[s].line]
      OBVIOUS
    <3>2. e \in Orders /\ e.kind # "PRECOMMIT" /\ \A p \in Others(s) : Out(s, p)' = Append(Out(s, p), e)
      BY <2>4, <3>1, AcknowledgedEffect, ZenonT(40)
    <3>3. Awaited(s)'
      BY <3>2, CallsAwaited
    <3>7. UNCHANGED slave /\ \A t \in Servers : t # s => Untouched(t)
      BY <2>4, AcknowledgedEffect
    <3>6. LogKept
      BY <2>4, AcknowledgedLog
    <3> QED
      BY <3>3, <3>6, <3>7, AwaitedOthers
  <2>5. CASE GivesUp(s)
    BY <1>5, <2>5, GivesUpEffect
  <2>6. CASE AllPerformed(s)
    <3>1. Cmd(s) \in DOMAIN log /\ log[Cmd(s)].answer = "none"
      BY <2>6, PerformedKeeps
    <3> QED
      BY <1>5, <2>6, <3>1, AllPerformedEffect
  <2>7. CASE Undone(s)
    BY <1>5, <2>7, UndoneEffect
  <2>8. \/ SlaveTimeout(s) \/ (OnlyQueue(s) /\ UNCHANGED slave)
        \/ (AllAcknowledged(s) /\ WaitsCommit(s)) \/ GivesUp(s) \/ AllPerformed(s) \/ Undone(s)
    <3>1. ASSUME NEW type, NothingWaits(s, type) \/ Spins(s, type) PROVE UNCHANGED slave
      BY <3>1 DEF NothingWaits, Spins, slaveVars
    <3>2. MasterTimeout(s) \/ MasterTimer(s) \/ AllAcknowledged(s) \/ SlaveTimer(s) => UNCHANGED slave
      BY DEF MasterTimeout, MasterTimer, SlaveTimer, Expires, AllAcknowledged, slaveVars
    <3> QED
      BY <1>6, <3>1, <3>2, QueueSteps DEF Handle
  <2> QED
    BY <2>2, <2>3, <2>4, <2>5, <2>6, <2>7, <2>8
<1>7. CASE UNCHANGED vars
  <2>1. LogKept
    BY <1>7 DEF vars, LogKept
  <2> QED
    BY <1>3, <1>7, <2>1, SameOut DEF vars
<1> QED
  BY <1>2, <1>4, <1>6, <1>7 DEF Next

LEMMA AwaitedInitially == ASSUME Init PROVE \A s \in Servers : Awaited(s)
<1>1. ASSUME NEW s \in Servers, NEW p \in Others(s) PROVE Settled(Out(s, p), slave[p][s])
  <2>1. Out(s, p) = <<>> /\ slave[p][s] = "NULL"
    BY DEF Init, Out, Others, Pairs
  <2> QED
    BY <2>1 DEF Settled
<1> QED
  BY <1>1 DEF Awaited

LEMMA ReleasedIf == ASSUME TypeOK, \A s \in Servers : Awaited(s) PROVE Released
<1>1. ASSUME Quiet, NEW p \in Pairs, p[1] \in AwaitCommit(p[2])
      PROVE  \E c \in DOMAIN log : log[c].by = p[1] /\ log[c].answer = "gone"
  <2>1. PICK s \in Servers, t \in Servers : s = p[1] /\ t = p[2] /\ s # t /\ p = <<s, t>>
    BY <1>1 DEF Pairs
  <2>2. t \in Others(s) /\ slave[t][s] = "S_PRECOMMIT_ACK"
    BY <1>1, <2>1 DEF AwaitCommit, Others
  <2>3. Out(s, t) = <<>> /\ ~Busy(s)
    BY <1>1, <2>1 DEF Quiet, Out, Busy
  <2>4. Gone(s)
    BY <2>2, <2>3 DEF Awaited, Settled
  <2> QED
    BY <2>1, <2>4 DEF Gone
<1> QED
  BY <1>1 DEF Released

\* With any number of masters: when all is quiet, a slave still waits for the COMMIT of a
\* master only if a user of that master left before the answer. (No order and no timer can
\* do that; the COMMIT of one master, which stops the timer of all, cannot either.)
THEOREM ReleasedHolds == Spec => []Released
<1>1. Init => \A s \in Servers : Awaited(s)
  BY AwaitedInitially
<1>2. TypeOK /\ (\A s \in Servers : Exchange(s)) /\ (\A s \in Servers : Awaited(s)) /\ [Next]_vars
        => (\A s \in Servers : Awaited(s))'
  BY AwaitedStays
<1>3. TypeOK /\ (\A s \in Servers : Awaited(s)) => Released
  BY ReleasedIf
<1> QED
  BY <1>1, <1>2, <1>3, TypeCorrect, ExchangesHold, PTL DEF Spec

-----------------------------------------------------------------------------
(* COMMITs under way, and what they leave in the files *)

\* The lines that the COMMITs in q carry, each command at most once.
CommitsIn(q) == {q[i].line : i \in {j \in DOMAIN q : q[j].kind = "COMMIT"}}
Distinct(q) == \A i, j \in DOMAIN q :
  q[i].kind = "COMMIT" /\ q[j].kind = "COMMIT" /\ q[i].line.text = q[j].line.text => i = j

LEMMA CommitsTail ==
  ASSUME NEW q \in Seq(Orders), q # <<>>, Distinct(q)
  PROVE  /\ CommitsIn(Tail(q)) \subseteq CommitsIn(q) /\ Distinct(Tail(q))
         /\ Head(q).kind = "COMMIT" =>
              /\ Head(q).line \in CommitsIn(q)
              /\ \A l \in CommitsIn(Tail(q)) : l.text # Head(q).line.text
<1>1. PICK r \in Seq(Orders) : r = Tail(q)
  BY Tails
<1>2. /\ \A i \in DOMAIN r : i + 1 \in DOMAIN q /\ r[i] = q[i + 1] /\ i + 1 # 1
      /\ 1 \in DOMAIN q /\ Head(q) = q[1]
      /\ \A i, j \in DOMAIN r : i + 1 = j + 1 => i = j
  BY <1>1
<1>3. \A l \in CommitsIn(r) : \E i \in DOMAIN q :
        i # 1 /\ q[i].kind = "COMMIT" /\ l = q[i].line
  BY <1>2 DEF CommitsIn
<1>4. CommitsIn(r) \subseteq CommitsIn(q)
  BY <1>3 DEF CommitsIn
<1>5. Distinct(r)
  BY <1>2 DEF Distinct
<1>6. ASSUME Head(q).kind = "COMMIT"
      PROVE  /\ Head(q).line \in CommitsIn(q)
             /\ \A l \in CommitsIn(r) : l.text # Head(q).line.text
  <2>1. Head(q).line \in CommitsIn(q)
    BY <1>2, <1>6 DEF CommitsIn
  <2> QED
    BY <1>2, <1>3, <1>6, <2>1 DEF Distinct
<1> QED
  BY <1>1, <1>4, <1>5, <1>6

LEMMA CommitsAppend ==
  ASSUME NEW q \in Seq(Orders), NEW e \in Orders, Distinct(q)
  PROVE  /\ e.kind # "COMMIT" => CommitsIn(Append(q, e)) = CommitsIn(q) /\ Distinct(Append(q, e))
         /\ CommitsIn(Append(q, e)) \subseteq CommitsIn(q) \cup {e.line}
         /\ (\A l \in CommitsIn(q) : l.text # e.line.text) => Distinct(Append(q, e))
<1>1. PICK r : r = Append(q, e)
  OBVIOUS
<1>2. /\ DOMAIN r = DOMAIN q \cup {Len(q) + 1} /\ Len(q) + 1 \notin DOMAIN q
      /\ \A i \in DOMAIN q : r[i] = q[i]
      /\ r[Len(q) + 1] = e
  BY <1>1
<1>3. CommitsIn(r) \subseteq CommitsIn(q) \cup {e.line}
  BY <1>2 DEF CommitsIn
<1>4. e.kind # "COMMIT" => CommitsIn(r) = CommitsIn(q) /\ Distinct(r)
  BY <1>2 DEF CommitsIn, Distinct
<1>5. (\A l \in CommitsIn(q) : l.text # e.line.text) => Distinct(r)
  BY <1>2 DEF CommitsIn, Distinct
<1> QED
  BY <1>1, <1>3, <1>4, <1>5

\* A COMMIT of s with line l that is under way to p: the command was sent once, is not yet
\* saved by p, and, as long as exchanges follow each other, is the last one.
Due(l, s, p) ==
  /\ l.text \in DOMAIN log
  /\ log[l.text].by = s /\ log[l.text].num = l.num
  /\ log[l.text].committed /\ p \notin log[l.text].saved
  /\ ~crowded => l.text = Len(log)

CommitsDue(s, p) == Distinct(Out(s, p)) /\ \A l \in CommitsIn(Out(s, p)) : Due(l, s, p)

\* Nobody has saved a command before its COMMIT was sent, its master not before the answer.
Followed == \A c \in DOMAIN log :
  /\ ~log[c].committed => log[c].saved = {}
  /\ log[c].by \in log[c].saved => log[c].answer = "WROTE"

\* As long as exchanges follow each other only the last command waits.
OnlyLastWaits == ~crowded => \A s \in Servers : Busy(s) => Cmd(s) = Len(log)

Underway == (\A s \in Servers : \A p \in Others(s) : CommitsDue(s, p)) /\ Followed /\ OnlyLastWaits

\* Saving(s, c): the server s saves the command c, or fails to.
LineOf(c) == [num |-> log[c].num, text |-> c]
Saving(s, c) ==
  /\ c \in DOMAIN log /\ s \notin log[c].saved /\ DOMAIN log' = DOMAIN log
  /\ \E r \in SaveResults(s, log[c].kind, LineOf(c)) :
       /\ file' = [file EXCEPT ![s] = r.file]
       /\ log'[c].saved = IF r.result = "WROTE" THEN log[c].saved \cup {s} ELSE log[c].saved
  /\ \A d \in DOMAIN log :
       /\ log'[d].by = log[d].by /\ log'[d].kind = log[d].kind /\ log'[d].num = log[d].num
       /\ d # c => log'[d] = log[d]

\* Nothing is saved, and no COMMIT sent.
Narrows(o, o1) ==
  \/ o1 = o
  \/ o # <<>> /\ o1 = Tail(o)
  \/ \E e \in Orders : e.kind # "COMMIT" /\ o1 = Append(o, e)
NoSave ==
  /\ UNCHANGED <<file, crowded>> /\ DOMAIN log' = DOMAIN log
  /\ \A c \in DOMAIN log :
       /\ log'[c].by = log[c].by /\ log'[c].kind = log[c].kind /\ log'[c].num = log[c].num
       /\ log'[c].saved = log[c].saved /\ (log[c].committed => log'[c].committed)
       /\ log'[c].answer = "WROTE" <=> log[c].answer = "WROTE"
Plain ==
  /\ NoSave /\ UNCHANGED msgNumber
  /\ \A s \in Servers : Busy(s)' => Busy(s) /\ Cmd(s)' = Cmd(s)
  /\ \A s \in Servers : \A p \in Others(s) : Narrows(Out(s, p), Out(s, p)')

LEMMA NarrowsCommits ==
  ASSUME NEW o \in Seq(Orders), NEW o1, Narrows(o, o1), Distinct(o)
  PROVE  Distinct(o1) /\ CommitsIn(o1) \subseteq CommitsIn(o)
<1>1. CASE o1 = o
  BY <1>1
<1>2. CASE o # <<>> /\ o1 = Tail(o)
  BY <1>2, CommitsTail
<1>3. ASSUME NEW e \in Orders, e.kind # "COMMIT", o1 = Append(o, e)
      PROVE  Distinct(o1) /\ CommitsIn(o1) \subseteq CommitsIn(o)
  BY <1>3, CommitsAppend
<1> QED
  BY <1>1, <1>2, <1>3 DEF Narrows

LEMMA LenSame ==
  ASSUME TypeOK, TypeOK', DOMAIN log' = DOMAIN log
  PROVE  Len(log') = Len(log)
<1>1. log \in Seq(Commands) /\ log' \in Seq(Commands)
  BY DEF TypeOK
<1> QED
  BY <1>1

LEMMA PlainUnderway ==
  ASSUME TypeOK, TypeOK', Underway, Plain
  PROVE  Underway'
<1>1. Len(log') = Len(log)
  BY LenSame DEF Plain, NoSave
<1>2. ASSUME NEW s \in Servers, NEW p \in Others(s) PROVE CommitsDue(s, p)'
  <2>1. Distinct(Out(s, p)') /\ CommitsIn(Out(s, p)') \subseteq CommitsIn(Out(s, p))
    BY NarrowsCommits, Channels DEF Plain, Underway, CommitsDue
  <2>2. \A l \in CommitsIn(Out(s, p)) : Due(l, s, p)
    BY DEF Underway, CommitsDue
  <2>3. \A l : Due(l, s, p) => Due(l, s, p)'
    BY <1>1 DEF Due, Plain, NoSave
  <2> QED
    BY <2>1, <2>2, <2>3 DEF CommitsDue
<1>3. Followed'
  BY DEF Underway, Followed, Plain, NoSave
<1>4. OnlyLastWaits'
  BY <1>1 DEF Underway, OnlyLastWaits, Plain, NoSave
<1> QED
  BY <1>2, <1>3, <1>4 DEF Underway

LEMMA PlainIf ==
  ASSUME \A t \in Servers : user'[t] = user[t] \/ user'[t] = NoCmd,
         \A t \in Servers : \A p \in Others(t) : Narrows(Out(t, p), Out(t, p)'),
         NoSave, UNCHANGED msgNumber
  PROVE  Plain
<1>1. NoCmd.state = "IDLE"
  BY DEF NoCmd
<1> QED
  BY <1>1 DEF Plain, Busy, Cmd

LEMMA SameLogNoSave ==
  ASSUME UNCHANGED <<file, crowded, log>>
  PROVE  NoSave
BY DEF NoSave

LEMMA ToldNoSave ==
  ASSUME LogKept, NEW s, NEW v \in {"ERROR", "UNKNOWN", "gone"}, Told(s, v), DOMAIN log' = DOMAIN log,
         UNCHANGED <<file, crowded>>
  PROVE  NoSave
BY DEF NoSave, Told, LogKept

LEMMA ReceivedNarrows ==
  ASSUME NEW m \in Servers, NEW s \in Others(m), Received(m, s)
  PROVE  /\ \A t \in Servers : user'[t] = user[t] \/ user'[t] = NoCmd
         /\ \A t \in Servers : \A p \in Others(t) : Narrows(Out(t, p), Out(t, p)')
BY DEF Received, Untouched, Narrows

LEMMA CallsOffNarrows ==
  ASSUME NEW s \in Servers, NEW type, NEW kind \in {"ABORT", "END"}, CallsOff(s, type, kind),
         user'[s] = user[s] \/ user'[s] = NoCmd
  PROVE  /\ \A t \in Servers : user'[t] = user[t] \/ user'[t] = NoCmd
         /\ \A t \in Servers : \A p \in Others(t) : Narrows(Out(t, p), Out(t, p)')
BY DEF CallsOff, Untouched, Narrows

LEMMA SameNarrows ==
  ASSUME NEW s \in Servers, \A t \in Servers : t # s => Untouched(t),
         \A p \in Others(s) : Out(s, p)' = Out(s, p),
         user'[s] = user[s] \/ user'[s] = NoCmd
  PROVE  /\ \A t \in Servers : user'[t] = user[t] \/ user'[t] = NoCmd
         /\ \A t \in Servers : \A p \in Others(t) : Narrows(Out(t, p), Out(t, p)')
BY DEF Untouched, Narrows

LEMMA PlainLeave == ASSUME TypeOK, NEW s \in Servers, Leave(s) PROVE Plain
<1>1. /\ \A t \in Servers : t # s => Untouched(t)
      /\ \A p \in Others(s) : Out(s, p)' = Out(s, p)
      /\ user'[s] = NoCmd /\ Told(s, "gone") /\ DOMAIN log' = DOMAIN log /\ LogKept
      /\ UNCHANGED <<crowded, msgNumber>>
  BY LeaveEffect DEF Told
<1>2. UNCHANGED file
  BY DEF Leave
<1> QED
  BY <1>1, <1>2, SameNarrows, ToldNoSave, PlainIf

LEMMA PlainReceive ==
  ASSUME TypeOK, NEW m, NEW s, Precommit(m, s) \/ AbortOrEnd(m, s) \/ CommitRefused(m, s)
  PROVE  Plain
<1>1. /\ m \in Servers /\ s \in Others(m) /\ Received(m, s)
      /\ UNCHANGED <<log, msgNumber>>
  BY PrecommitEffect, DropEffect
<1>2. UNCHANGED <<file, crowded>>
  BY DEF Precommit, AbortOrEnd, CommitRefused
<1> QED
  BY <1>1, <1>2, ReceivedNarrows, SameLogNoSave, PlainIf

LEMMA PlainReply == ASSUME TypeOK, NEW s, NEW p, Reply(s, p) PROVE Plain
<1>1. /\ s \in Servers /\ user'[s] = user[s]
      /\ \A t \in Servers : t # s => Untouched(t)
      /\ \A q \in Others(s) : Out(s, q)' = Out(s, q)
      /\ UNCHANGED <<log, msgNumber, crowded>>
  BY ReplyEffect
<1>2. UNCHANGED file
  BY DEF Reply
<1> QED
  BY <1>1, <1>2, SameNarrows, SameLogNoSave, PlainIf

LEMMA PlainCall ==
  ASSUME TypeOK, NEW s \in Servers, GivesUp(s) \/ Undone(s)
  PROVE  Plain
<1>1. PICK type, kind : kind \in {"ABORT", "END"} /\ CallsOff(s, type, kind)
  BY GivesUpEffect, UndoneEffect
<1>2. /\ user'[s] = user[s] \/ user'[s] = NoCmd
      /\ UNCHANGED log \/ (\E v \in {"ERROR", "UNKNOWN"} : Told(s, v))
  BY GivesUpEffect, UndoneEffect
<1>3. UNCHANGED file
  BY DEF GivesUp, Undone
<1>4. LogKept /\ DOMAIN log' = DOMAIN log /\ UNCHANGED <<crowded, msgNumber>>
  BY <1>1 DEF CallsOff
<1>5. NoSave
  BY <1>2, <1>3, <1>4, ToldNoSave, SameLogNoSave
<1>6. /\ \A t \in Servers : user'[t] = user[t] \/ user'[t] = NoCmd
      /\ \A t \in Servers : \A p \in Others(t) : Narrows(Out(t, p), Out(t, p)')
  BY <1>1, <1>2, CallsOffNarrows
<1> QED
  BY <1>4, <1>5, <1>6, PlainIf

LEMMA PlainQueue ==
  ASSUME TypeOK, NEW s \in Servers,
         \/ \E type \in {"COMMIT_SUCCESS", "COMMIT_UNSUCCESS"} : NothingWaits(s, type) \/ Spins(s, type)
         \/ MasterTimeout(s) \/ SlaveTimeout(s) \/ MasterTimer(s) \/ SlaveTimer(s)
         \/ AllAcknowledged(s) /\ ~WaitsCommit(s)
  PROVE  Plain
<1>1. OnlyQueue(s)
  BY QueueSteps
<1>2. UNCHANGED file
  BY DEF NothingWaits, Spins, MasterTimeout, SlaveTimeout, MasterTimer, SlaveTimer, Expires, AllAcknowledged
<1>3. UNCHANGED <<log, msgNumber, crowded>> /\ user'[s] = user[s]
  BY <1>1 DEF OnlyQueue
<1>4. /\ \A t \in Servers : t # s => Untouched(t)
      /\ \A p \in Others(s) : Out(s, p)' = Out(s, p)
  BY <1>1 DEF OnlyQueue
<1> QED
  BY <1>2, <1>3, <1>4, SameNarrows, SameLogNoSave, PlainIf

\* COMMIT is sent.
LEMMA AcknowledgedPlain ==
  ASSUME TypeOK, NEW s \in Servers, AllAcknowledged(s), WaitsCommit(s), Exchange(s)
  PROVE  /\ NoSave /\ UNCHANGED msgNumber
         /\ \A t \in Servers : (Busy(t)' <=> Busy(t)) /\ Cmd(t)' = Cmd(t)
         /\ \A t \in Servers : t # s => Untouched(t)
         /\ Cmd(s) \in DOMAIN log /\ log[Cmd(s)].by = s /\ ~log[Cmd(s)].committed
         /\ log[Cmd(s)].num = user[s].line.num /\ log'[Cmd(s)].committed
<1>1. /\ \A t \in Servers : t # s => Untouched(t)
      /\ user'[s].state = "U_WAITING_SAVE" /\ user'[s].line = user[s].line
      /\ UNCHANGED <<crowded, msgNumber>> /\ DOMAIN log' = DOMAIN log
  BY AcknowledgedEffect
<1>2. \A c \in DOMAIN log :
        /\ c # Cmd(s) => log'[c] = log[c]
        /\ c = Cmd(s) => log'[c].committed = TRUE
        /\ log'[c].by = log[c].by /\ log'[c].kind = log[c].kind /\ log'[c].num = log[c].num
        /\ log'[c].answer = log[c].answer /\ log'[c].saved = log[c].saved
  BY AcknowledgedEffect
<1>3. UNCHANGED file
  BY DEF AllAcknowledged
<1>4. NoSave
  BY <1>1, <1>2, <1>3 DEF NoSave
<1>5. \A t \in Servers : (Busy(t)' <=> Busy(t)) /\ Cmd(t)' = Cmd(t)
  BY <1>1 DEF Untouched, Busy, Cmd, WaitsCommit
<1>6. /\ Cmd(s) \in DOMAIN log /\ log[Cmd(s)].by = s /\ ~log[Cmd(s)].committed
      /\ log[Cmd(s)].num = user[s].line.num
  BY DEF Exchange, Logged, Busy, WaitsCommit, WaitsSave
<1>7. log'[Cmd(s)].committed
  BY <1>2, <1>6
<1> QED
  BY <1>1, <1>4, <1>5, <1>6, <1>7

LEMMA AcknowledgedUnderway ==
  ASSUME TypeOK, TypeOK', NEW s \in Servers, AllAcknowledged(s), WaitsCommit(s), Exchange(s), Underway
  PROVE  Underway'
<1>1. PICK c, line : c = Cmd(s) /\ line = user[s].line
  OBVIOUS
<1>2. /\ NoSave /\ \A t \in Servers : (Busy(t)' <=> Busy(t)) /\ Cmd(t)' = Cmd(t)
      /\ \A t \in Servers : t # s => Untouched(t)
      /\ c \in DOMAIN log /\ log[c].by = s /\ ~log[c].committed
      /\ log[c].num = line.num /\ log'[c].committed
  BY <1>1, AcknowledgedPlain
<1>3. Len(log') = Len(log)
  BY <1>2, LenSame DEF NoSave
<1>4. \A l, t, p : Due(l, t, p) => Due(l, t, p)'
  BY <1>2, <1>3 DEF Due, NoSave
<1>5. Followed'
  BY <1>2 DEF Underway, Followed, NoSave
<1>6. OnlyLastWaits'
  BY <1>2, <1>3 DEF Underway, OnlyLastWaits, NoSave
<1>7. ASSUME NEW p \in Others(s) PROVE CommitsDue(s, p)'
  <2>1. PICK e \in Orders : e.line = line /\ Out(s, p)' = Append(Out(s, p), e)
    <3>1. LET e == [kind |-> "COMMIT", line |-> user[s].line] IN
            /\ e \in Orders
            /\ \A q \in Others(s) : Out(s, q)' = Append(Out(s, q), e)
      BY AcknowledgedEffect
    <3> QED
      BY <1>1, <3>1
  <2>2. Distinct(Out(s, p)) /\ \A l \in CommitsIn(Out(s, p)) : Due(l, s, p)
    BY DEF Underway, CommitsDue
  <2>3. \A l \in CommitsIn(Out(s, p)) : l.text # line.text
    BY <1>1, <1>2, <2>2 DEF Due, Cmd
  <2>4. CommitsIn(Out(s, p)') \subseteq CommitsIn(Out(s, p)) \cup {line} /\ Distinct(Out(s, p)')
    BY <2>1, <2>2, <2>3, CommitsAppend, Channels
  <2>5. Due(line, s, p)'
    <3>1. line.text = c /\ log[c].saved = {}
      BY <1>1, <1>2 DEF Cmd, Underway, Followed
    <3>2. Busy(s)
      BY DEF Busy, WaitsCommit
    <3>3. ~crowded => c = Len(log)
      BY <1>1, <3>2 DEF Underway, OnlyLastWaits
    <3> QED
      BY <1>2, <1>3, <3>1, <3>3 DEF Due, NoSave
  <2> QED
    BY <1>4, <2>2, <2>4, <2>5 DEF CommitsDue
<1>8. ASSUME NEW t \in Servers, t # s, NEW p \in Others(t) PROVE CommitsDue(t, p)'
  <2>1. Out(t, p)' = Out(t, p)
    BY <1>2, <1>8 DEF Untouched
  <2>2. Distinct(Out(t, p)) /\ \A l \in CommitsIn(Out(t, p)) : Due(l, t, p)
    BY <1>8 DEF Underway, CommitsDue
  <2> QED
    BY <1>4, <2>1, <2>2 DEF CommitsDue
<1> QED
  BY <1>5, <1>6, <1>7, <1>8 DEF Underway

\* A user's command.
LEMMA CommandUnderway ==
  ASSUME TypeOK, TypeOK', NEW s \in Servers, NEW kind \in {"WRITE", "REPLACE"}, NEW num \in Nums,
         num <= Earlier + Len(log) + 1, Command(s, kind, num),
         msgNumber' \in [Servers -> 0 .. Earlier + Len(log) + 1], Underway
  PROVE  Underway'
<1>1. PICK n, x : /\ n = Len(log) + 1
                  /\ x = [by |-> s, kind |-> kind, num |-> num, answer |-> "none",
                          committed |-> FALSE, saved |-> {}]
  OBVIOUS
<1>2. /\ \A t \in Servers : t # s => Untouched(t)
      /\ \A c \in DOMAIN log : log'[c] = log[c]
      /\ DOMAIN log' = 1 .. n /\ log'[n] = x
      /\ user'[s].line.text = n
      /\ ~crowded' => ~crowded /\ Quiet
      /\ LogKept
  BY <1>1, CommandEffect
<1>3. /\ Len(log) \in Nat /\ DOMAIN log = 1 .. Len(log) /\ log' \in Seq(Commands)
      /\ ~x.committed /\ x.saved = {}
  BY <1>1, LogLength DEF TypeOK
<1>4. Len(log') = n /\ \A c \in DOMAIN log' : c \in DOMAIN log \/ c = n
  BY <1>1, <1>2, <1>3
<1>5. Followed'
  BY <1>2, <1>3, <1>4 DEF Underway, Followed
<1>6. OnlyLastWaits'
  BY <1>2, <1>4 DEF OnlyLastWaits, Quiet, Busy, Cmd, Untouched
<1>7. ASSUME NEW t \in Servers, NEW p \in Others(t) PROVE CommitsDue(t, p)'
  <2>1. Distinct(Out(t, p)) /\ \A l \in CommitsIn(Out(t, p)) : Due(l, t, p)
    BY DEF Underway, CommitsDue
  <2>2. Distinct(Out(t, p)') /\ CommitsIn(Out(t, p)') = CommitsIn(Out(t, p))
    <3>1. CASE t # s
      BY <1>2, <2>1, <3>1 DEF Untouched
    <3>2. CASE t = s
      <4>1. PICK e \in Orders : e.kind # "COMMIT" /\ Out(t, p)' = Append(Out(t, p), e)
        <5>1. LET e == [kind |-> "PRECOMMIT", line |-> NoLine] IN
              /\ e \in Orders
              /\ \A q \in Others(s) : Out(s, q)' = Append(Out(s, q), e)
          BY CommandEffect
        <5> QED
          BY <3>2, <5>1
      <4>2. Out(t, p) \in Seq(Orders)
        BY Channels
      <4> QED
        BY <2>1, <4>1, <4>2, CommitsAppend
    <3> QED
      BY <3>1, <3>2
  <2>3. ASSUME NEW l \in CommitsIn(Out(t, p)) PROVE Due(l, t, p)'
    <3>1. Due(l, t, p)
      BY <2>1
    <3>2. crowded'
      <4>1. Out(t, p) # <<>>
        BY <2>3 DEF CommitsIn
      <4>2. <<t, p>> \in Pairs
        BY Channels
      <4> QED
        BY <1>2, <4>1, <4>2 DEF Quiet, Out, TypeOK
    <3> QED
      BY <1>2, <3>1, <3>2 DEF Due, LogKept
  <2> QED
    BY <2>2, <2>3 DEF CommitsDue
<1> QED
  BY <1>5, <1>6, <1>7 DEF Underway

LEMMA LineIs ==
  ASSUME NEW l \in Lines, NEW c, l.text = c, l.num = log[c].num
  PROVE  l = LineOf(c)
BY DEF Lines, LineOf

\* A COMMIT reaches a peer, which saves the command of its line.
LEMMA CommitSaves ==
  ASSUME TypeOK, NEW m, NEW s, Commit(m, s), Underway
  PROVE  LET c == Head(Out(m, s)).line.text IN
         /\ m \in Servers /\ s \in Others(m) /\ Due(Head(Out(m, s)).line, m, s)
         /\ Saving(s, c)
<1>1. PICK line, c : line = Head(Out(m, s)).line /\ c = line.text
  OBVIOUS
<1>2. /\ m \in Servers /\ s \in Servers /\ s \in Others(m) /\ Received(m, s)
      /\ Head(Out(m, s)).kind = "COMMIT" /\ line \in Lines /\ OnlySaves
      /\ \A d \in DOMAIN log : d # c => log'[d] = log[d]
  BY <1>1, CommitEffect
<1>3. Out(m, s) \in Seq(Orders) /\ Out(m, s) # <<>>
  BY <1>2, Channels DEF Received
<1>4. Distinct(Out(m, s)) /\ \A l \in CommitsIn(Out(m, s)) : Due(l, m, s)
  BY <1>2 DEF Underway, CommitsDue
<1>5. Due(line, m, s)
  BY <1>1, <1>2, <1>3, <1>4, CommitsTail
<1>6. c \in DOMAIN log /\ s \notin log[c].saved /\ line = LineOf(c)
  BY <1>1, <1>2, <1>5, LineIs DEF Due
<1>7. PICK r \in SaveResults(s, log[c].kind, line) :
        /\ file' = [file EXCEPT ![s] = r.file]
        /\ IF r.result = "WROTE" THEN SavedBy(s, c) ELSE UNCHANGED log
  <2>1. line = Head(toSlave[<<m, s>>]).line
    BY <1>1 DEF Out
  <2> QED
    BY <1>1, <2>1 DEF Commit
<1>8. log'[c].saved = IF r.result = "WROTE" THEN log[c].saved \cup {s} ELSE log[c].saved
  <2>1. CASE r.result = "WROTE"
    <3>1. log'[c] = [log[c] EXCEPT !.saved = @ \cup {s}]
      BY <1>2, <1>6, <1>7, <2>1, SavedByOK
    <3>2. log[c] \in Commands
      BY <1>6, LogLength
    <3> QED
      BY <2>1, <3>1, <3>2 DEF Commands
  <2>2. CASE r.result # "WROTE"
    BY <1>7, <2>2
  <2> QED
    BY <2>1, <2>2
<1>9. Saving(s, c)
  BY <1>2, <1>6, <1>7, <1>8 DEF Saving, OnlySaves, Received, LogKept
<1> QED
  BY <1>1, <1>2, <1>5, <1>9

LEMMA CommitUnderway ==
  ASSUME TypeOK, TypeOK', NEW m, NEW s, Commit(m, s), Underway
  PROVE  Underway'
<1>1. PICK line, c : line = Head(Out(m, s)).line /\ c = line.text
  OBVIOUS
<1>2. /\ m \in Servers /\ s \in Others(m) /\ Received(m, s) /\ OnlySaves
      /\ Head(Out(m, s)).kind = "COMMIT"
      /\ \A d \in DOMAIN log : d # c => log'[d] = log[d]
      /\ \A d \in DOMAIN log : log'[d].saved \subseteq log[d].saved \cup {s}
  BY <1>1, CommitEffect
<1>3. Due(line, m, s) /\ c \in DOMAIN log /\ log[c].by = m /\ log[c].committed /\ m # s
  BY <1>1, <1>2, CommitSaves DEF Due, Others
<1>4. Len(log') = Len(log)
  BY <1>2, LenSame DEF OnlySaves
<1>5. /\ LogKept /\ UNCHANGED crowded
      /\ \A t \in Servers : (Busy(t)' <=> Busy(t)) /\ Cmd(t)' = Cmd(t)
  BY <1>2 DEF Received, Untouched, Busy, Cmd
<1>6. OnlyLastWaits'
  BY <1>4, <1>5 DEF Underway, OnlyLastWaits
<1>7. Followed'
  <2>1. ASSUME NEW d \in DOMAIN log, d # c
        PROVE  log'[d] = log[d]
    BY <1>2, <2>1
  <2>2. /\ log'[c].committed /\ log'[c].answer = log[c].answer /\ log'[c].by = m
        /\ m \in log'[c].saved => m \in log[c].saved
    BY <1>2, <1>3, <1>5 DEF OnlySaves, LogKept
  <2>3. \A d \in DOMAIN log : /\ ~log[d].committed => log[d].saved = {}
                              /\ log[d].by \in log[d].saved => log[d].answer = "WROTE"
    BY DEF Underway, Followed
  <2> QED
    BY <1>2, <1>3, <2>1, <2>2, <2>3 DEF Followed, OnlySaves
<1>8. ASSUME NEW t \in Servers, NEW p \in Others(t), NEW l, Due(l, t, p),
             t # m \/ p # s \/ l.text # c
      PROVE  Due(l, t, p)'
  <2>1. l.text = c => t = m
    BY <1>3, <1>8 DEF Due
  <2>2. p \notin log'[l.text].saved
    BY <1>2, <1>8, <2>1 DEF Due
  <2> QED
    BY <1>2, <1>4, <1>5, <1>8, <2>2 DEF Due, LogKept, OnlySaves
<1>9. ASSUME NEW t \in Servers, NEW p \in Others(t) PROVE CommitsDue(t, p)'
  <2>1. Distinct(Out(t, p)) /\ \A l \in CommitsIn(Out(t, p)) : Due(l, t, p)
    BY DEF Underway, CommitsDue
  <2>2. CASE t = m /\ p = s
    <3>1. Out(m, s) \in Seq(Orders) /\ Out(m, s) # <<>> /\ Out(m, s)' = Tail(Out(m, s))
      BY <1>2, Channels DEF Received
    <3>2. /\ CommitsIn(Tail(Out(m, s))) \subseteq CommitsIn(Out(m, s)) /\ Distinct(Tail(Out(m, s)))
          /\ \A l \in CommitsIn(Tail(Out(m, s))) : l.text # c
      BY <1>1, <1>2, <2>1, <2>2, <3>1, CommitsTail
    <3> QED
      BY <1>8, <2>1, <2>2, <3>1, <3>2 DEF CommitsDue
  <2>3. CASE t # m \/ p # s
    <3>1. Out(t, p)' = Out(t, p)
      BY <1>2, <2>3 DEF Received, Untouched
    <3> QED
      BY <1>8, <2>1, <2>3, <3>1 DEF CommitsDue
  <2> QED
    BY <2>2, <2>3
<1> QED
  BY <1>6, <1>7, <1>9 DEF Underway

\* All peers have saved the command, and its master saves it.
LEMMA PerformedSaves ==
  ASSUME TypeOK, NEW s \in Servers, AllPerformed(s), Underway, \A t \in Servers : Exchange(t)
  PROVE  /\ Saving(s, Cmd(s)) /\ UNCHANGED msgNumber
         /\ log'[Cmd(s)].answer = "WROTE" => s \in log'[Cmd(s)].saved
         /\ s \in log'[Cmd(s)].saved => log'[Cmd(s)].answer = "WROTE"
<1>1. PICK c : c = Cmd(s)
  OBVIOUS
<1>2. c \in DOMAIN log /\ log[c].by = s /\ log[c].answer = "none"
  BY <1>1, PerformedKeeps
<1>3. /\ CallsOff(s, "COMMIT_SUCCESS", "END") /\ WaitsSave(s)
      /\ \A d \in DOMAIN log : d # c => log'[d] = log[d]
  BY <1>1, <1>2, AllPerformedEffect
<1>4. log[c].kind = user[s].kind /\ log[c].num = user[s].line.num
  BY <1>1, <1>3 DEF Exchange, Logged, Busy, WaitsSave
<1>5. user[s].line \in Lines /\ user[s].line = LineOf(c)
  <2>1. user[s].line \in Lines
    BY DEF TypeOK, Users
  <2> QED
    BY <1>1, <1>4, <2>1, LineIs DEF Cmd
<1>6. PICK r \in SaveResults(s, log[c].kind, LineOf(c)) :
        /\ file' = [file EXCEPT ![s] = r.file]
        /\ log' = [log EXCEPT ![c].answer = r.result,
                              ![c].saved = IF r.result = "WROTE" THEN @ \cup {s} ELSE @]
  BY <1>1, <1>4, <1>5, ZenonT(40) DEF AllPerformed, Cmd
<1>7. PICK v : v = r.result
  OBVIOUS
<1>8. v \in {"WROTE", "UNKNOWN", "ERROR"}
  BY <1>5, <1>6, <1>7, SaveResultsOK
<1>9. log' = [log EXCEPT ![c].answer = v, ![c].saved = IF v = "WROTE" THEN @ \cup {s} ELSE @]
  BY <1>6, <1>7
<1>10. log'[c] = [log[c] EXCEPT !.answer = v, !.saved = IF v = "WROTE" THEN @ \cup {s} ELSE @]
  BY <1>2, <1>8, <1>9, PerformedLog
<1>11. log[c] \in Commands
  BY <1>2, LogLength
<1>12. /\ log'[c].answer = v
       /\ log'[c].saved = IF v = "WROTE" THEN log[c].saved \cup {s} ELSE log[c].saved
  BY <1>10, <1>11 DEF Commands
<1>13. s \notin log[c].saved
  BY <1>2 DEF Underway, Followed
<1>14. UNCHANGED msgNumber /\ DOMAIN log' = DOMAIN log /\ LogKept
  BY <1>3 DEF CallsOff
<1>15. Saving(s, c)
  <2>1. \E q \in SaveResults(s, log[c].kind, LineOf(c)) :
          /\ file' = [file EXCEPT ![s] = q.file]
          /\ log'[c].saved = IF q.result = "WROTE" THEN log[c].saved \cup {s} ELSE log[c].saved
    <3>1. file' = [file EXCEPT ![s] = r.file]
      BY <1>6
    <3> QED
      BY <1>7, <1>12, <3>1
  <2>2. \A d \in DOMAIN log :
          /\ log'[d].by = log[d].by /\ log'[d].kind = log[d].kind /\ log'[d].num = log[d].num
          /\ d # c => log'[d] = log[d]
    BY <1>3, <1>14 DEF LogKept
  <2> QED
    BY <1>2, <1>13, <1>14, <2>1, <2>2 DEF Saving
<1> QED
  BY <1>1, <1>12, <1>13, <1>14, <1>15

LEMMA PerformedUnderway ==
  ASSUME TypeOK, TypeOK', NEW s \in Servers, AllPerformed(s), Underway, \A t \in Servers : Exchange(t)
  PROVE  Underway'
<1>1. PICK c : c = Cmd(s)
  OBVIOUS
<1>2. c \in DOMAIN log /\ log[c].by = s /\ log[c].answer = "none"
  BY <1>1, PerformedKeeps
<1>3. /\ CallsOff(s, "COMMIT_SUCCESS", "END") /\ WaitsSave(s) /\ user'[s] = NoCmd
      /\ \A d \in DOMAIN log : d # c => log'[d] = log[d]
      /\ log'[c].committed = log[c].committed
  BY <1>1, <1>2, AllPerformedEffect
<1>4. /\ Saving(s, c) /\ (s \in log'[c].saved => log'[c].answer = "WROTE")
  BY <1>1, PerformedSaves
<1>5. log[c].committed
  BY <1>1, <1>3 DEF Exchange, Logged, Busy, WaitsSave
<1>6. log'[c].saved \subseteq log[c].saved \cup {s}
  BY <1>4 DEF Saving
<1>7. DOMAIN log' = DOMAIN log /\ LogKept /\ UNCHANGED crowded
  BY <1>3 DEF CallsOff
<1>8. Len(log') = Len(log)
  BY <1>7, LenSame
<1>9. OnlyLastWaits'
  <2>1. \A t \in Servers : user'[t] = user[t] \/ user'[t] = NoCmd
    BY <1>3 DEF CallsOff, Untouched
  <2>2. NoCmd.state = "IDLE"
    BY DEF NoCmd
  <2> QED
    BY <1>7, <1>8, <2>1, <2>2 DEF Underway, OnlyLastWaits, Busy, Cmd
<1>10. Followed'
  <2>1. \A d \in DOMAIN log : /\ ~log[d].committed => log[d].saved = {}
                              /\ log[d].by \in log[d].saved => log[d].answer = "WROTE"
    BY DEF Underway, Followed
  <2>2. log'[c].by = s /\ log'[c].committed
    BY <1>2, <1>3, <1>5, <1>7 DEF LogKept
  <2> QED
    BY <1>3, <1>4, <1>7, <2>1, <2>2 DEF Followed
<1>11. ASSUME NEW t \in Servers, NEW p \in Others(t), NEW l, Due(l, t, p)
       PROVE  Due(l, t, p)'
  <2>1. l.text = c => t = s /\ p # s
    BY <1>2, <1>11 DEF Due, Others
  <2>2. p \notin log'[l.text].saved /\ log'[l.text].committed
    <3>1. CASE l.text = c
      BY <1>3, <1>5, <1>6, <1>11, <2>1, <3>1 DEF Due
    <3>2. CASE l.text # c
      BY <1>3, <1>11, <3>2 DEF Due
    <3> QED
      BY <3>1, <3>2
  <2> QED
    BY <1>7, <1>8, <1>11, <2>2 DEF Due, LogKept
<1>12. ASSUME NEW t \in Servers, NEW p \in Others(t) PROVE CommitsDue(t, p)'
  <2>1. Distinct(Out(t, p)) /\ \A l \in CommitsIn(Out(t, p)) : Due(l, t, p)
    BY DEF Underway, CommitsDue
  <2>2. Narrows(Out(t, p), Out(t, p)')
    BY <1>3, CallsOffNarrows
  <2>3. Distinct(Out(t, p)') /\ CommitsIn(Out(t, p)') \subseteq CommitsIn(Out(t, p))
    BY <2>1, <2>2, NarrowsCommits, Channels
  <2> QED
    BY <1>11, <2>1, <2>3 DEF CommitsDue
<1> QED
  BY <1>9, <1>10, <1>12 DEF Underway

\* What a step can be for the files and the numbers.
Commanded == \E s \in Servers, kind \in {"WRITE", "REPLACE"}, num \in Nums :
  /\ num <= Earlier + Len(log) + 1 /\ Command(s, kind, num)
  /\ msgNumber' \in [Servers -> 0 .. Earlier + Len(log) + 1]
  /\ kind = "WRITE" => num = msgNumber[s] + 1 /\ msgNumber'[s] = num
  /\ \A t \in Servers : t # s \/ kind # "WRITE" => msgNumber'[t] = msgNumber[t]

LEMMA StepKinds ==
  ASSUME TypeOK, [Next]_vars
  PROVE  \/ Plain
         \/ Commanded
         \/ \E m \in Servers, s \in Servers : Commit(m, s)
         \/ \E s \in Servers : \/ AllAcknowledged(s) /\ WaitsCommit(s)
                              \/ AllPerformed(s)
<1>1. ASSUME NEW s \in Servers, Issue(s) PROVE Plain \/ Commanded
  <2>1. CASE Leave(s)
    BY <2>1, PlainLeave
  <2>2. CASE Write(s)
    <3>1. PICK num : num = msgNumber'[s]
      OBVIOUS
    <3>2. /\ num \in Nums /\ num <= Earlier + Len(log) + 1 /\ Command(s, "WRITE", num)
          /\ msgNumber' \in [Servers -> 0 .. Earlier + Len(log) + 1]
          /\ num = msgNumber[s] + 1 /\ \A t \in Servers : t # s => msgNumber'[t] = msgNumber[t]
      BY <2>2, <3>1, WriteCommand
    <3> QED
      BY <3>1, <3>2 DEF Commanded
  <2>3. ASSUME NEW num \in 1 .. Earlier + 1, Replace(s, num) PROVE Commanded
    <3>1. /\ num \in Nums /\ num <= Earlier + Len(log) + 1 /\ Command(s, "REPLACE", num)
          /\ msgNumber' \in [Servers -> 0 .. Earlier + Len(log) + 1] /\ UNCHANGED msgNumber
      BY <2>3, ReplaceCommand
    <3> QED
      BY <3>1 DEF Commanded
  <2> QED
    BY <1>1, <2>1, <2>2, <2>3 DEF Issue
<1>2. ASSUME NEW s \in Servers, Receive(s)
      PROVE  Plain \/ \E m \in Servers : Commit(m, s)
  BY <1>2, PlainReceive, PlainReply DEF Receive
<1>3. ASSUME NEW s \in Servers, Handle(s) \/ MasterTimer(s) \/ SlaveTimer(s)
      PROVE  \/ Plain
             \/ AllAcknowledged(s) /\ WaitsCommit(s)
             \/ AllPerformed(s)
  BY <1>3, PlainCall, PlainQueue DEF Handle
<1>4. CASE UNCHANGED vars
  BY <1>4, SameOut, SameLogNoSave, PlainIf DEF vars, Narrows
<1> QED
  BY <1>1, <1>2, <1>3, <1>4 DEF Next

LEMMA UnderwayStays ==
  ASSUME TypeOK, TypeOK', \A t \in Servers : Exchange(t), Underway, [Next]_vars
  PROVE  Underway'
<1>1. CASE Commanded
  BY <1>1, CommandUnderway DEF Commanded
<1> QED
  BY <1>1, StepKinds, PlainUnderway, AcknowledgedUnderway, CommitUnderway, PerformedUnderway

LEMMA UnderwayInitially == ASSUME Init PROVE Underway
<1>1. \A s \in Servers : \A p \in Others(s) : Out(s, p) = <<>>
  BY DEF Init, Out, Others, Pairs
<1>2. Distinct(<<>>) /\ CommitsIn(<<>>) = {}
  BY DEF Distinct, CommitsIn
<1> QED
  BY <1>1, <1>2 DEF Init, Underway, CommitsDue, Followed, OnlyLastWaits, Busy, NoCmd

-----------------------------------------------------------------------------
(* What is in the files *)

LEMMA LeastOf ==
  ASSUME NEW T \in SUBSET Nat, T # {}
  PROVE  Min(T) \in T
<1>1. PICK R : R = {ss \in Nat \X Nat : ss[1] < ss[2]}
  OBVIOUS
<1>2. IsWellFoundedOn(R, Nat)
  BY <1>1, NatLessThanWellFounded, Zenon DEF OpToRel
<1>3. PICK x \in T : \A y \in T : ~(<<y, x>> \in R)
  BY <1>2, WFMin, Zenon
<1>4. \A i, j \in Nat : i < j => <<i, j>> \in R
  BY <1>1
<1>5. \A y \in T : x \in Nat /\ y \in Nat /\ ~(y < x)
  BY <1>3, <1>4
<1>6. \A y \in T : x <= y
  BY <1>5
<1> QED
  BY <1>6 DEF Min

LEMMA FoundAppended ==
  ASSUME NEW f \in Seq(Lines), NEW l \in Lines, NEW n
  PROVE  /\ l.num # n => Found(Append(f, l), n) = Found(f, n)
         /\ l.num = n => Found(Append(f, l), n) = Found(f, n) \cup {Len(f) + 1}
         /\ Len(f) + 1 \notin Found(f, n)
<1>1. /\ DOMAIN Append(f, l) = DOMAIN f \cup {Len(f) + 1} /\ Len(f) + 1 \notin DOMAIN f
      /\ \A i \in DOMAIN f : Append(f, l)[i] = f[i]
      /\ Append(f, l)[Len(f) + 1] = l
  OBVIOUS
<1> QED
  BY <1>1 DEF Found

LEMMA FoundReplaced ==
  ASSUME NEW f \in Seq(Lines), NEW l \in Lines, Found(f, l.num) # {}, NEW n
  PROVE  Found([f EXCEPT ![Min(Found(f, l.num))] = l], n) = Found(f, n)
<1>1. PICK i : i = Min(Found(f, l.num))
  OBVIOUS
<1>2. Found(f, l.num) \in SUBSET Nat
  BY DEF Found
<1>3. i \in DOMAIN f /\ f[i].num = l.num
  BY <1>1, <1>2, LeastOf DEF Found
<1>4. PICK g : g = [f EXCEPT ![i] = l]
  OBVIOUS
<1>5. DOMAIN g = DOMAIN f /\ \A j \in DOMAIN f : g[j] = IF j = i THEN l ELSE f[j]
  BY <1>4
<1>6. Found(g, n) = Found(f, n)
  BY <1>3, <1>5 DEF Found
<1> QED
  BY <1>1, <1>4, <1>6

LEMMA FoundFinite ==
  ASSUME NEW f \in Seq(Lines), NEW n
  PROVE  IsFiniteSet(Found(f, n)) /\ Cardinality(Found(f, n)) \in Nat
<1>1. IsFiniteSet(1 .. Len(f)) /\ Found(f, n) \in SUBSET (1 .. Len(f))
  BY FS_Interval DEF Found
<1> QED
  BY <1>1, FS_Subset, FS_CardinalityType

\* The WRITEs with a number that a server has saved: as many lines has the file more than at
\* first.
Stores(s, n) == {c \in DOMAIN log : log[c].kind = "WRITE" /\ log[c].num = n /\ s \in log[c].saved}
AtFirst(n)   == Cardinality({i \in 1 .. Earlier : i = n})
Counted(s)   == \A n \in Nums : Cardinality(Found(file[s], n)) = AtFirst(n) + Cardinality(Stores(s, n))

LEMMA StoresFinite ==
  ASSUME TypeOK, NEW s, NEW n
  PROVE  /\ IsFiniteSet(Stores(s, n)) /\ Cardinality(Stores(s, n)) \in Nat
         /\ AtFirst(n) \in Nat
<1>1. IsFiniteSet(1 .. Len(log)) /\ Stores(s, n) \in SUBSET (1 .. Len(log))
  BY FS_Interval, LogLength DEF Stores
<1>2. IsFiniteSet(1 .. Earlier) /\ {i \in 1 .. Earlier : i = n} \in SUBSET (1 .. Earlier)
  BY FS_Interval, LogLength
<1>3. IsFiniteSet(Stores(s, n)) /\ IsFiniteSet({i \in 1 .. Earlier : i = n})
  BY <1>1, <1>2, FS_Subset
<1> QED
  BY <1>3, FS_CardinalityType DEF AtFirst

LEMMA CountedSame ==
  ASSUME NEW s, file'[s] = file[s], Counted(s),
         \A n \in Nums : Stores(s, n)' = Stores(s, n)
  PROVE  Counted(s)'
BY DEF Counted, AtFirst

LEMMA StoresSame ==
  ASSUME NEW s, DOMAIN log' = DOMAIN log,
         \A c \in DOMAIN log : /\ log'[c].kind = log[c].kind /\ log'[c].num = log[c].num
                               /\ s \in log'[c].saved <=> s \in log[c].saved
  PROVE  \A n : Stores(s, n)' = Stores(s, n)
BY DEF Stores

\* What a save does to the file.
LEMMA SaveCases ==
  ASSUME NEW s \in Servers, NEW kind \in {"WRITE", "REPLACE"}, NEW line,
         NEW r \in SaveResults(s, kind, line)
  PROVE  \/ r.result # "WROTE" /\ r.file = file[s]
         \/ r.result = "WROTE" /\ kind = "WRITE" /\ r.file = Append(file[s], line)
         \/ /\ r.result = "WROTE" /\ kind = "REPLACE" /\ Found(file[s], line.num) # {}
            /\ r.file = [file[s] EXCEPT ![Min(Found(file[s], line.num))] = line]
BY DEF SaveResults

LEMMA SavingCounts ==
  ASSUME TypeOK, NEW s \in Servers, NEW c, Saving(s, c), \A t \in Servers : Counted(t)
  PROVE  \A t \in Servers : Counted(t)'
<1>1. PICK line : line = LineOf(c)
  OBVIOUS
<1>2. PICK r \in SaveResults(s, log[c].kind, line) :
        /\ file' = [file EXCEPT ![s] = r.file]
        /\ log'[c].saved = IF r.result = "WROTE" THEN log[c].saved \cup {s} ELSE log[c].saved
  BY <1>1 DEF Saving
<1>3. /\ c \in DOMAIN log /\ s \notin log[c].saved /\ DOMAIN log' = DOMAIN log
      /\ \A d \in DOMAIN log :
           /\ log'[d].by = log[d].by /\ log'[d].kind = log[d].kind /\ log'[d].num = log[d].num
           /\ d # c => log'[d].saved = log[d].saved
  BY DEF Saving
<1>4. /\ file'[s] = r.file /\ \A t \in Servers : t # s => file'[t] = file[t]
      /\ file[s] \in Seq(Lines)
  BY <1>2 DEF TypeOK
<1>5. log[c] \in Commands /\ log[c].kind \in {"WRITE", "REPLACE"} /\ line \in Lines /\ line.num = log[c].num
  <2>1. log[c] \in Commands /\ c \in 0 .. MaxCmds
    BY <1>3, LogLength
  <2> QED
    BY <2>1, <1>1 DEF Commands, Lines, LineOf
<1>6. ASSUME NEW t \in Servers, t # s PROVE Counted(t)'
  <2>1. \A n : Stores(t, n)' = Stores(t, n)
    BY <1>2, <1>3, <1>6, StoresSame
  <2> QED
    BY <1>4, <1>6, <2>1, CountedSame
<1>7. CASE r.result # "WROTE"
  <2>1. r.file = file[s]
    BY <1>5, <1>7, SaveCases, ZenonT(40)
  <2>2. \A n : Stores(s, n)' = Stores(s, n)
    BY <1>2, <1>3, <1>7, StoresSame
  <2>3. Counted(s)'
    BY <1>4, <2>1, <2>2, CountedSame
  <2> QED
    BY <1>6, <2>3
<1>8. CASE r.result = "WROTE" /\ log[c].kind = "REPLACE"
  <2>1. Found(file[s], line.num) # {} /\ r.file = [file[s] EXCEPT ![Min(Found(file[s], line.num))] = line]
    BY <1>5, <1>8, SaveCases
  <2>2. \A n : Found(file'[s], n) = Found(file[s], n)
    <3>1. PICK f \in Seq(Lines) : f = file[s]
      BY <1>4
    <3>2. \A n : Found([f EXCEPT ![Min(Found(f, line.num))] = line], n) = Found(f, n)
      BY <1>5, <2>1, <3>1, FoundReplaced
    <3> QED
      BY <1>4, <2>1, <3>1, <3>2
  <2>3. \A n : Stores(s, n)' = Stores(s, n)
    BY <1>2, <1>3, <1>8 DEF Stores
  <2>4. Counted(s)'
    BY <2>2, <2>3 DEF Counted, AtFirst
  <2> QED
    BY <1>6, <2>4
<1>9. CASE r.result = "WROTE" /\ log[c].kind = "WRITE"
  <2>1. r.file = Append(file[s], line)
    BY <1>5, <1>9, SaveCases
  <2>2. ASSUME NEW n \in Nums
        PROVE  Cardinality(Found(file'[s], n)) = AtFirst(n) + Cardinality(Stores(s, n)')
    <3>1. /\ IsFiniteSet(Found(file[s], n)) /\ Cardinality(Found(file[s], n)) \in Nat
          /\ IsFiniteSet(Stores(s, n)) /\ Cardinality(Stores(s, n)) \in Nat /\ AtFirst(n) \in Nat
          /\ Cardinality(Found(file[s], n)) = AtFirst(n) + Cardinality(Stores(s, n))
      BY <1>4, FoundFinite, StoresFinite DEF Counted
    <3>2. CASE line.num # n
      <4>1. Found(file'[s], n) = Found(file[s], n)
        BY <1>4, <1>5, <2>1, <3>2, FoundAppended
      <4>2. Stores(s, n)' = Stores(s, n)
        BY <1>2, <1>3, <1>5, <1>9, <3>2 DEF Stores
      <4> QED
        BY <3>1, <4>1, <4>2
    <3>3. CASE line.num = n
      <4>1. /\ Found(file'[s], n) = Found(file[s], n) \cup {Len(file[s]) + 1}
            /\ Len(file[s]) + 1 \notin Found(file[s], n)
        <5>1. PICK f \in Seq(Lines) : f = file[s]
          BY <1>4
        <5>2. /\ Found(Append(f, line), n) = Found(f, n) \cup {Len(f) + 1}
              /\ Len(f) + 1 \notin Found(f, n)
          BY <1>5, <3>3, FoundAppended, SMTT(20)
        <5> QED
          BY <1>4, <2>1, <5>1, <5>2
      <4>2. Stores(s, n)' = Stores(s, n) \cup {c} /\ c \notin Stores(s, n)
        BY <1>2, <1>3, <1>5, <1>9, <3>3 DEF Stores
      <4>3. Cardinality(Found(file'[s], n)) = Cardinality(Found(file[s], n)) + 1
        BY <3>1, <4>1, FS_AddElement, ZenonT(40)
      <4>4. Cardinality(Stores(s, n)') = Cardinality(Stores(s, n)) + 1
        BY <3>1, <4>2, FS_AddElement
      <4> QED
        BY <3>1, <4>3, <4>4
    <3> QED
      BY <3>2, <3>3
  <2>3. Counted(s)'
    BY <2>2 DEF Counted, AtFirst
  <2> QED
    BY <1>6, <2>3
<1> QED
  BY <1>5, <1>7, <1>8, <1>9

LEMMA CountedStays ==
  ASSUME TypeOK, \A t \in Servers : Exchange(t), Underway, \A t \in Servers : Counted(t), [Next]_vars
  PROVE  \A t \in Servers : Counted(t)'
<1>1. ASSUME NoSave PROVE \A t \in Servers : Counted(t)'
  BY <1>1, CountedSame, StoresSame DEF NoSave
<1>2. CASE Commanded
  <2>1. PICK s \in Servers, kind \in {"WRITE", "REPLACE"}, num \in Nums :
          /\ num <= Earlier + Len(log) + 1 /\ Command(s, kind, num)
          /\ msgNumber' \in [Servers -> 0 .. Earlier + Len(log) + 1]
    BY <1>2 DEF Commanded
  <2>2. PICK n, x : /\ n = Len(log) + 1
                    /\ x = [by |-> s, kind |-> kind, num |-> num, answer |-> "none",
                            committed |-> FALSE, saved |-> {}]
    OBVIOUS
  <2>3. /\ \A c \in DOMAIN log : log'[c] = log[c]
        /\ DOMAIN log' = 1 .. n /\ log'[n] = x
    BY <2>1, <2>2, CommandEffect
  <2>4. UNCHANGED file
    BY <2>1 DEF Command
  <2>5. /\ \A c \in DOMAIN log' : c \in DOMAIN log \/ c = n
        /\ DOMAIN log \subseteq DOMAIN log' /\ x.saved = {}
    BY <2>2, <2>3, LogLength
  <2>6. \A t, m : Stores(t, m)' = Stores(t, m)
    BY <2>3, <2>5 DEF Stores
  <2> QED
    BY <2>4, <2>6, CountedSame
<1>3. ASSUME NEW m, NEW s, Commit(m, s) PROVE \A t \in Servers : Counted(t)'
  <2>1. s \in Servers /\ \E c : Saving(s, c)
    BY <1>3, CommitSaves, Channels
  <2> QED
    BY <2>1, SavingCounts
<1>4. ASSUME NEW s \in Servers, AllPerformed(s) PROVE \A t \in Servers : Counted(t)'
  BY <1>4, PerformedSaves, SavingCounts
<1>5. ASSUME NEW s \in Servers, AllAcknowledged(s), WaitsCommit(s) PROVE NoSave
  BY <1>5, AcknowledgedPlain
<1> QED
  BY <1>1, <1>2, <1>3, <1>4, <1>5, StepKinds DEF Plain

LEMMA CountedInitially == ASSUME Init PROVE \A s \in Servers : Counted(s)
<1>1. ASSUME NEW s \in Servers, NEW n \in Nums
      PROVE  Cardinality(Found(file[s], n)) = AtFirst(n) + Cardinality(Stores(s, n))
  <2>1. Found(file[s], n) = {i \in 1 .. Earlier : i = n}
    BY DEF Init, Found
  <2>2. Stores(s, n) = {}
    BY DEF Init, Stores
  <2>3. AtFirst(n) \in Nat
    BY TypesInitially, StoresFinite
  <2> QED
    BY <2>1, <2>2, <2>3, FS_EmptySet DEF AtFirst
<1> QED
  BY <1>1 DEF Counted

\* As long as exchanges follow each other and succeed: the servers that have not saved the
\* last command have one file, the others the same with that command.
After(f, c) == IF log[c].kind = "WRITE" THEN Append(f, LineOf(c))
               ELSE [f EXCEPT ![Min(Found(f, log[c].num))] = LineOf(c)]
AllBefore  == \A c \in DOMAIN log : c < Len(log) => log[c].answer = "WROTE"
AgreeOn(f) == \A p \in Servers :
  file[p] = IF log # <<>> /\ p \in log[Len(log)].saved THEN After(f, Len(log)) ELSE f
Agree == ~crowded /\ AllBefore => \E f \in Seq(Lines) : AgreeOn(f)

LEMMA LastInLog ==
  ASSUME TypeOK
  PROVE  /\ log # <<>> <=> Len(log) \in DOMAIN log
         /\ \A c \in DOMAIN log : c < Len(log) \/ c = Len(log)
BY LogLength

LEMMA NoSaveAgrees ==
  ASSUME TypeOK, TypeOK', NoSave, Agree
  PROVE  Agree'
<1>1. Len(log') = Len(log)
  BY LenSame DEF NoSave
<1>2. PICK n : n = Len(log)
  OBVIOUS
<1>3. /\ log # <<>> <=> n \in DOMAIN log
      /\ log' # <<>> <=> n \in DOMAIN log'
  BY <1>1, <1>2, LogLength DEF TypeOK
<1>4. AllBefore' => AllBefore
  BY <1>1 DEF AllBefore, NoSave
<1>5. ASSUME NEW f, AgreeOn(f) PROVE AgreeOn(f)'
  <2>1. \A p \in Servers : file[p] = IF n \in DOMAIN log /\ p \in log[n].saved THEN After(f, n) ELSE f
    BY <1>2, <1>3, <1>5 DEF AgreeOn
  <2>2. n \in DOMAIN log => After(f, n)' = After(f, n)
    BY DEF NoSave, After, LineOf
  <2>3. \A p \in Servers : file'[p] = IF n \in DOMAIN log' /\ p \in log'[n].saved THEN After(f, n)' ELSE f
    BY <2>1, <2>2 DEF NoSave
  <2> QED
    BY <1>1, <1>2, <1>3, <2>3 DEF AgreeOn
<1> QED
  BY <1>4, <1>5 DEF Agree, NoSave

LEMMA SavingAgrees ==
  ASSUME TypeOK, TypeOK', NEW s \in Servers, NEW c, Saving(s, c), Agree,
         UNCHANGED crowded, ~crowded => c = Len(log)
  PROVE  Agree'
<1>1. /\ c \in DOMAIN log /\ s \notin log[c].saved /\ DOMAIN log' = DOMAIN log
      /\ \A d \in DOMAIN log :
           /\ log'[d].by = log[d].by /\ log'[d].kind = log[d].kind /\ log'[d].num = log[d].num
           /\ d # c => log'[d] = log[d]
  BY DEF Saving
<1>2. PICK line : line = LineOf(c)
  OBVIOUS
<1>3. PICK r \in SaveResults(s, log[c].kind, line) :
        /\ file' = [file EXCEPT ![s] = r.file]
        /\ log'[c].saved = IF r.result = "WROTE" THEN log[c].saved \cup {s} ELSE log[c].saved
  BY <1>2 DEF Saving
<1>4. log[c] \in Commands /\ log[c].kind \in {"WRITE", "REPLACE"} /\ line.num = log[c].num
  BY <1>1, <1>2, LogLength DEF Commands, LineOf
<1>5. file'[s] = r.file /\ \A t \in Servers : t # s => file'[t] = file[t]
  BY <1>3 DEF TypeOK
<1>6. Len(log') = Len(log)
  BY <1>1, LenSame
<1>7. SUFFICES ASSUME ~crowded, AllBefore' PROVE \E f \in Seq(Lines) : AgreeOn(f)'
  BY DEF Agree
<1>8. c = Len(log)
  BY <1>7
<1>9. AllBefore
  BY <1>1, <1>6, <1>7, <1>8 DEF AllBefore
<1>10. PICK f \in Seq(Lines) : AgreeOn(f)
  BY <1>7, <1>9 DEF Agree
<1>11. log # <<>> /\ log' # <<>>
  BY <1>1, <1>6, <1>8, LogLength DEF TypeOK
<1>12. \A p \in Servers : file[p] = IF p \in log[c].saved THEN After(f, c) ELSE f
  BY <1>8, <1>10, <1>11 DEF AgreeOn
<1>13. After(f, c)' = After(f, c)
  BY <1>1 DEF After, LineOf
<1>14. file'[s] = IF r.result = "WROTE" THEN After(f, c) ELSE f
  <2>1. file[s] = f
    BY <1>1, <1>12
  <2>2. CASE r.result # "WROTE"
    <3>1. r.file = file[s]
      BY <1>4, <2>2, SaveCases, ZenonT(40)
    <3> QED
      BY <1>5, <2>1, <2>2, <3>1
  <2>3. CASE r.result = "WROTE" /\ log[c].kind = "WRITE"
    <3>1. r.file = Append(file[s], line)
      BY <1>4, <2>3, SaveCases
    <3> QED
      BY <1>2, <1>5, <2>1, <2>3, <3>1 DEF After
  <2>4. CASE r.result = "WROTE" /\ log[c].kind = "REPLACE"
    <3>1. r.file = [file[s] EXCEPT ![Min(Found(file[s], line.num))] = line]
      BY <1>4, <2>4, SaveCases
    <3> QED
      BY <1>2, <1>4, <1>5, <2>1, <2>4, <3>1 DEF After
  <2> QED
    BY <1>4, <2>2, <2>3, <2>4
<1>15. \A p \in Servers : file'[p] = IF p \in log'[c].saved THEN After(f, c)' ELSE f
  BY <1>1, <1>3, <1>5, <1>12, <1>13, <1>14
<1>16. AgreeOn(f)'
  BY <1>6, <1>8, <1>11, <1>15 DEF AgreeOn
<1> QED
  BY <1>16

LEMMA CommandAgrees ==
  ASSUME TypeOK, TypeOK', Commanded, Agree, WroteEverywhere
  PROVE  Agree'
<1>1. PICK s \in Servers, kind \in {"WRITE", "REPLACE"}, num \in Nums :
        /\ num <= Earlier + Len(log) + 1 /\ Command(s, kind, num)
        /\ msgNumber' \in [Servers -> 0 .. Earlier + Len(log) + 1]
  BY DEF Commanded
<1>2. PICK n, x : /\ n = Len(log) + 1
                  /\ x = [by |-> s, kind |-> kind, num |-> num, answer |-> "none",
                          committed |-> FALSE, saved |-> {}]
  OBVIOUS
<1>3. /\ \A c \in DOMAIN log : log'[c] = log[c]
      /\ DOMAIN log' = 1 .. n /\ log'[n] = x
      /\ ~crowded' => ~crowded
  BY <1>1, <1>2, CommandEffect
<1>4. UNCHANGED file
  BY <1>1 DEF Command
<1>5. /\ Len(log') = n /\ x.saved = {} /\ file[s] \in Seq(Lines)
      /\ Len(log) \in Nat /\ DOMAIN log = 1 .. Len(log)
  BY <1>2, <1>3, LogLength DEF TypeOK
<1>6. SUFFICES ASSUME ~crowded', AllBefore' PROVE \E f \in Seq(Lines) : AgreeOn(f)'
  BY DEF Agree
<1>7. \A c \in DOMAIN log : log[c].answer = "WROTE"
  BY <1>2, <1>3, <1>5, <1>6 DEF AllBefore
<1>8. PICK f \in Seq(Lines) : AgreeOn(f)
  BY <1>3, <1>6, <1>7 DEF Agree, AllBefore
<1>9. log # <<>> => log[Len(log)].saved = Servers
  BY <1>3, <1>6, <1>7, LastInLog DEF WroteEverywhere
<1>10. \A p \in Servers : file[p] = file[s]
  BY <1>8, <1>9 DEF AgreeOn
<1>11. \A p \in Servers : p \notin log'[n].saved
  BY <1>3, <1>5
<1>12. PICK g \in Seq(Lines) : g = file[s]
  BY <1>5
<1>13. AgreeOn(g)'
  BY <1>4, <1>5, <1>10, <1>11, <1>12 DEF AgreeOn
<1> QED
  BY <1>13

LEMMA AgreeStays ==
  ASSUME TypeOK, TypeOK', \A t \in Servers : Exchange(t), Underway, WroteEverywhere, Agree, [Next]_vars
  PROVE  Agree'
<1>1. ASSUME NEW m, NEW s, Commit(m, s) PROVE Agree'
  <2>1. PICK l : l = Head(Out(m, s)).line
    OBVIOUS
  <2>2. m \in Servers /\ s \in Others(m) /\ Due(l, m, s) /\ Saving(s, l.text)
    BY <1>1, <2>1, CommitSaves
  <2>3. UNCHANGED crowded /\ (~crowded => l.text = Len(log))
    BY <1>1, <2>2 DEF Commit, Due
  <2> QED
    BY <2>2, <2>3, SavingAgrees, Channels
<1>2. ASSUME NEW s \in Servers, AllPerformed(s) PROVE Agree'
  <2>1. Saving(s, Cmd(s))
    BY <1>2, PerformedSaves
  <2>2. UNCHANGED crowded /\ Busy(s)
    BY <1>2 DEF AllPerformed, Busy
  <2>3. ~crowded => Cmd(s) = Len(log)
    BY <2>2 DEF Underway, OnlyLastWaits
  <2> QED
    BY <2>1, <2>2, <2>3, SavingAgrees
<1>3. ASSUME NEW s \in Servers, AllAcknowledged(s), WaitsCommit(s) PROVE NoSave
  BY <1>3, AcknowledgedPlain
<1> QED
  BY <1>1, <1>2, <1>3, NoSaveAgrees, CommandAgrees, StepKinds DEF Plain

LEMMA AgreeInitially == ASSUME Init PROVE Agree
<1>1. PICK f : f = [n \in 1 .. Earlier |-> [num |-> n, text |-> 0]]
  OBVIOUS
<1>2. \A p \in Servers : file[p] = f
  BY <1>1 DEF Init
<1>3. f \in Seq(Lines)
  <2>1. Earlier \in Nat /\ MaxCmds \in Nat
    BY ClusterConstantsOK DEF ClusterConstantsOK
  <2>2. \A n \in 1 .. Earlier : [num |-> n, text |-> 0] \in Lines
    BY <2>1 DEF Lines, Nums
  <2> QED
    BY <1>1, <2>1, <2>2
<1>4. log = <<>>
  BY DEF Init
<1> QED
  BY <1>2, <1>3, <1>4 DEF Agree, AgreeOn

-----------------------------------------------------------------------------
(* The numbers of messages that were written *)

Written(c) == log[c].kind = "WRITE" /\ log[c].answer = "WROTE"

\* As long as exchanges follow each other: the numbers of written messages increase, no counter
\* is behind one of them, and none of a server that has the last message behind its number.
Increase == \A c, d \in DOMAIN log :
  c < d /\ Written(c) /\ log[d].kind = "WRITE" => log[c].num < log[d].num
CountOn  == \A c \in DOMAIN log, p \in Servers : Written(c) => log[c].num <= msgNumber[p]
LastSeen == \A c \in DOMAIN log : c = Len(log) /\ log[c].kind = "WRITE" =>
  \A p \in Servers : p \in log[c].saved \/ p = log[c].by => log[c].num <= msgNumber[p]
Ahead == ~crowded => Increase /\ CountOn /\ LastSeen

LEMMA Numbers ==
  ASSUME TypeOK
  PROVE  /\ \A s \in Servers : msgNumber[s] \in Nat
         /\ \A c \in DOMAIN log : c \in Nat /\ log[c].num \in Nat /\ log[c].saved \subseteq Servers
<1>1. \A c \in DOMAIN log : log[c] \in Commands /\ c \in Nat
  BY LogLength
<1>2. Nums \subseteq Nat
  BY LogLength DEF Nums
<1>3. \A s \in Servers : msgNumber[s] \in 0 .. Earlier + Len(log)
  BY DEF TypeOK
<1>4. \A s \in Servers : msgNumber[s] \in Nat
  <2>1. Earlier + Len(log) \in Nat
    BY LogLength
  <2> QED
    BY <1>3, <2>1
<1>5. \A c \in DOMAIN log : c \in Nat /\ log[c].num \in Nat /\ log[c].saved \subseteq Servers
  BY <1>1, <1>2 DEF Commands
<1> QED
  BY <1>4, <1>5

LEMMA NoSaveAhead ==
  ASSUME TypeOK, TypeOK', NoSave, UNCHANGED msgNumber, Ahead
  PROVE  Ahead'
<1>1. Len(log') = Len(log)
  BY LenSame DEF NoSave
<1>2. \A c \in DOMAIN log : Written(c)' <=> Written(c)
  BY DEF Written, NoSave
<1> QED
  BY <1>1, <1>2 DEF Ahead, Increase, CountOn, LastSeen, NoSave

LEMMA CommandAhead ==
  ASSUME TypeOK, TypeOK', Commanded, Ahead
  PROVE  Ahead'
<1>1. PICK s \in Servers, kind \in {"WRITE", "REPLACE"}, num \in Nums :
        /\ num <= Earlier + Len(log) + 1 /\ Command(s, kind, num)
        /\ msgNumber' \in [Servers -> 0 .. Earlier + Len(log) + 1]
        /\ kind = "WRITE" => num = msgNumber[s] + 1 /\ msgNumber'[s] = num
        /\ \A t \in Servers : t # s \/ kind # "WRITE" => msgNumber'[t] = msgNumber[t]
  BY DEF Commanded
<1>2. PICK n, x : /\ n = Len(log) + 1
                  /\ x = [by |-> s, kind |-> kind, num |-> num, answer |-> "none",
                          committed |-> FALSE, saved |-> {}]
  OBVIOUS
<1>3. /\ \A c \in DOMAIN log : log'[c] = log[c]
      /\ DOMAIN log' = 1 .. n /\ log'[n] = x
      /\ ~crowded' => ~crowded
  BY <1>1, <1>2, CommandEffect
<1>4. /\ Len(log) \in Nat /\ DOMAIN log = 1 .. Len(log) /\ Len(log') = n
      /\ x.kind = kind /\ x.num = num /\ x.answer = "none" /\ x.saved = {} /\ x.by = s
  BY <1>2, <1>3, LogLength DEF TypeOK
<1>5. \A c \in DOMAIN log' : c \in DOMAIN log \/ c = n
  BY <1>2, <1>3, <1>4
<1>6. SUFFICES ASSUME ~crowded' PROVE (Increase /\ CountOn /\ LastSeen)'
  BY DEF Ahead
<1>7. Increase /\ CountOn /\ LastSeen
  BY <1>3, <1>6 DEF Ahead
<1>8. ~Written(n)' /\ \A c \in DOMAIN log : Written(c)' <=> Written(c)
  BY <1>3, <1>4 DEF Written
<1>9. \A p \in Servers : msgNumber[p] \in Nat /\ msgNumber'[p] \in Nat /\ msgNumber[p] <= msgNumber'[p]
  <2>1. \A p \in Servers : msgNumber[p] \in Nat /\ msgNumber'[p] \in Nat
    BY <1>1, <1>4, Numbers, LogLength
  <2>2. msgNumber[s] <= msgNumber'[s]
    BY <1>1, <2>1
  <2> QED
    BY <1>1, <2>1, <2>2
<1>10. Increase'
  <2>1. ASSUME NEW c \in DOMAIN log', NEW d \in DOMAIN log', c < d, Written(c)', log'[d].kind = "WRITE"
        PROVE  log'[c].num < log'[d].num
    <3>1. c \in DOMAIN log
      BY <1>5, <1>8, <2>1
    <3>2. CASE d \in DOMAIN log
      BY <1>3, <1>7, <1>8, <2>1, <3>1, <3>2 DEF Increase
    <3>3. CASE d = n
      <4>1. kind = "WRITE" /\ log'[d].num = msgNumber[s] + 1
        BY <1>1, <1>3, <1>4, <2>1, <3>3
      <4>2. log[c].num <= msgNumber[s]
        BY <1>7, <1>8, <2>1, <3>1 DEF CountOn
      <4> QED
        BY <1>3, <1>9, <3>1, <4>1, <4>2, Numbers
    <3> QED
      BY <1>5, <3>2, <3>3
  <2> QED
    BY <2>1 DEF Increase
<1>11. CountOn'
  <2>1. ASSUME NEW c \in DOMAIN log', NEW p \in Servers, Written(c)'
        PROVE  log'[c].num <= msgNumber'[p]
    <3>1. c \in DOMAIN log /\ log'[c] = log[c]
      BY <1>3, <1>5, <1>8, <2>1
    <3>2. log[c].num <= msgNumber[p]
      BY <1>7, <1>8, <2>1, <3>1 DEF CountOn
    <3> QED
      BY <1>9, <3>1, <3>2, Numbers
  <2> QED
    BY <2>1 DEF CountOn
<1>12. LastSeen'
  <2>1. ASSUME kind = "WRITE", NEW p \in Servers, p \in x.saved \/ p = x.by PROVE x.num <= msgNumber'[p]
    BY <1>1, <1>4, <1>9, <2>1
  <2> QED
    BY <1>3, <1>4, <2>1 DEF LastSeen
<1> QED
  BY <1>10, <1>11, <1>12

\* The COMMIT of the last command: the counter becomes its number, if it is a WRITE.
LEMMA CommitAhead ==
  ASSUME TypeOK, TypeOK', NEW m, NEW s, Commit(m, s), Underway, Ahead
  PROVE  Ahead'
<1>1. PICK line, c : line = Head(Out(m, s)).line /\ c = line.text
  OBVIOUS
<1>2. /\ m \in Servers /\ s \in Servers /\ OnlySaves /\ LogKept /\ UNCHANGED crowded
      /\ \A d \in DOMAIN log : log'[d].saved \subseteq log[d].saved \cup {s}
      /\ \A d \in DOMAIN log : d # c => log'[d] = log[d]
      /\ msgNumber'[s] = Updated(msgNumber[s], log[c].kind, line.num)
      /\ \A t \in Servers : t # s => msgNumber'[t] = msgNumber[t]
  BY <1>1, CommitEffect DEF Received
<1>3. Due(line, m, s)
  BY <1>1, CommitSaves
<1>4. SUFFICES ASSUME ~crowded PROVE (Increase /\ CountOn /\ LastSeen)'
  BY <1>2 DEF Ahead
<1>5. Increase /\ CountOn /\ LastSeen
  BY <1>4 DEF Ahead
<1>6. c \in DOMAIN log /\ c = Len(log) /\ log[c].num = line.num
  BY <1>1, <1>3, <1>4 DEF Due
<1>7. msgNumber'[s] = IF log[c].kind = "WRITE" THEN log[c].num ELSE msgNumber[s]
  <2>1. log[c].num \in 0 .. Earlier + MaxCmds
    <3>1. log[c] \in Commands
      BY <1>6, LogLength
    <3>2. log[c].num \in Nums
      BY <3>1 DEF Commands
    <3> QED
      BY <3>2, ClusterConstantsOK DEF Nums, ClusterConstantsOK
  <2> QED
    BY <1>2, <1>6, <2>1, NotWrapped DEF Updated
<1>8. /\ DOMAIN log' = DOMAIN log /\ Len(log') = Len(log)
      /\ \A d \in DOMAIN log :
           /\ log'[d].by = log[d].by /\ log'[d].kind = log[d].kind /\ log'[d].num = log[d].num
           /\ Written(d)' <=> Written(d)
  BY <1>2, LenSame DEF OnlySaves, LogKept, Written
<1>9. Increase'
  BY <1>5, <1>8 DEF Increase
<1>10. CountOn'
  <2>1. ASSUME NEW d \in DOMAIN log, Written(d) PROVE log[d].num <= msgNumber'[s]
    <3>1. CASE log[c].kind = "WRITE"
      <4>1. d < c \/ d = c
        BY <1>6, LogLength
      <4>2. d < c => log[d].num < log[c].num
        BY <1>5, <1>6, <2>1, <3>1 DEF Increase
      <4> QED
        BY <1>6, <1>7, <3>1, <4>1, <4>2, Numbers
    <3>2. CASE log[c].kind # "WRITE"
      BY <1>2, <1>5, <1>7, <2>1, <3>2 DEF CountOn
    <3> QED
      BY <3>1, <3>2
  <2> QED
    BY <1>2, <1>5, <1>8, <2>1 DEF CountOn
<1>11. LastSeen'
  <2>1. ASSUME log[c].kind = "WRITE", NEW p \in Servers, p \in log'[c].saved \/ p = log[c].by
        PROVE  log[c].num <= msgNumber'[p]
    <3>1. CASE p = s
      BY <1>6, <1>7, <2>1, <3>1, Numbers
    <3>2. CASE p # s
      BY <1>2, <1>5, <1>6, <2>1, <3>2 DEF LastSeen
    <3> QED
      BY <3>1, <3>2
  <2> QED
    BY <1>6, <1>8, <2>1 DEF LastSeen
<1> QED
  BY <1>9, <1>10, <1>11

LEMMA PerformedAhead ==
  ASSUME TypeOK, TypeOK', NEW s \in Servers, AllPerformed(s), Underway, \A t \in Servers : Exchange(t),
         WroteEverywhere', Ahead
  PROVE  Ahead'
<1>1. PICK c : c = Cmd(s)
  OBVIOUS
<1>2. c \in DOMAIN log /\ log[c].by = s /\ log[c].answer = "none"
  BY <1>1, PerformedKeeps
<1>3. /\ CallsOff(s, "COMMIT_SUCCESS", "END") /\ WaitsSave(s)
      /\ \A d \in DOMAIN log : d # c => log'[d] = log[d]
  BY <1>1, <1>2, AllPerformedEffect
<1>4. Saving(s, c)
  BY <1>1, PerformedSaves
<1>5. /\ DOMAIN log' = DOMAIN log /\ UNCHANGED <<crowded, msgNumber>> /\ Len(log') = Len(log)
      /\ log'[c].saved \subseteq log[c].saved \cup {s}
      /\ log'[c].by = s /\ log'[c].kind = log[c].kind /\ log'[c].num = log[c].num
  BY <1>2, <1>3, <1>4, LenSame DEF CallsOff, Saving
<1>6. SUFFICES ASSUME ~crowded PROVE (Increase /\ CountOn /\ LastSeen)'
  BY <1>5 DEF Ahead
<1>7. Increase /\ CountOn /\ LastSeen
  BY <1>6 DEF Ahead
<1>8. c = Len(log)
  BY <1>1, <1>3, <1>6 DEF Underway, OnlyLastWaits, Busy, WaitsSave
<1>9. \A d \in DOMAIN log : /\ log'[d].kind = log[d].kind /\ log'[d].num = log[d].num
                            /\ d # c => (Written(d)' <=> Written(d))
  BY <1>3, <1>5 DEF Written
<1>10. Increase'
  <2>1. \A d \in DOMAIN log : ~(c < d)
    BY <1>8, LogLength
  <2> QED
    BY <1>5, <1>7, <1>9, <2>1 DEF Increase
<1>11. CountOn'
  <2>1. ASSUME Written(c)', NEW p \in Servers PROVE log[c].num <= msgNumber[p]
    <3>1. log'[c].saved = Servers
      BY <1>2, <1>5, <1>6, <2>1 DEF Written, WroteEverywhere
    <3> QED
      BY <1>2, <1>5, <1>7, <1>8, <1>9, <2>1, <3>1 DEF LastSeen, Written
  <2> QED
    BY <1>5, <1>7, <1>9, <2>1 DEF CountOn
<1>12. LastSeen'
  BY <1>2, <1>5, <1>7, <1>8 DEF LastSeen
<1> QED
  BY <1>10, <1>11, <1>12

LEMMA AheadStays ==
  ASSUME TypeOK, TypeOK', \A t \in Servers : Exchange(t), Underway, WroteEverywhere', Ahead, [Next]_vars
  PROVE  Ahead'
<1>1. ASSUME NEW s \in Servers, AllAcknowledged(s), WaitsCommit(s) PROVE NoSave /\ UNCHANGED msgNumber
  BY <1>1, AcknowledgedPlain
<1> QED
  BY <1>1, NoSaveAhead, CommandAhead, CommitAhead, PerformedAhead, StepKinds DEF Plain

\* The invariant behind the three theorems that follow: which COMMITs are under way, what is in
\* every server's file, and how the numbers of written messages and the counters go on.
THEOREM FilesFollow == Spec => [](Underway /\ (\A s \in Servers : Counted(s)) /\ Agree /\ Ahead)
<1>1. Init => Underway /\ (\A s \in Servers : Counted(s)) /\ Agree /\ Ahead
  <2>1. Init => Ahead
    BY DEF Init, Ahead, Increase, CountOn, LastSeen
  <2> QED
    BY <2>1, UnderwayInitially, CountedInitially, AgreeInitially
<1>2. TypeOK /\ TypeOK' /\ (\A s \in Servers : Exchange(s)) /\ WroteEverywhere /\ WroteEverywhere'
      /\ (Underway /\ (\A s \in Servers : Counted(s)) /\ Agree /\ Ahead) /\ [Next]_vars
      => (Underway /\ (\A s \in Servers : Counted(s)) /\ Agree /\ Ahead)'
  BY UnderwayStays, CountedStays, AgreeStays, AheadStays
<1> QED
  BY <1>1, <1>2, TypeCorrect, ExchangesHold, WroteEverywhereHolds, PTL DEF Spec

LEMMA NumbersApartIf == ASSUME TypeOK, Ahead PROVE NumbersApart
<1>1. ASSUME ~crowded, NEW c \in DOMAIN log, NEW d \in DOMAIN log, c # d, Written(c), Written(d)
      PROVE  log[c].num # log[d].num
  <2>1. c < d \/ d < c
    BY <1>1, Numbers
  <2>2. Increase
    BY <1>1 DEF Ahead
  <2>3. log[c].num < log[d].num \/ log[d].num < log[c].num
    BY <1>1, <2>1, <2>2 DEF Increase, Written
  <2> QED
    BY <2>3, Numbers
<1> QED
  BY <1>1 DEF NumbersApart, Written

\* As long as exchanges follow each other, no two messages that were written have one number,
\* though update_msg_number() sets counters back as well as forward.
THEOREM NumbersApartHolds == Spec => []NumbersApart
<1>1. TypeOK /\ Ahead => NumbersApart
  BY NumbersApartIf
<1> QED
  BY <1>1, TypeCorrect, FilesFollow, PTL

LEMMA AllSaved ==
  ASSUME WroteEverywhere, AllWrote
  PROVE  \A c \in DOMAIN log : log[c].saved = Servers
BY DEF WroteEverywhere, AllWrote, FailedEarly

LEMMA SameNumbersIf ==
  ASSUME TypeOK, WroteEverywhere, \A s \in Servers : Counted(s)
  PROVE  SameNumbers
<1>1. ASSUME AllWrote, NEW s \in Servers, NEW t \in Servers, NEW n \in Nums
      PROVE  Cardinality(Found(file[s], n)) = Cardinality(Found(file[t], n))
  <2>1. Stores(s, n) = Stores(t, n)
    BY <1>1, AllSaved DEF Stores
  <2> QED
    BY <2>1 DEF Counted
<1> QED
  BY <1>1 DEF SameNumbers

\* When every command succeeded, every server has each number as often as any other, also after
\* exchanges that overlapped: a COMMIT is neither lost nor stored twice.
THEOREM SameNumbersHolds == Spec => []SameNumbers
<1>1. TypeOK /\ WroteEverywhere /\ (\A s \in Servers : Counted(s)) => SameNumbers
  BY SameNumbersIf
<1> QED
  BY <1>1, TypeCorrect, WroteEverywhereHolds, FilesFollow, PTL

LEMMA ReadsAgreeIf ==
  ASSUME TypeOK, WroteEverywhere, Agree
  PROVE  ReadsAgree
<1>1. ASSUME AllWrote, ~crowded, NEW s \in Servers, NEW t \in Servers PROVE file[s] = file[t]
  <2>1. PICK f \in Seq(Lines) : AgreeOn(f)
    BY <1>1 DEF Agree, AllBefore, AllWrote
  <2>2. log # <<>> => log[Len(log)].saved = Servers
    BY <1>1, AllSaved, LastInLog
  <2> QED
    BY <2>1, <2>2 DEF AgreeOn
<1> QED
  BY <1>1 DEF ReadsAgree, FirstTexts

\* When every command succeeded and no two exchanges overlapped, READ returns the same on all
\* servers: their files are the same, line by line.
THEOREM ReadsAgreeHolds == Spec => []ReadsAgree
<1>1. TypeOK /\ WroteEverywhere /\ Agree => ReadsAgree
  BY ReadsAgreeIf
<1> QED
  BY <1>1, TypeCorrect, WroteEverywhereHolds, FilesFollow, PTL

=============================================================================
