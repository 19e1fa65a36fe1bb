-------------------------- MODULE PeerSyncSafety ----------------------------
(* What holds of PeerSync for all constants: the types, preserved by every step,
   and two safety properties by one inductive invariant: what is under way as a
   success, in a state, a message, an event or a worker, is backed by a line in a
   peer's file, and files only gain lines. *)
EXTENDS PeerSync, SequenceTheorems, TLAPS

USE ConstantsOK DEF Peers, Users, Master, Servers, Cmds, Nums, NoNum, Garbled

-----------------------------------------------------------------------------
(* Types of the parts *)

LEMMA FreshType == Fresh \in Job
BY DEF Fresh, Job, ServerStates, ToPeer, Line, NoLine, Labels, Verdicts

LEMMA SubSeqType ==
  ASSUME NEW S, NEW s \in Seq(S), NEW m \in 1..(Len(s) + 1), NEW n \in 0..Len(s)
  PROVE  SubSeq(s, m, n) \in Seq(S)
BY SubSeqProperties, LenProperties, ElementOfSeq

\* What is left of a sequence after its first k elements.
LEMMA RestOfSeq ==
  ASSUME NEW S, NEW s \in Seq(S), NEW k \in Nat, k <= Len(s),
         NEW i \in DOMAIN SubSeq(s, k + 1, Len(s))
  PROVE  i \in Nat /\ 1 <= i /\ i + k \in DOMAIN s /\ SubSeq(s, k + 1, Len(s))[i] = s[i + k]
<1>1. Len(s) \in Nat /\ \A a \in (k + 1)..Len(s) : s[a] \in S
  BY LenProperties
<1>2. /\ DOMAIN SubSeq(s, k + 1, Len(s)) = 1..(Len(s) - k)
      /\ \A a \in 1..(Len(s) - k) : SubSeq(s, k + 1, Len(s))[a] = s[k + 1 + a - 1]
  BY <1>1, SubSeqProperties, LenProperties
<1> QED
  BY <1>1, <1>2, LenProperties

LEMMA UpdateType ==
  ASSUME NEW S, NEW T, NEW f \in [S -> T], NEW x, NEW v \in T
  PROVE  [f EXCEPT ![x] = v] \in [S -> T]
OBVIOUS

LEMMA SaveResultsType ==
  ASSUME NEW f \in Seq(Line), NEW cmd, NEW line \in Line,
         NEW r \in SaveResults(f, cmd, line)
  PROVE  r.file \in Seq(Line) /\ r.result \in Verdicts
<1>1. CASE r = [file |-> f, result |-> "ERROR"]
  BY <1>1 DEF Verdicts
<1>2. CASE r = [file |-> Append(f, line), result |-> "WROTE"]
  BY <1>2, AppendProperties DEF Verdicts
<1>3. CASE r = [file |-> f, result |-> "UNKNOWN"]
  BY <1>3 DEF Verdicts
<1>4. CASE \E i \in Found(f, line.num) :
             r = [file |-> [f EXCEPT ![i] = line], result |-> "WROTE"]
  BY <1>4, ExceptSeq, LenProperties DEF Found, Verdicts
<1> QED
  BY <1>1, <1>2, <1>3, <1>4 DEF SaveResults, FirstOf

\* What a REPLACE that spills leaves is made of the file's lines and the new ones,
\* and is not empty unless the file was.
LEMMA OverrunType ==
  ASSUME NEW f \in Seq(Line), NEW lines \in Seq(Line), lines # <<>>,
         NEW g \in Overrun(f, lines)
  PROVE  g \in Seq(Line) /\ g # <<>>
<1>0. PICK i \in Found(f, Head(lines).num) : \E j \in i..Len(f) :
        g = SubSeq(f, 1, i - 1) \o lines \o SubSeq(f, j + 1, Len(f))
  BY DEF Overrun, FirstOf
<1>1. PICK j \in i..Len(f) : g = SubSeq(f, 1, i - 1) \o lines \o SubSeq(f, j + 1, Len(f))
  BY <1>0
<1>1a. Len(f) \in Nat /\ DOMAIN f = 1..Len(f) /\ i \in DOMAIN f
  BY LenProperties DEF Found
<1>2. Len(f) \in Nat /\ i \in 1..Len(f) /\ j \in 1..Len(f)
  BY <1>1a
<1> DEFINE a == SubSeq(f, 1, i - 1)
           b == SubSeq(f, j + 1, Len(f))
<1>3. a \in Seq(Line) /\ b \in Seq(Line)
  BY <1>2, SubSeqType
<1>4. g = a \o lines \o b
  BY <1>1
<1> HIDE DEF a, b
<1>5. a \o lines \in Seq(Line) /\ Len(a \o lines) = Len(a) + Len(lines)
  BY <1>3, ConcatProperties
<1>6. g \in Seq(Line) /\ Len(g) = Len(a \o lines) + Len(b)
  BY <1>3, <1>4, <1>5, ConcatProperties
<1>7. Len(lines) # 0 /\ Len(lines) \in Nat /\ Len(a) \in Nat /\ Len(b) \in Nat
  BY <1>3, LenProperties, EmptySeq
<1> QED
  BY <1>5, <1>6, <1>7

LEMMA UnendedType ==
  ASSUME NEW f \in Seq(Line), NEW cmd, NEW lines \in Seq(Line), lines # <<>>,
         NEW g \in Unended(f, cmd, lines)
  PROVE  g \in Seq(Line) /\ (f # <<>> => g # <<>>)
<1>1. CASE g = f \o Tail(lines)
  <2>1. Tail(lines) \in Seq(Line)
    BY HeadTailProperties
  <2>2. g \in Seq(Line) /\ Len(g) = Len(f) + Len(Tail(lines))
    BY <1>1, <2>1, ConcatProperties
  <2>3. Len(f) \in Nat /\ Len(Tail(lines)) \in Nat /\ (f # <<>> => Len(f) # 0)
    BY <2>1, LenProperties, EmptySeq
  <2> QED
    BY <2>2, <2>3
<1>2. CASE g = f
  BY <1>2
<1> QED
  BY <1>1, <1>2 DEF Unended

LEMMA SpillsType ==
  ASSUME TypeOK, NEW s \in Servers, NEW cmd, NEW lines \in Seq(Line), lines # <<>>,
         NEW g \in Spills(s, cmd, lines)
  PROVE  /\ g \in Seq(Line) /\ (file[s] # <<>> => g # <<>>)
         /\ g = <<>> => s \in spilled
<1>1. file[s] \in Seq(Line)
  BY DEF TypeOK
<1>2. CASE g \in Overrun(file[s], lines)
  BY <1>1, <1>2, OverrunType
<1>3. CASE s \in spilled /\ g \in Unended(file[s], cmd, lines)
  BY <1>1, <1>3, UnendedType
<1> QED
  BY <1>2, <1>3 DEF Spills

WorkersOK == pc \in [Workers -> Labels] /\ job \in [Workers -> Job]

LEMMA GoType ==
  ASSUME TypeOK, NEW w \in Workers, NEW l \in Labels, NEW j \in Job, Go(w, l, j)
  PROVE  WorkersOK'
BY FreshType DEF Go, TypeOK, WorkersOK

LEMMA AdvanceType ==
  ASSUME TypeOK, NEW w \in Workers, NEW loop \in Labels, NEW after \in Labels,
         Advance(w, loop, after)
  PROVE  WorkersOK'
<1>1. job[w] \in Job
  BY DEF TypeOK
<1>2. CASE job[w].idx < N
  <2>1. [job[w] EXCEPT !.idx = @ + 1] \in Job
    BY <1>1, <1>2 DEF Job
  <2> QED
    BY <1>2, <2>1, GoType DEF Advance
<1>3. CASE ~(job[w].idx < N)
  <2>1. [job[w] EXCEPT !.idx = 1] \in Job
    BY <1>1 DEF Job
  <2> QED
    BY <1>3, <2>1, GoType DEF Advance
<1> QED
  BY <1>2, <1>3

\* One local variable at a time.
LEMMA SetJob ==
  ASSUME NEW j \in Job
  PROVE  /\ \A u \in Users : [j EXCEPT !.usr = u] \in Job
         /\ \A p \in Peers : [j EXCEPT !.idx = p] \in Job
         /\ \A st \in ServerStates : [j EXCEPT !.st = st] \in Job
         /\ \A m \in ToPeer : [j EXCEPT !.msg = m] \in Job
         /\ \A l \in Labels : [j EXCEPT !.ret = l] \in Job
         /\ \A n \in 0..Garbled : [j EXCEPT !.num = n] \in Job
         /\ \A b \in BOOLEAN : [j EXCEPT !.unknown = b] \in Job
         /\ \A b \in BOOLEAN : [j EXCEPT !.ok = b] \in Job
         /\ \A v \in Verdicts : [j EXCEPT !.answer = v] \in Job
<1>1. \A u \in Users : [j EXCEPT !.usr = u] \in Job
  BY DEF Job
<1>2. \A p \in Peers : [j EXCEPT !.idx = p] \in Job
  BY DEF Job
<1>3. \A st \in ServerStates : [j EXCEPT !.st = st] \in Job
  BY DEF Job
<1>4. \A m \in ToPeer : [j EXCEPT !.msg = m] \in Job
  BY DEF Job
<1>5. \A l \in Labels : [j EXCEPT !.ret = l] \in Job
  BY DEF Job
<1>6. \A n \in 0..Garbled : [j EXCEPT !.num = n] \in Job
  BY DEF Job
<1>7. \A b \in BOOLEAN : [j EXCEPT !.unknown = b] \in Job
  BY DEF Job
<1>8. \A b \in BOOLEAN : [j EXCEPT !.ok = b] \in Job
  BY DEF Job
<1>9. \A v \in Verdicts : [j EXCEPT !.answer = v] \in Job
  BY DEF Job
<1> QED
  BY <1>1, <1>2, <1>3, <1>4, <1>5, <1>6, <1>7, <1>8, <1>9

LEMMA SendingType ==
  ASSUME NEW j \in Job, NEW msg \in ToPeer, NEW st \in ServerStates,
         NEW ret \in Labels
  PROVE  Sending(j, msg, st, ret) \in Job
<1> DEFINE j1 == [j EXCEPT !.msg = msg]
           j2 == [j1 EXCEPT !.st = st]
           j3 == [j2 EXCEPT !.idx = 1]
           j4 == [j3 EXCEPT !.ret = ret]
<1>1. j1 \in Job
  BY SetJob
<1> HIDE DEF j1
<1>2. j2 \in Job
  BY <1>1, SetJob
<1> HIDE DEF j2
<1>3. j3 \in Job
  BY <1>2, SetJob
<1> HIDE DEF j3
<1>4. j4 \in Job
  BY <1>3, SetJob
<1> QED
  BY <1>4 DEF Sending, j1, j2, j3, j4

LEMMA MulticastType ==
  ASSUME TypeOK, NEW w \in Workers, NEW msg \in ToPeer, NEW st \in ServerStates,
         NEW ret \in Labels, Multicast(w, msg, st, ret)
  PROVE  WorkersOK'
<1>1. job[w] \in Job /\ "send" \in Labels
  BY DEF TypeOK, Labels
<1>2. Sending(job[w], msg, st, ret) \in Job
  BY <1>1, SendingType
<1> QED
  BY <1>1, <1>2, GoType DEF Multicast

LEMMA AnswerType ==
  ASSUME TypeOK, NEW u \in Users, NEW v \in Verdicts, Answer(u, v)
  PROVE  verdict' \in [Cmds -> Seq(Verdicts)]
<1>1. verdict \in [Cmds -> Seq(Verdicts)] /\ last[u] \in 0..MaxCmds
  BY DEF TypeOK
<1>2. CASE last[u] = 0
  BY <1>1, <1>2 DEF Answer
<1>3. CASE last[u] \in Cmds
  <2>1. Append(verdict[last[u]], v) \in Seq(Verdicts)
    BY <1>1, <1>3, AppendProperties
  <2> QED
    BY <1>1, <1>3, <2>1 DEF Answer
<1> QED
  BY <1>1, <1>2, <1>3

LEMMA InitType == Init => TypeOK
<1> SUFFICES ASSUME Init PROVE TypeOK
  OBVIOUS
<1> USE DEF Init
<1>1. srv \in [Peers -> ServerStates] /\ masterState \in ServerStates \cup {"NULL"}
  BY DEF ServerStates
<1>2. masterTimer \in BOOLEAN /\ queue \in Seq(Event)
  BY EmptySeq
<1>3. client \in [Users -> Client]
  BY DEF Client, UserStates, NoLine, Line
<1>4. msgNumber \in 0..issued /\ issued \in 0..MaxCmds
  OBVIOUS
<1>5. pc \in [Workers -> Labels] /\ job \in [Workers -> Job]
  BY FreshType DEF Labels
<1>6. conn \in [Peers -> Connections] /\ spilled \subseteq Servers
  BY DEF Connections
<1>6a. toPeer \in [Peers -> Seq(ToPeer)] /\ toMaster \in [Peers -> Seq(ToMaster)]
  OBVIOUS
<1>7. up \in [Peers -> BOOLEAN] /\ slave \in [Peers -> SlaveStates]
  BY DEF SlaveStates
<1>8. file \in [Servers -> Seq(Line)] /\ verdict \in [Cmds -> Seq(Verdicts)]
  OBVIOUS
<1>8a. last \in [Users -> 0..MaxCmds]
  OBVIOUS
<1>9. crashes \in 0..MaxCrashes /\ timeouts \in 0..MaxTimeouts
  OBVIOUS
<1> QED
  BY <1>1, <1>2, <1>3, <1>4, <1>5, <1>6, <1>6a, <1>7, <1>8, <1>8a, <1>9 DEF TypeOK
-----------------------------------------------------------------------------
(* Every step keeps the types *)

LEMMA SubmitType ==
  ASSUME TypeOK, NEW w \in Workers, NEW u \in Users,
         NEW cmd \in {"WRITE", "REPLACE"}, NEW num, issued < MaxCmds => num \in Nums,
         issued < MaxCmds => msgNumber' \in 0..(issued + 1), Submit(w, u, cmd, num)
  PROVE  TypeOK'
<1> USE DEF Submit, sharedVars, netVars, peerVars
<1>1. WorkersOK'
  <2>1. job[w] \in Job /\ "connect" \in Labels
    BY DEF TypeOK, Labels
  <2>2. [job[w] EXCEPT !.usr = u] \in Job
    BY <2>1, SetJob
  <2> QED
    BY <2>1, <2>2, GoType
<1>2. issued' \in 0..MaxCmds /\ issued' \in Cmds /\ msgNumber' \in 0..issued' /\ num \in Nums
  BY SMTT(30) DEF TypeOK
<1>3. last' \in [Users -> 0..MaxCmds]
  BY <1>2 DEF TypeOK
<1>4. client' \in [Users -> Client]
  <2> DEFINE c == [state |-> "U_WAITING_COMMIT", cmd |-> cmd,
                   line |-> [num |-> num, text |-> issued']]
  <2>1. [num |-> num, text |-> issued'] \in Line
    BY <1>2 DEF Line
  <2>2. c \in Client
    BY <2>1 DEF Client, UserStates
  <2>3. client' = [client EXCEPT ![u] = c]
    OBVIOUS
  <2> HIDE DEF c
  <2> QED
    BY <2>2, <2>3 DEF TypeOK
<1> QED
  BY <1>1, <1>2, <1>3, <1>4 DEF TypeOK, WorkersOK

LEMMA NextPeerType ==
  ASSUME TypeOK, NEW w \in Workers, NEW ok \in BOOLEAN, NextPeer(w, ok)
  PROVE  WorkersOK'
<1> DEFINE p == job[w].idx
           k2 == [job[w] EXCEPT !.ok = ok]
           j2 == [k2 EXCEPT !.idx = p + 1]
           k3 == [k2 EXCEPT !.idx = 1]
           k4 == [k3 EXCEPT !.st = "IDLE"]
           j4 == [k4 EXCEPT !.ret = "connected"]
<1>1. p \in Peers /\ job[w] \in Job /\ N \in Nat \ {0}
  BY ConstantsOK DEF TypeOK, Job
<1>2. {"connect", "check", "connected"} \subseteq Labels /\ "IDLE" \in ServerStates /\ 1 \in Peers
  BY <1>1 DEF Labels, ServerStates, Peers
<1>3. IF p < N THEN Go(w, "connect", j2) ELSE Go(w, "check", j4)
  BY DEF NextPeer
<1> HIDE DEF p, j2, j4
<1>4. k2 \in Job
  BY <1>1, SetJob
<1> HIDE DEF k2
<1>5. ASSUME p < N PROVE j2 \in Job
  <2>1. p + 1 \in Peers
    BY <1>1, <1>5 DEF Peers
  <2> QED
    BY <1>4, <2>1, SetJob DEF j2
<1>6. k3 \in Job
  BY <1>2, <1>4, SetJob
<1> HIDE DEF k3
<1>7. k4 \in Job
  BY <1>2, <1>6, SetJob
<1> HIDE DEF k4
<1>8. j4 \in Job
  BY <1>2, <1>7, SetJob DEF j4
<1> QED
  BY <1>2, <1>3, <1>5, <1>8, GoType

LEMMA ConnectType ==
  ASSUME TypeOK, NEW w \in Workers, Connect(w)
  PROVE  TypeOK'
<1> DEFINE p == job[w].idx
<1>1. p \in Peers /\ job[w] \in Job /\ job[w].ok \in BOOLEAN /\ "link" \in Labels
  BY DEF TypeOK, Job, Labels
<1>2. \/ Go(w, "link", job[w])
      \/ NextPeer(w, job[w].ok /\ srv[p] # "DISCONNECT")
  BY DEF Connect
<1>3. WorkersOK'
  <2>1. (job[w].ok /\ srv[p] # "DISCONNECT") \in BOOLEAN
    OBVIOUS
  <2> QED
    BY <1>1, <1>2, <2>1, GoType, NextPeerType
<1>4. \/ /\ conn' = [conn EXCEPT ![p] = "new"]
         /\ toPeer' = [toPeer EXCEPT ![p] = <<>>]
         /\ toMaster' = [toMaster EXCEPT ![p] = <<>>]
         /\ slave' = [slave EXCEPT ![p] = "NULL"]
      \/ UNCHANGED <<conn, toPeer, toMaster, slave>>
  BY DEF Connect, netVars
<1> HIDE DEF p
<1>5. slave' \in [Peers -> SlaveStates]
  BY <1>4, ZenonT(40) DEF TypeOK, SlaveStates
<1>6. conn' \in [Peers -> Connections]
  BY <1>4 DEF TypeOK, Connections
<1>7. toPeer' \in [Peers -> Seq(ToPeer)]
  <2>1. toPeer \in [Peers -> Seq(ToPeer)] /\ <<>> \in Seq(ToPeer)
    BY DEF TypeOK
  <2> QED
    BY <1>4, <2>1, UpdateType
<1>8. toMaster' \in [Peers -> Seq(ToMaster)]
  <2>1. toMaster \in [Peers -> Seq(ToMaster)] /\ <<>> \in Seq(ToMaster)
    BY DEF TypeOK
  <2> QED
    BY <1>4, <2>1, UpdateType
<1>9. UNCHANGED <<sharedVars, up, crashes, timeouts, userVars, file, spilled>>
  BY DEF Connect
<1> QED
  BY <1>3, <1>5, <1>6, <1>7, <1>8, <1>9 DEF TypeOK, WorkersOK, sharedVars, userVars

LEMMA LinkType ==
  ASSUME TypeOK, NEW w \in Workers, Link(w)
  PROVE  TypeOK'
<1> DEFINE p == job[w].idx
<1>1. p \in Peers /\ job[w].ok \in BOOLEAN
  BY DEF TypeOK, Job
<1>2. WorkersOK'
  BY <1>1, NextPeerType DEF Link
<1>3. conn' \in [Peers -> Connections]
  <2>1. conn \in [Peers -> Connections]
    BY DEF TypeOK
  <2>2. \E c \in Connections : conn' = [conn EXCEPT ![p] = c]
    BY <1>1, <2>1 DEF Link, Connections
  <2> QED
    BY <2>1, <2>2, UpdateType
<1>4. srv' \in [Peers -> ServerStates]
  BY DEF Link, TypeOK, ServerStates
<1>5. UNCHANGED <<masterState, masterTimer, queue, toPeer, toMaster, peerVars, userVars, file, spilled>>
  BY DEF Link
<1> QED
  BY <1>2, <1>3, <1>4, <1>5 DEF TypeOK, WorkersOK, peerVars, userVars

LEMMA ConnectedType ==
  ASSUME TypeOK, NEW w \in Workers, Connected(w)
  PROVE  TypeOK'
<1> USE DEF sharedVars, netVars, peerVars, userVars
<1>1. UNCHANGED <<sharedVars, netVars, peerVars, client, msgNumber, last, issued, file, spilled>>
  BY DEF Connected
<1>2. CASE job[w].ok
  <2>1. Multicast(w, Msg("PRECOMMIT", NoLine), "M_PRECOMMIT_MULTICASTED", "idle")
        /\ verdict' = verdict
    BY <1>2 DEF Connected
  <2>2. /\ Msg("PRECOMMIT", NoLine) \in ToPeer
        /\ "M_PRECOMMIT_MULTICASTED" \in ServerStates /\ "idle" \in Labels
    BY DEF Msg, ToPeer, Line, NoLine, ServerStates, Labels
  <2>3. WorkersOK'
    BY <2>1, <2>2, MulticastType
  <2> QED
    BY <1>1, <2>1, <2>3 DEF TypeOK, WorkersOK
<1>3. CASE ~job[w].ok
  <2>1. Answer(job[w].usr, "ERROR") /\ Go(w, "idle", Fresh)
    BY <1>3 DEF Connected
  <2>2. job[w].usr \in Users /\ "idle" \in Labels /\ "ERROR" \in Verdicts
    BY DEF TypeOK, Job, Labels, Verdicts
  <2>3. WorkersOK'
    BY <2>1, <2>2, FreshType, GoType
  <2>4. verdict' \in [Cmds -> Seq(Verdicts)]
    BY <2>1, <2>2, AnswerType
  <2> QED
    BY <1>1, <2>3, <2>4 DEF TypeOK, WorkersOK
<1> QED
  BY <1>2, <1>3

\* The steps that only move a worker.
LEMMA WorkerOnly ==
  ASSUME TypeOK, WorkersOK',
         UNCHANGED <<sharedVars, netVars, peerVars, userVars, file, spilled>>
  PROVE  TypeOK'
BY DEF TypeOK, WorkersOK, sharedVars, netVars, peerVars, userVars

LEMMA SendType ==
  ASSUME TypeOK, NEW w \in Workers, Send(w)
  PROVE  TypeOK'
<1>1. job[w] \in Job /\ job[w].idx \in Peers /\ job[w].ret \in Labels
      /\ job[w].msg \in ToPeer /\ "mark" \in Labels
  BY DEF TypeOK, Job, Labels
<1>2. WorkersOK'
  BY <1>1, GoType DEF Send
<1>3. toPeer' \in [Peers -> Seq(ToPeer)]
  <2>1. \/ toPeer' = toPeer
        \/ toPeer' = [toPeer EXCEPT ![job[w].idx] = Append(@, job[w].msg)]
    BY DEF Send
  <2>2. Append(toPeer[job[w].idx], job[w].msg) \in Seq(ToPeer)
    BY <1>1, AppendProperties DEF TypeOK
  <2> QED
    BY <1>1, <2>1, <2>2 DEF TypeOK
<1>4. conn' \in [Peers -> Connections]
  <2>1. conn' = conn \/ conn' = [conn EXCEPT ![job[w].idx] = "stray"]
    BY DEF Send
  <2> QED
    BY <2>1 DEF TypeOK, Connections
<1>5. UNCHANGED <<sharedVars, toMaster, peerVars, userVars, file, spilled>>
  BY DEF Send
<1> QED
  BY <1>2, <1>3, <1>4, <1>5 DEF TypeOK, WorkersOK, sharedVars, peerVars, userVars

LEMMA MarkType ==
  ASSUME TypeOK, NEW w \in Workers, Mark(w)
  PROVE  TypeOK'
<1>1. job[w].idx \in Peers /\ job[w].st \in ServerStates /\ {"send", "check"} \subseteq Labels
  BY DEF TypeOK, Job, Labels
<1>2. WorkersOK'
  BY <1>1, AdvanceType DEF Mark
<1>3. srv' \in [Peers -> ServerStates]
  BY <1>1 DEF TypeOK, Mark
<1> QED
  BY <1>2, <1>3 DEF Mark, TypeOK, WorkersOK, netVars, peerVars, userVars

LEMMA CheckType ==
  ASSUME TypeOK, NEW w \in Workers, Check(w)
  PROVE  TypeOK'
<1>1. job[w] \in Job /\ job[w].ret \in Labels /\ {"check", "master"} \subseteq Labels
  BY DEF TypeOK, Job, Labels
<1>2. WorkersOK'
  BY <1>1, AdvanceType, GoType DEF Check
<1> QED
  BY <1>2, WorkerOnly DEF Check

LEMMA SetMasterType ==
  ASSUME TypeOK, NEW w \in Workers, SetMaster(w)
  PROVE  TypeOK'
<1>1. job[w] \in Job /\ job[w].ret \in Labels /\ "post" \in Labels
      /\ job[w].st \in ServerStates
  BY DEF TypeOK, Job, Labels
<1>2. WorkersOK'
  BY <1>1, GoType DEF SetMaster
<1>3. masterState' \in ServerStates \cup {"NULL"}
  BY <1>1 DEF SetMaster
<1>4. masterTimer' \in BOOLEAN
  BY DEF SetMaster, TypeOK
<1>5. UNCHANGED <<srv, queue, netVars, peerVars, userVars, file, spilled>>
  BY DEF SetMaster
<1> QED
  BY <1>2, <1>3, <1>4, <1>5 DEF TypeOK, WorkersOK, netVars, peerVars, userVars

LEMMA EnqueueType ==
  ASSUME TypeOK, NEW type \in EventTypes, NEW num \in 0..Garbled,
         NEW unknown \in BOOLEAN, Enqueue(type, num, unknown)
  PROVE  queue' \in Seq(Event)
<1>1. [type |-> type, num |-> num, unknown |-> unknown] \in Event
  BY DEF Event
<1> QED
  BY <1>1, AppendProperties DEF TypeOK, Enqueue

LEMMA PostType ==
  ASSUME TypeOK, NEW w \in Workers, Post(w)
  PROVE  TypeOK'
<1>1. job[w].num \in 0..Garbled /\ job[w].unknown \in BOOLEAN /\ "idle" \in Labels
  BY DEF TypeOK, Job, Labels
<1>2. WorkersOK'
  BY <1>1, FreshType, GoType DEF Post
<1>3. queue' \in Seq(Event)
  <2>1. \E type \in EventTypes : Enqueue(type, job[w].num, job[w].unknown)
    BY DEF Post, EventTypes
  <2> QED
    BY <1>1, <2>1, EnqueueType
<1> QED
  BY <1>2, <1>3 DEF Post, TypeOK, WorkersOK, netVars, peerVars, userVars

LEMMA RecvReplyType ==
  ASSUME TypeOK, NEW w \in Workers, NEW p \in Peers, NEW k \in 1..MaxRecv,
         RecvReply(w, p, k)
  PROVE  TypeOK'
<1> DEFINE m == Head(toMaster[p])
           n == IF k > 1 THEN Garbled ELSE m.num
           b == (m.kind = "UNKNOWN")
           j1 == [job[w] EXCEPT !.idx = p]
           j2 == [j1 EXCEPT !.st = StateAfter(m.kind)]
           j3 == [j2 EXCEPT !.num = n]
           j4 == [j3 EXCEPT !.unknown = b]
<1>1. toMaster[p] \in Seq(ToMaster) /\ k \in 1..Len(toMaster[p])
  BY DEF TypeOK, RecvReply
<1>2. m \in ToMaster
  <2>1. toMaster[p] # <<>>
    BY <1>1
  <2> QED
    BY <1>1, <2>1, HeadTailProperties
<1>3. toMaster' \in [Peers -> Seq(ToMaster)]
  <2>1. SubSeq(toMaster[p], k + 1, Len(toMaster[p])) \in Seq(ToMaster)
    BY <1>1, SubSeqType, LenProperties
  <2>2. toMaster' = [toMaster EXCEPT ![p] = SubSeq(@, k + 1, Len(@))]
    BY DEF RecvReply
  <2> QED
    BY <2>1, <2>2 DEF TypeOK
<1>4. WorkersOK'
  <2>1. job[w] \in Job /\ "note" \in Labels
    BY DEF TypeOK, Labels
  <2>2. StateAfter(m.kind) \in ServerStates
    BY DEF StateAfter, ServerStates
  <2>3. n \in 0..Garbled /\ b \in BOOLEAN
    BY <1>2 DEF ToMaster
  <2>4. Go(w, "note", j4) \/ UNCHANGED workerVars
    BY DEF RecvReply
  <2> HIDE DEF n, b, m
  <2>5. j1 \in Job
    BY <2>1, SetJob
  <2> HIDE DEF j1
  <2>6. j2 \in Job
    BY <2>2, <2>5, SetJob
  <2> HIDE DEF j2
  <2>7. j3 \in Job
    BY <2>3, <2>6, SetJob
  <2> HIDE DEF j3
  <2>8. j4 \in Job
    BY <2>3, <2>7, SetJob
  <2> HIDE DEF j4
  <2> QED
    BY <2>1, <2>4, <2>8, GoType DEF workerVars, WorkersOK, TypeOK
<1>5. UNCHANGED <<sharedVars, conn, toPeer, peerVars, userVars, file, spilled>>
  BY DEF RecvReply
<1> QED
  BY <1>3, <1>4, <1>5 DEF TypeOK, WorkersOK, sharedVars, peerVars, userVars

LEMMA NoteType ==
  ASSUME TypeOK, NEW w \in Workers, Note(w)
  PROVE  TypeOK'
<1>1. job[w] \in Job /\ job[w].idx \in Peers /\ job[w].st \in ServerStates
  BY DEF TypeOK, Job
<1>1a. {"once", "check"} \subseteq Labels /\ 1 \in Peers
  BY DEF Labels
<1>2. WorkersOK'
  <2>1. [job[w] EXCEPT !.idx = 1] \in Job
    BY <1>1, <1>1a, SetJob
  <2> QED
    BY <1>1, <1>1a, <2>1, GoType DEF Note
<1>3. srv' \in [Peers -> ServerStates]
  BY <1>1 DEF TypeOK, Note
<1> QED
  BY <1>2, <1>3 DEF Note, TypeOK, WorkersOK, netVars, peerVars, userVars

LEMMA OnceType ==
  ASSUME TypeOK, NEW w \in Workers, Once(w)
  PROVE  TypeOK'
<1>1. job[w] \in Job /\ {"master", "idle"} \subseteq Labels
  BY DEF TypeOK, Labels
<1>2. WorkersOK'
  BY <1>1, GoType DEF Once
<1> QED
  BY <1>2, WorkerOnly DEF Once

LEMMA PeerClosedType ==
  ASSUME TypeOK, NEW w \in Workers, NEW p \in Peers, PeerClosed(w, p)
  PROVE  TypeOK'
<1>1. conn' \in [Peers -> Connections]
  BY DEF TypeOK, PeerClosed, Connections
<1>2. srv' \in [Peers -> ServerStates]
  BY DEF TypeOK, PeerClosed, ServerStates
<1> QED
  BY <1>1, <1>2 DEF PeerClosed, TypeOK, workerVars, peerVars, userVars

LEMMA MasterTimerFiresType ==
  ASSUME TypeOK, MasterTimerFires
  PROVE  TypeOK'
<1>1. queue' \in Seq(Event)
  <2>1. "TIMEOUT_MASTER" \in EventTypes /\ NoNum \in 0..Garbled /\ FALSE \in BOOLEAN
    BY DEF EventTypes
  <2>2. Enqueue("TIMEOUT_MASTER", NoNum, FALSE)
    BY DEF MasterTimerFires
  <2> QED
    BY <2>1, <2>2, EnqueueType
<1>2. masterTimer' \in BOOLEAN
  BY DEF MasterTimerFires
<1>3. timeouts' \in 0..MaxTimeouts
  BY DEF TypeOK, MasterTimerFires
<1>4. UNCHANGED <<srv, masterState, workerVars, netVars, up, slave, crashes, userVars, file, spilled>>
  BY DEF MasterTimerFires
<1> QED
  BY <1>1, <1>2, <1>3, <1>4 DEF TypeOK, workerVars, netVars, userVars

LEMMA TakeEventType ==
  ASSUME TypeOK, NEW w \in Workers, TakeEvent(w)
  PROVE  TypeOK'
<1> DEFINE e == Head(queue)
           j1 == [job[w] EXCEPT !.num = e.num]
           j2 == [j1 EXCEPT !.unknown = e.unknown]
<1>1. queue # <<>> /\ queue \in Seq(Event) /\ e \in Event /\ Tail(queue) \in Seq(Event)
  <2>1. queue # <<>> /\ queue \in Seq(Event)
    BY DEF TypeOK, TakeEvent
  <2> QED
    BY <2>1, HeadTailProperties
<1>3. queue' \in Seq(Event)
  BY <1>1 DEF TakeEvent
<1>4. WorkersOK'
  <2>1. \/ UNCHANGED workerVars
        \/ masterState \in ServerStates /\ Go(w, "post", [job[w] EXCEPT !.st = masterState])
        \/ Multicast(w, Msg("ABORT", NoLine), "IDLE", "findAbort")
        \/ Go(w, Handler(e.type), j2)
    BY DEF TakeEvent, ServerStates
  <2>2. job[w] \in Job /\ e.num \in 0..Garbled /\ e.unknown \in BOOLEAN
    BY <1>1 DEF TypeOK, Event
  <2>3. j1 \in Job
    BY <2>2, SetJob
  <2> HIDE DEF j1
  <2>4. j2 \in Job
    BY <2>2, <2>3, SetJob
  <2> HIDE DEF j2
  <2>5. Handler(e.type) \in Labels
    BY DEF Handler, Labels
  <2>6. Msg("ABORT", NoLine) \in ToPeer /\ "IDLE" \in ServerStates /\ "findAbort" \in Labels
    BY DEF Msg, ToPeer, Line, NoLine, ServerStates, Labels
  <2>7. CASE UNCHANGED workerVars
    BY <2>7 DEF workerVars, WorkersOK, TypeOK
  <2>8. CASE Multicast(w, Msg("ABORT", NoLine), "IDLE", "findAbort")
    BY <2>6, <2>8, MulticastType
  <2>9. CASE Go(w, Handler(e.type), j2)
    BY <2>4, <2>5, <2>9, GoType
  <2>10. ASSUME masterState \in ServerStates, Go(w, "post", [job[w] EXCEPT !.st = masterState])
         PROVE  WorkersOK'
    <3>1. [job[w] EXCEPT !.st = masterState] \in Job /\ "post" \in Labels
      BY <2>2, <2>10, SetJob DEF Labels
    <3> QED
      BY <2>10, <3>1, GoType
  <2> QED
    BY <2>1, <2>7, <2>8, <2>9, <2>10
<1>5. UNCHANGED <<srv, masterState, masterTimer, netVars, peerVars, userVars, file, spilled>>
  BY DEF TakeEvent
<1> QED
  BY <1>3, <1>4, <1>5 DEF TypeOK, WorkersOK, netVars, peerVars, userVars

\* What the search loops of the event handlers come to.
LEMMA FoundType ==
  ASSUME TypeOK, NEW w \in Workers, NEW found \in Labels,
         \/ Go(w, "idle", Fresh)
         \/ \E u \in Users : Go(w, found, [job[w] EXCEPT !.usr = u])
  PROVE  WorkersOK'
<1>1. job[w] \in Job /\ "idle" \in Labels
  BY DEF TypeOK, Labels
<1>2. CASE Go(w, "idle", Fresh)
  BY <1>1, <1>2, FreshType, GoType
<1>3. CASE \E u \in Users : Go(w, found, [job[w] EXCEPT !.usr = u])
  <2>1. \A u \in Users : [job[w] EXCEPT !.usr = u] \in Job
    BY <1>1, SetJob
  <2> QED
    BY <1>3, <2>1, GoType
<1> QED
  BY <1>2, <1>3

LEMMA FindType ==
  ASSUME TypeOK, NEW w \in Workers,
         FindCommit(w) \/ FindAbort(w) \/ FindSave(w) \/ FindUndo(w)
  PROVE  TypeOK'
<1>1. {"commit", "refuse", "save", "undo"} \subseteq Labels
  BY DEF Labels
<1>2. \/ Go(w, "idle", Fresh)
      \/ \E u \in Users : Go(w, "commit", [job[w] EXCEPT !.usr = u])
      \/ \E u \in Users : Go(w, "refuse", [job[w] EXCEPT !.usr = u])
      \/ \E u \in Users : Go(w, "save", [job[w] EXCEPT !.usr = u])
      \/ \E u \in Users : Go(w, "undo", [job[w] EXCEPT !.usr = u])
  BY DEF FindCommit, FindAbort, FindSave, FindUndo, Find, FirstOf, Waiting
<1>3. WorkersOK'
  BY <1>1, <1>2, FoundType
<1>4. UNCHANGED <<sharedVars, netVars, peerVars, userVars, file, spilled>>
  BY DEF FindCommit, FindAbort, FindSave, FindUndo, Find
<1> QED
  BY <1>3, <1>4, WorkerOnly

LEMMA ClientType ==
  ASSUME TypeOK, NEW u \in Users
  PROVE  /\ client[u] \in Client /\ client[u].line \in Line
         /\ \A st \in UserStates : [client[u] EXCEPT !.state = st] \in Client
         /\ \A line \in Line : [client[u] EXCEPT !.line = line] \in Client
<1>1. client[u] \in Client
  BY DEF TypeOK
<1> QED
  BY <1>1 DEF Client

LEMMA CommitType ==
  ASSUME TypeOK, NEW w \in Workers, Commit(w)
  PROVE  TypeOK'
<1> DEFINE c == client[job[w].usr]
           kind == IF c.cmd = "WRITE" THEN "COMMIT WRITE" ELSE "COMMIT REPLACE"
<1>1. job[w].usr \in Users
  BY DEF TypeOK, Job
<1>2. c.line \in Line
  BY <1>1, ClientType
<1>3. Multicast(w, Msg(kind, c.line), "M_COMMITED", "waitSave")
  BY DEF Commit
<1>4. Msg(kind, c.line) \in ToPeer
  BY <1>2 DEF Msg, ToPeer
<1>5. "M_COMMITED" \in ServerStates /\ "waitSave" \in Labels
  BY DEF ServerStates, Labels
<1> HIDE DEF c, kind
<1>6. WorkersOK'
  BY <1>3, <1>4, <1>5, MulticastType
<1> QED
  BY <1>6, WorkerOnly DEF Commit

LEMMA WaitSaveType ==
  ASSUME TypeOK, NEW w \in Workers, WaitSave(w)
  PROVE  TypeOK'
<1>1. job[w] \in Job /\ job[w].usr \in Users
  BY DEF TypeOK, Job
<1>2. WorkersOK'
  BY <1>1, GoType DEF WaitSave, Labels
<1>3. client' \in [Users -> Client]
  <2>1. [client[job[w].usr] EXCEPT !.state = "U_WAITING_SAVE"] \in Client
    BY <1>1, ClientType DEF UserStates
  <2>2. client' = [client EXCEPT ![job[w].usr] =
                     [client[job[w].usr] EXCEPT !.state = "U_WAITING_SAVE"]]
    BY DEF WaitSave
  <2>3. client \in [Users -> Client]
    BY DEF TypeOK
  <2> QED
    BY <2>1, <2>2, <2>3, UpdateType
<1>4. UNCHANGED <<sharedVars, netVars, peerVars, msgNumber, last, verdict, issued, file, spilled>>
  BY DEF WaitSave
<1> QED
  BY <1>2, <1>3, <1>4 DEF TypeOK, WorkersOK, sharedVars, netVars, peerVars

\* An answer to the user, and then the record is cleared.
LEMMA AnswerStepType ==
  ASSUME TypeOK, NEW w \in Workers, NEW v \in Verdicts, NEW ret \in Labels,
         Answer(job[w].usr, v), Go(w, "clear", [job[w] EXCEPT !.ret = ret]),
         UNCHANGED <<sharedVars, netVars, peerVars, client, msgNumber, last, issued, file, spilled>>
  PROVE  TypeOK'
<1>1. job[w] \in Job /\ job[w].usr \in Users
  BY DEF TypeOK, Job
<1>2. WorkersOK'
  <2>1. [job[w] EXCEPT !.ret = ret] \in Job
    BY <1>1, SetJob
  <2>2. "clear" \in Labels
    BY DEF Labels
  <2> QED
    BY <2>1, <2>2, GoType
<1>3. verdict' \in [Cmds -> Seq(Verdicts)]
  BY <1>1, AnswerType
<1> QED
  BY <1>2, <1>3 DEF TypeOK, WorkersOK, sharedVars, netVars, peerVars

LEMMA RefuseReplyUndoType ==
  ASSUME TypeOK, NEW w \in Workers, Refuse(w) \/ Reply(w) \/ Undo(w)
  PROVE  TypeOK'
<1>1. {"findAbort", "findSave", "findUndo"} \subseteq Labels
  BY DEF Labels
<1>2. {"ERROR", "UNKNOWN"} \subseteq Verdicts
  BY DEF Verdicts
<1>3. CASE Refuse(w)
  BY <1>1, <1>2, <1>3, AnswerStepType DEF Refuse
<1>4. CASE Reply(w)
  <2>1. job[w].answer \in Verdicts
    BY DEF TypeOK, Job
  <2> QED
    BY <1>1, <1>4, <2>1, AnswerStepType DEF Reply
<1>5. CASE Undo(w)
  <2>1. \E v \in {"ERROR", "UNKNOWN"} : Answer(job[w].usr, v)
    BY <1>5 DEF Undo
  <2>2. Go(w, "clear", [job[w] EXCEPT !.ret = "findUndo"])
    BY <1>5 DEF Undo
  <2>3. UNCHANGED <<sharedVars, netVars, peerVars, client, msgNumber, last, issued, file, spilled>>
    BY <1>5 DEF Undo
  <2> QED
    BY <1>1, <1>2, <2>1, <2>2, <2>3, AnswerStepType
<1> QED
  BY <1>3, <1>4, <1>5

\* What a save leaves in the file, and tells the peers, is of the right type.
LEMMA SavedType ==
  ASSUME TypeOK, NEW w \in Workers, NEW f \in Seq(Line), NEW result \in Verdicts,
         Saved(w, f, result), spilled' \subseteq Servers
  PROVE  TypeOK'
<1> DEFINE j1 == [job[w] EXCEPT !.answer = result]
           m == Msg(IF result = "WROTE" THEN "END SUCCESS" ELSE "END UNSUCCESS",
                    Bare(job[w].num))
<1>1. job[w] \in Job /\ job[w].num \in 0..Garbled
  BY DEF TypeOK, Job
<1>2. file \in [Servers -> Seq(Line)] /\ Master \in Servers
  BY SMTT(30) DEF TypeOK
<1>3. /\ file' = [file EXCEPT ![Master] = f]
      /\ Go(w, "send", Sending(j1, m, "IDLE", "reply"))
  BY DEF Saved
<1>5. m \in ToPeer
  <2>1. Bare(job[w].num) \in Line
    BY <1>1 DEF Bare, Line
  <2> QED
    BY <2>1 DEF Msg, ToPeer
<1>6. j1 \in Job
  BY <1>1, SetJob
<1>7. {"send", "reply"} \subseteq Labels /\ "IDLE" \in ServerStates
  BY DEF Labels, ServerStates
<1> HIDE DEF m, j1
<1>8. WorkersOK'
  <2>1. Sending(j1, m, "IDLE", "reply") \in Job
    BY <1>5, <1>6, <1>7, SendingType
  <2> QED
    BY <1>3, <1>7, <2>1, GoType
<1>9. file' \in [Servers -> Seq(Line)]
  BY <1>2, <1>3, UpdateType
<1>10. UNCHANGED <<sharedVars, netVars, peerVars, userVars>>
  BY DEF Saved
<1> QED
  BY <1>8, <1>9, <1>10 DEF TypeOK, WorkersOK, sharedVars, netVars, peerVars, userVars

\* The command that a worker saves.
LEMMA CommandLine ==
  ASSUME TypeOK, NEW w \in Workers
  PROVE  client[job[w].usr].line \in Line
<1>1. job[w].usr \in Users
  BY DEF TypeOK, Job
<1> QED
  BY <1>1, ClientType

LEMMA SaveType ==
  ASSUME TypeOK, NEW w \in Workers, Save(w)
  PROVE  TypeOK'
<1> DEFINE c == client[job[w].usr]
<1>1. c.line \in Line
  BY CommandLine
<1>2. file[Master] \in Seq(Line)
  BY DEF TypeOK
<1>3. PICK r \in SaveResults(file[Master], c.cmd, c.line) : Saved(w, r.file, r.result)
  BY DEF Save
<1> HIDE DEF c
<1>4. r.file \in Seq(Line) /\ r.result \in Verdicts
  BY <1>1, <1>2, SaveResultsType
<1>5. spilled' \subseteq Servers
  BY DEF Save, TypeOK
<1> QED
  BY <1>3, <1>4, <1>5, SavedType

LEMMA SaveSpillsType ==
  ASSUME TypeOK, NEW w \in Workers, SaveSpills(w)
  PROVE  TypeOK'
<1> DEFINE c == client[job[w].usr]
<1>1. c.line \in Line
  BY CommandLine
<1>2. <<c.line>> \in Seq(Line) /\ <<c.line>> # <<>>
  BY <1>1
<1>3. PICK f \in Spills(Master, c.cmd, <<c.line>>) : Saved(w, f, "WROTE")
  BY DEF SaveSpills
<1> HIDE DEF c
<1>4. f \in Seq(Line)
  <2>1. Master \in Servers
    OBVIOUS
  <2> QED
    BY <1>2, <1>3, <2>1, SpillsType, Zenon
<1>5. spilled' \subseteq Servers
  BY DEF SaveSpills, TypeOK
<1>6. "WROTE" \in Verdicts
  BY DEF Verdicts
<1> QED
  BY <1>3, <1>4, <1>5, <1>6, SavedType

LEMMA ClearType ==
  ASSUME TypeOK, NEW w \in Workers, Clear(w)
  PROVE  TypeOK'
<1>1. job[w] \in Job /\ job[w].usr \in Users /\ job[w].num \in 0..Garbled
      /\ job[w].ret \in Labels
  BY DEF TypeOK, Job
<1>2. WorkersOK'
  <2>1. \/ Multicast(w, Msg("END UNSUCCESS", Bare(job[w].num)), "IDLE", "findUndo")
        \/ Go(w, job[w].ret, job[w])
    BY DEF Clear
  <2>2. Bare(job[w].num) \in Line
    BY <1>1 DEF Bare, Line
  <2>3. Msg("END UNSUCCESS", Bare(job[w].num)) \in ToPeer
    BY <2>2 DEF Msg, ToPeer
  <2>4. "IDLE" \in ServerStates /\ "findUndo" \in Labels
    BY DEF Labels, ServerStates
  <2> QED
    BY <1>1, <2>1, <2>3, <2>4, MulticastType, GoType
<1>3. client' \in [Users -> Client]
  <2> DEFINE u == job[w].usr
             c1 == [client[u] EXCEPT !.state = "IDLE"]
             c2 == [c1 EXCEPT !.line = NoLine]
  <2>1. c1 \in Client
    BY <1>1, ClientType DEF UserStates
  <2>2. NoLine \in Line
    BY DEF NoLine, Line
  <2> HIDE DEF c1
  <2>3. c2 \in Client
    BY <2>1, <2>2 DEF Client
  <2>4. client' = [client EXCEPT ![u] = c2]
    BY <1>1 DEF Clear, c1, TypeOK
  <2> HIDE DEF c2
  <2> QED
    BY <2>3, <2>4, UpdateType DEF TypeOK
<1>4. UNCHANGED <<sharedVars, netVars, peerVars, msgNumber, last, verdict, issued, file, spilled>>
  BY DEF Clear
<1> QED
  BY <1>2, <1>3, <1>4 DEF TypeOK, WorkersOK, sharedVars, netVars, peerVars

LEMMA TellType ==
  ASSUME TypeOK, NEW p \in Peers, NEW kind \in {"ACK", "SUCCESS", "UNSUCCESS", "UNKNOWN"},
         NEW num \in 0..Garbled, Tell(p, kind, num)
  PROVE  toMaster' \in [Peers -> Seq(ToMaster)]
<1>1. [kind |-> kind, num |-> num] \in ToMaster
  BY DEF ToMaster
<1>2. toMaster \in [Peers -> Seq(ToMaster)] /\ toMaster[p] \in Seq(ToMaster)
  BY DEF TypeOK
<1>3. Append(toMaster[p], [kind |-> kind, num |-> num]) \in Seq(ToMaster)
  BY <1>1, <1>2, AppendProperties
<1> QED
  BY <1>2, <1>3, UpdateType DEF Tell

LEMMA ReceivedType ==
  ASSUME TypeOK, NEW p \in Peers, NEW k \in 1..MaxRecv, k <= Len(toPeer[p]), Received(p, k)
  PROVE  toPeer' \in [Peers -> Seq(ToPeer)]
<1>1. toPeer \in [Peers -> Seq(ToPeer)] /\ toPeer[p] \in Seq(ToPeer)
  BY DEF TypeOK
<1>2. SubSeq(toPeer[p], k + 1, Len(toPeer[p])) \in Seq(ToPeer)
  BY <1>1, SubSeqType, LenProperties
<1> QED
  BY <1>1, <1>2, UpdateType DEF Received

\* The message a peer reads.
LEMMA HeadType ==
  ASSUME TypeOK, NEW p \in Peers, NEW k \in 1..MaxRecv, k <= Len(toPeer[p])
  PROVE  Head(toPeer[p]) \in ToPeer
<1>1. toPeer[p] \in Seq(ToPeer)
  BY DEF TypeOK
<1>2. toPeer[p] # <<>>
  BY <1>1
<1> QED
  BY <1>1, <1>2, HeadTailProperties

LEMMA DiesType ==
  ASSUME TypeOK, NEW p \in Peers, Dies(p)
  PROVE  /\ up' \in [Peers -> BOOLEAN] /\ slave' \in [Peers -> SlaveStates]
         /\ conn' \in [Peers -> Connections]
         /\ toPeer' \in [Peers -> Seq(ToPeer)] /\ toMaster' \in [Peers -> Seq(ToMaster)]
<1>1. up' \in [Peers -> BOOLEAN]
  BY DEF Dies, TypeOK
<1>2. slave' \in [Peers -> SlaveStates]
  BY DEF Dies, TypeOK, SlaveStates
<1>3. conn' \in [Peers -> Connections]
  <2>1. conn \in [Peers -> Connections]
    BY DEF TypeOK
  <2>2. \E c \in Connections : conn' = [conn EXCEPT ![p] = c]
    BY <2>1 DEF Dies, Connections
  <2> QED
    BY <2>1, <2>2, UpdateType
<1>4. toPeer' \in [Peers -> Seq(ToPeer)]
  <2>1. toPeer \in [Peers -> Seq(ToPeer)] /\ <<>> \in Seq(ToPeer)
    BY DEF TypeOK
  <2> QED
    BY <2>1, UpdateType DEF Dies
<1>5. toMaster' \in [Peers -> Seq(ToMaster)]
  <2>1. toMaster \in [Peers -> Seq(ToMaster)] /\ toMaster[p] \in Seq(ToMaster)
    BY DEF TypeOK
  <2>2. PICK k \in 0..Len(toMaster[p]) :
          toMaster' = [toMaster EXCEPT ![p] = SubSeq(toMaster[p], 1, k)]
    BY DEF Dies
  <2>3. SubSeq(toMaster[p], 1, k) \in Seq(ToMaster)
    BY <2>1, SubSeqType, LenProperties
  <2> QED
    BY <2>1, <2>2, <2>3, UpdateType
<1> QED
  BY <1>1, <1>2, <1>3, <1>4, <1>5

LEMMA PeerPrecommitType ==
  ASSUME TypeOK, NEW p \in Peers, NEW k \in 1..MaxRecv, PeerPrecommit(p, k)
  PROVE  TypeOK'
<1>1. toPeer' \in [Peers -> Seq(ToPeer)]
  BY ReceivedType DEF PeerPrecommit, MayRecv
<1>2. \/ UNCHANGED <<slave, toMaster>>
      \/ slave' = [slave EXCEPT ![p] = "IDLE"] /\ toMaster' = toMaster
      \/ slave' = [slave EXCEPT ![p] = "S_PRECOMMIT_ACK"] /\ Tell(p, "ACK", NoNum)
  BY DEF PeerPrecommit
<1>3. slave' \in [Peers -> SlaveStates]
  BY <1>2 DEF TypeOK, SlaveStates
<1>4. toMaster' \in [Peers -> Seq(ToMaster)]
  <2>1. CASE toMaster' = toMaster
    BY <2>1 DEF TypeOK
  <2>2. CASE Tell(p, "ACK", NoNum)
    BY <2>2, TellType
  <2> QED
    BY <1>2, <2>1, <2>2
<1>5. UNCHANGED <<sharedVars, workerVars, conn, up, crashes, timeouts, userVars, file, spilled>>
  BY DEF PeerPrecommit
<1> QED
  BY <1>1, <1>3, <1>4, <1>5 DEF TypeOK, sharedVars, workerVars, userVars

LEMMA RestType ==
  ASSUME NEW k \in 1..MaxRecv
  PROVE  Rest(k) \in Seq(Line)
<1>1. Junk \in Line /\ k - 1 \in Nat
  BY DEF Junk, Bare, Line
<1> QED
  BY <1>1 DEF Rest

\* A message and what was received behind it.
LEMMA MergedType ==
  ASSUME NEW line \in Line, NEW k \in 1..MaxRecv
  PROVE  <<line>> \o Rest(k) \in Seq(Line) /\ <<line>> \o Rest(k) # <<>>
<1>1. Rest(k) \in Seq(Line) /\ <<line>> \in Seq(Line) /\ Len(<<line>>) = 1
  BY RestType
<1>2. <<line>> \o Rest(k) \in Seq(Line) /\ Len(<<line>> \o Rest(k)) = 1 + Len(Rest(k))
  BY <1>1, ConcatProperties
<1> QED
  BY <1>1, <1>2, LenProperties

LEMMA CommittedType ==
  ASSUME TypeOK, NEW p \in Peers, NEW k \in 1..MaxRecv, MayRecv(p, k),
         NEW f \in Seq(Line), NEW result, Committed(p, k, f, result),
         UNCHANGED <<sharedVars, workerVars, crashes, timeouts, userVars>>,
         spilled' \subseteq Servers
  PROVE  TypeOK'
<1> USE DEF Committed
<1>1. Head(toPeer[p]).line.num \in 0..Garbled
  <2>1. Head(toPeer[p]) \in ToPeer
    BY HeadType DEF MayRecv
  <2> QED
    BY <2>1 DEF ToPeer, Line
<1>2. file' \in [Servers -> Seq(Line)]
  <2>1. file \in [Servers -> Seq(Line)]
    BY DEF TypeOK
  <2> QED
    BY <2>1, UpdateType
<1>3. slave' \in [Peers -> SlaveStates]
  BY DEF TypeOK, SlaveStates
<1>4. toMaster' \in [Peers -> Seq(ToMaster)]
  <2>1. AnswerTo(result) \in {"ACK", "SUCCESS", "UNSUCCESS", "UNKNOWN"}
    BY DEF AnswerTo
  <2> QED
    BY <1>1, <2>1, TellType
<1>5. toPeer' \in [Peers -> Seq(ToPeer)]
  BY ReceivedType DEF MayRecv
<1> QED
  BY <1>2, <1>3, <1>4, <1>5 DEF TypeOK, sharedVars, workerVars, userVars

LEMMA PeerCommitType ==
  ASSUME TypeOK, NEW p \in Peers, NEW k \in 1..MaxRecv, PeerCommit(p, k)
  PROVE  TypeOK'
<1> DEFINE m == Head(toPeer[p])
           cmd == CmdOf(m)
<1>1. m \in ToPeer /\ m.line \in Line
  <2>1. m \in ToPeer
    BY HeadType DEF PeerCommit, MayRecv
  <2> QED
    BY <2>1 DEF ToPeer
<1>2. /\ UNCHANGED <<sharedVars, workerVars, crashes, timeouts, userVars, spilled>>
      /\ MayRecv(p, k)
  BY DEF PeerCommit
<1>3. spilled' \subseteq Servers
  BY <1>2 DEF TypeOK
<1>4. CASE Dies(p) /\ UNCHANGED file
  BY <1>2, <1>4, DiesType DEF TypeOK, sharedVars, workerVars, userVars
<1>5. ASSUME NEW r \in SaveResults(file[p], cmd, m.line),
             Committed(p, k, r.file \o (IF r.result = "WROTE" THEN Rest(k) ELSE <<>>), r.result)
      PROVE  TypeOK'
  <2> HIDE DEF m, cmd
  <2>1. file[p] \in Seq(Line)
    BY DEF TypeOK
  <2>2. r.file \in Seq(Line)
    BY <1>1, <2>1, SaveResultsType
  <2>3. Rest(k) \in Seq(Line) /\ <<>> \in Seq(Line)
    BY RestType
  <2>4. r.file \o (IF r.result = "WROTE" THEN Rest(k) ELSE <<>>) \in Seq(Line)
    BY <2>2, <2>3, ConcatProperties
  <2> QED
    BY <1>2, <1>3, <1>5, <2>4, CommittedType
<1> QED
  BY <1>4, <1>5 DEF PeerCommit

LEMMA PeerCommitSpillsType ==
  ASSUME TypeOK, NEW p \in Peers, NEW k \in 1..MaxRecv, PeerCommitSpills(p, k)
  PROVE  TypeOK'
<1> DEFINE m == Head(toPeer[p])
<1>1. /\ UNCHANGED <<sharedVars, workerVars, crashes, timeouts, userVars>>
      /\ MayRecv(p, k) /\ spilled' = spilled \cup {p}
  BY Zenon DEF PeerCommitSpills
<1>1a. p \in Servers
  OBVIOUS
<1>2. spilled' \subseteq Servers
  BY <1>1, <1>1a DEF TypeOK
<1>3. PICK f \in Spills(p, CmdOf(m), <<m.line>> \o Rest(k)) : Committed(p, k, f, "WROTE")
  BY DEF PeerCommitSpills
<1>4. m.line \in Line
  <2>1. m \in ToPeer
    BY <1>1, HeadType DEF MayRecv
  <2> QED
    BY <2>1 DEF ToPeer
<1>5. <<m.line>> \o Rest(k) \in Seq(Line) /\ <<m.line>> \o Rest(k) # <<>>
  BY <1>4, MergedType
<1> HIDE DEF m
<1>6. f \in Seq(Line)
  BY <1>1a, <1>3, <1>5, SpillsType
<1> QED
  BY <1>1, <1>2, <1>3, <1>6, CommittedType

LEMMA PeerRefusesType ==
  ASSUME TypeOK, NEW p \in Peers, NEW k \in 1..MaxRecv, PeerRefuses(p, k)
  PROVE  TypeOK'
<1>1. toPeer' \in [Peers -> Seq(ToPeer)]
  BY ReceivedType DEF PeerRefuses, MayRecv
<1> QED
  BY <1>1 DEF PeerRefuses, TypeOK, sharedVars, workerVars, peerVars, userVars

LEMMA PeerEndType ==
  ASSUME TypeOK, NEW p \in Peers, NEW k \in 1..MaxRecv, PeerEnd(p, k)
  PROVE  TypeOK'
<1>1. toPeer' \in [Peers -> Seq(ToPeer)]
  BY ReceivedType DEF PeerEnd, MayRecv
<1>2. slave' \in [Peers -> SlaveStates]
  BY DEF PeerEnd, TypeOK, SlaveStates
<1> QED
  BY <1>1, <1>2 DEF PeerEnd, TypeOK, sharedVars, workerVars, userVars

\* A peer's timer, end and start.
LEMMA PeerLifeType ==
  ASSUME TypeOK, NEW p \in Peers, SlaveTimeout(p) \/ PeerCrash(p) \/ PeerStart(p)
  PROVE  TypeOK'
<1>1. CASE SlaveTimeout(p)
  <2>1. slave' \in [Peers -> SlaveStates] /\ timeouts' \in 0..MaxTimeouts
    BY <1>1 DEF SlaveTimeout, TypeOK, SlaveStates
  <2> QED
    BY <1>1, <2>1 DEF SlaveTimeout, TypeOK, sharedVars, workerVars, netVars, userVars
<1>2. CASE PeerCrash(p)
  <2>1. Dies(p) /\ UNCHANGED <<sharedVars, workerVars, timeouts, userVars, file, spilled>>
    BY <1>2 DEF PeerCrash
  <2>2. crashes' \in 0..MaxCrashes
    BY <1>2 DEF PeerCrash, TypeOK
  <2> QED
    BY <2>1, <2>2, DiesType DEF TypeOK, sharedVars, workerVars, userVars
<1>3. CASE PeerStart(p)
  <2>1. up' \in [Peers -> BOOLEAN]
    BY <1>3 DEF PeerStart, TypeOK
  <2> QED
    BY <1>3, <2>1 DEF PeerStart, TypeOK, sharedVars, workerVars, netVars, userVars
<1> QED
  BY <1>1, <1>2, <1>3

\* A user's command takes the number after the last one, or one of Nums.
LEMMA CommandType ==
  ASSUME TypeOK, NEW w \in Workers, Command(w)
  PROVE  TypeOK'
<1>1. PICK u \in Users : SubmitWrite(w, u) \/ \E num \in Nums : SubmitReplace(w, u, num)
  BY DEF Command
<1>2. msgNumber \in 0..issued /\ issued \in 0..MaxCmds
  BY DEF TypeOK
<1>3. CASE SubmitWrite(w, u)
  <2>1. msgNumber' = msgNumber + 1 /\ Submit(w, u, "WRITE", msgNumber')
    BY <1>3 DEF SubmitWrite
  <2>2. msgNumber' \in 0..(issued + 1) /\ (issued < MaxCmds => msgNumber' \in Nums)
    BY <1>2, <2>1
  <2> QED
    BY <2>1, <2>2, SubmitType
<1>4. ASSUME NEW num \in Nums, SubmitReplace(w, u, num) PROVE TypeOK'
  <2>1. msgNumber' = msgNumber /\ Submit(w, u, "REPLACE", num)
    BY <1>4 DEF SubmitReplace
  <2>2. msgNumber' \in 0..(issued + 1)
    BY <1>2, <2>1
  <2> QED
    BY <2>1, <2>2, SubmitType
<1> QED
  BY <1>1, <1>3, <1>4

-----------------------------------------------------------------------------
(* The specification *)

LEMMA NextType == TypeOK /\ [Next]_vars => TypeOK'
<1> SUFFICES ASSUME TypeOK, [Next]_vars PROVE TypeOK'
  OBVIOUS
<1>1. ASSUME NEW w \in Workers, Step(w) PROVE TypeOK'
  BY <1>1, ConnectType, LinkType, ConnectedType, SendType, MarkType, CheckType, SetMasterType,
     PostType, NoteType, OnceType, TakeEventType, FindType, CommitType, WaitSaveType,
     RefuseReplyUndoType, SaveType, ClearType DEF Step
<1>2. ASSUME NEW w \in Workers, Receive(w) PROVE TypeOK'
  BY <1>2, RecvReplyType, PeerClosedType DEF Receive
<1>3. ASSUME NEW w \in Workers, Command(w) PROVE TypeOK'
  BY <1>3, CommandType
<1>4. CASE MasterTimerFires
  BY <1>4, MasterTimerFiresType
<1>5. ASSUME NEW p \in Peers, PeerRecv(p) PROVE TypeOK'
  BY <1>5, PeerPrecommitType, PeerCommitType, PeerRefusesType, PeerEndType DEF PeerRecv
<1>6. ASSUME NEW p \in Peers, SlaveTimeout(p) \/ PeerCrash(p) \/ PeerStart(p) PROVE TypeOK'
  BY <1>6, PeerLifeType
<1>7. CASE Spilling
  BY <1>7, SaveSpillsType, PeerCommitSpillsType DEF Spilling
<1>8. CASE UNCHANGED vars
  BY <1>8 DEF vars, sharedVars, workerVars, netVars, peerVars, userVars, TypeOK
<1> QED
  BY <1>1, <1>2, <1>3, <1>4, <1>5, <1>6, <1>7, <1>8 DEF Next, Exchange

\* However many peers, users, workers and events there are, every variable
\* stays in its type: the workers' program counters and local variables, the
\* records they share and the messages and events under way.
THEOREM TypeCorrect == Spec => []TypeOK
BY InitType, NextType, PTL DEF Spec

-----------------------------------------------------------------------------
(* The inductive invariant *)

\* A file with a line of every number.
Every == [i \in 1..(Garbled + 1) |-> Bare(i - 1)]

\* What is known of the files, in a form that a step can only make truer: once a
\* REPLACE has run over other lines any file with a line may have had any number.
View(f, S) == [s \in Servers |-> IF S = {} \/ f[s] = <<>> THEN f[s] ELSE Every]
Shown == View(file, spilled)

Full(f, p) == f[p] # <<>>
AllFull(f) == \A p \in Peers : Full(f, p)
Backing(f, num) == num \in Nums => \E p \in Peers : Found(f[p], num) # {}

\* Every server keeps its numbers, and no file becomes empty.
Kept(f, g) == \A s \in Servers :
  /\ f[s] # <<>> => g[s] # <<>>
  /\ \A num \in Nums : Found(f[s], num) # {} => Found(g[s], num) # {}

\* A success answer on its way: its peer has stored the number it names.
AnswerBacked(f, p, m) == m.kind = "SUCCESS" =>
  Full(f, p) /\ (m.num \in Nums => Found(f[p], m.num) # {})

EventBacked(f, e) == e.type = "COMMIT_SUCCESS" => AllFull(f) /\ Backing(f, e.num)

\* Where the functions shared by all callers return to.
Returns == {"idle", "connected", "waitSave", "findAbort", "findSave", "reply", "findUndo"}

\* The labels of the functions that a worker calls and returns from.
Called == {"send", "mark", "check", "master"}

\* A worker that starts on an answer has nowhere to return to, one that has sent
\* COMMIT or END does return, and one that clears a record to its handler.
Returning(l, j) ==
  /\ j.ret \in Returns
  /\ l \in {"idle", "note", "once"} => j.ret = "idle"
  /\ l \in Called /\ j.ret \in {"waitSave", "reply"} => j.st \notin ReplyStates
  /\ l = "clear" => j.ret \in {"findAbort", "findSave", "findUndo"}

\* A worker at label l with local variables j: as far as it has found the peers
\* in the state PERFORMED they have stored something, and the number it saves
\* is one that a peer has stored.
Backed(f, l, j) ==
  /\ Returning(l, j)
  /\ l \in {"send", "mark", "once"} => j.st # "M_OPERATION_PERFORMED"
  /\ j.st = "M_OPERATION_PERFORMED" =>
       /\ l = "note" => j.idx \in Peers /\ Full(f, j.idx)
       /\ l = "check" => \A p \in Peers : p < j.idx => Full(f, p)
       /\ l \in {"master", "post"} => AllFull(f)
       /\ l \in {"note", "check", "master", "post"} => Backing(f, j.num)
  /\ l \in {"findSave", "save", "reply"} \/ j.ret \in {"findSave", "reply"}
       => AllFull(f) /\ Backing(f, j.num)

WorkersBacked == \A w \in Workers : Backed(Shown, pc[w], job[w])
StatesBacked  == \A p \in Peers : srv[p] = "M_OPERATION_PERFORMED" => Full(Shown, p)
AnswersBacked == \A p \in Peers : \A i \in DOMAIN toMaster[p] :
  AnswerBacked(Shown, p, toMaster[p][i])
EventsBacked  == \A i \in DOMAIN queue : EventBacked(Shown, queue[i])
SpilledFull   == \A s \in spilled : file[s] # <<>>

Inv == /\ TypeOK
       /\ WorkersBacked /\ StatesBacked /\ AnswersBacked /\ EventsBacked
       /\ SpilledFull
       /\ PeersFirst

-----------------------------------------------------------------------------
(* The files only gain *)

LEMMA SaveResultsKept ==
  ASSUME NEW f \in Seq(Line), NEW cmd, NEW line \in Line,
         NEW r \in SaveResults(f, cmd, line)
  PROVE  /\ \A i \in DOMAIN f : i \in DOMAIN r.file /\ r.file[i].num = f[i].num
         /\ r.result = "WROTE" => Found(r.file, line.num) # {}
<1>1. CASE r = [file |-> f, result |-> "ERROR"]
  BY <1>1
<1>2. CASE r = [file |-> Append(f, line), result |-> "WROTE"]
  <2>1. /\ DOMAIN Append(f, line) = 1..(Len(f) + 1) /\ DOMAIN f = 1..Len(f)
        /\ Append(f, line)[Len(f) + 1] = line
        /\ \A i \in 1..Len(f) : Append(f, line)[i] = f[i]
    BY AppendProperties, LenProperties
  <2>2. Len(f) + 1 \in Found(Append(f, line), line.num)
    BY <2>1, LenProperties DEF Found
  <2> QED
    BY <1>2, <2>1, <2>2
<1>3. CASE r = [file |-> f, result |-> "UNKNOWN"]
  BY <1>3
<1>4. CASE \E i \in Found(f, line.num) :
             r = [file |-> [f EXCEPT ![i] = line], result |-> "WROTE"]
  <2>1. PICK i \in Found(f, line.num) :
          r = [file |-> [f EXCEPT ![i] = line], result |-> "WROTE"]
    BY <1>4
  <2> DEFINE g == [f EXCEPT ![i] = line]
  <2>2. DOMAIN g = DOMAIN f /\ g[i] = line /\ i \in DOMAIN f /\ f[i].num = line.num
    BY <2>1 DEF Found
  <2>3. \A k \in DOMAIN f : k # i => g[k] = f[k]
    OBVIOUS
  <2>4. i \in Found(g, line.num)
    BY <2>2 DEF Found
  <2> HIDE DEF g
  <2> QED
    BY <2>1, <2>2, <2>3, <2>4 DEF g
<1> QED
  BY <1>1, <1>2, <1>3, <1>4 DEF SaveResults, FirstOf

LEMMA EveryFacts == Every # <<>> /\ \A num \in Nums : Found(Every, num) # {}
<1>1. /\ DOMAIN Every = 1..(Garbled + 1)
      /\ \A i \in 1..(Garbled + 1) : Every[i].num = i - 1
  BY DEF Every, Bare
<1> HIDE DEF Every
<1>2. 1 \in DOMAIN Every
  BY <1>1
<1>3. ASSUME NEW num \in Nums PROVE num + 1 \in Found(Every, num)
  BY <1>1 DEF Found
<1> QED
  BY <1>2, <1>3, EmptySeq

LEMMA ViewFacts ==
  ASSUME NEW f, NEW S
  PROVE  /\ \A s \in Servers : View(f, S)[s] = <<>> <=> f[s] = <<>>
         /\ S = {} => \A s \in Servers : View(f, S)[s] = f[s]
         /\ S # {} => \A s \in Servers : f[s] # <<>> => View(f, S)[s] = Every
BY EveryFacts DEF View

LEMMA ShownFacts ==
  /\ AllFull(Shown) <=> \A p \in Peers : file[p] # <<>>
  /\ \A p \in Peers : Full(Shown, p) <=> file[p] # <<>>
<1>1. Peers \subseteq Servers
  OBVIOUS
<1> QED
  BY <1>1, ViewFacts DEF Shown, Full, AllFull

LEMMA ViewKept ==
  ASSUME NEW f, NEW g, NEW S, NEW T, S \subseteq T,
         \A s \in Servers : f[s] # <<>> => g[s] # <<>>,
         T = {} => \A s \in Servers : \A num \in Nums :
                     Found(f[s], num) # {} => Found(g[s], num) # {}
  PROVE  Kept(View(f, S), View(g, T))
<1>1. SUFFICES ASSUME NEW s \in Servers
               PROVE  /\ View(f, S)[s] # <<>> => View(g, T)[s] # <<>>
                      /\ \A num \in Nums : Found(View(f, S)[s], num) # {} =>
                                           Found(View(g, T)[s], num) # {}
  BY DEF Kept
<1>2. View(f, S)[s] # <<>> => View(g, T)[s] # <<>>
  BY ViewFacts
<1>3. CASE T = {}
  <2>1. View(f, S)[s] = f[s] /\ View(g, T)[s] = g[s]
    BY <1>3, ViewFacts
  <2> QED
    BY <1>2, <1>3, <2>1
<1>4. CASE T # {}
  <2>1. ASSUME NEW num \in Nums, Found(View(f, S)[s], num) # {}
        PROVE  Found(View(g, T)[s], num) # {}
    <3>1. View(f, S)[s] # <<>>
      <4>1. DOMAIN <<>> = {}
        OBVIOUS
      <4> QED
        BY <2>1, <4>1 DEF Found
    <3>2. g[s] # <<>>
      BY <3>1, ViewFacts
    <3>3. View(g, T)[s] = Every
      BY <1>4, <3>2, ViewFacts
    <3> QED
      BY <3>3, EveryFacts
  <2> QED
    BY <1>2, <2>1
<1> QED
  BY <1>3, <1>4

LEMMA SameKept ==
  ASSUME UNCHANGED <<file, spilled>>
  PROVE  Shown' = Shown /\ Kept(Shown, Shown')
BY DEF Shown, Kept

LEMMA SavedKept ==
  ASSUME TypeOK, NEW s \in Servers, NEW g \in Seq(Line),
         \A i \in DOMAIN file[s] : i \in DOMAIN g /\ g[i].num = file[s][i].num,
         file' = [file EXCEPT ![s] = g], UNCHANGED spilled
  PROVE  /\ Kept(Shown, Shown')
         /\ \A t \in Servers : file[t] # <<>> => file'[t] # <<>>
<1>1. file \in [Servers -> Seq(Line)] /\ file[s] \in Seq(Line)
  BY DEF TypeOK
<1>2. \A t \in Servers : file'[t] = IF t = s THEN g ELSE file[t]
  BY <1>1
<1>3. file[s] # <<>> => g # <<>>
  <2>1. file[s] # <<>> => 1 \in DOMAIN file[s]
    BY <1>1, LenProperties, EmptySeq
  <2>2. g = <<>> => 1 \notin DOMAIN g
    OBVIOUS
  <2> QED
    BY <2>1, <2>2
<1>4. \A num : Found(file[s], num) # {} => Found(g, num) # {}
  BY DEF Found
<1>5. /\ \A t \in Servers : file[t] # <<>> => file'[t] # <<>>
      /\ \A t \in Servers : \A num \in Nums :
           Found(file[t], num) # {} => Found(file'[t], num) # {}
  BY <1>2, <1>3, <1>4
<1> QED
  BY <1>5, ViewKept DEF Shown

LEMMA SpillKept ==
  ASSUME TypeOK, NEW s \in Servers, NEW g, file[s] # <<>> => g # <<>>,
         file' = [file EXCEPT ![s] = g], spilled' = spilled \cup {s}
  PROVE  /\ Kept(Shown, Shown')
         /\ \A t \in Servers : file[t] # <<>> => file'[t] # <<>>
<1>1. file \in [Servers -> Seq(Line)]
  BY DEF TypeOK
<1>2. \A t \in Servers : file[t] # <<>> => file'[t] # <<>>
  BY <1>1
<1>3. spilled \subseteq spilled' /\ spilled' # {}
  OBVIOUS
<1> QED
  BY <1>2, <1>3, ViewKept DEF Shown

LEMMA SpilledFullKept ==
  ASSUME SpilledFull, TypeOK, UNCHANGED spilled,
         \A t \in Servers : file[t] # <<>> => file'[t] # <<>>
  PROVE  SpilledFull'
BY DEF SpilledFull, TypeOK

\* What a worker, an answer or an event relies on stays true.
LEMMA KeptFacts ==
  ASSUME Kept(Shown, Shown')
  PROVE  /\ \A p \in Peers : Full(Shown, p) => Full(Shown', p)
         /\ \A s \in Servers : \A num \in Nums :
              Found(Shown[s], num) # {} => Found(Shown'[s], num) # {}
         /\ AllFull(Shown) => AllFull(Shown')
         /\ \A num : Backing(Shown, num) => Backing(Shown', num)
<1>1. Peers \subseteq Servers
  OBVIOUS
<1>2. \A p \in Peers : Full(Shown, p) => Full(Shown', p)
  BY <1>1 DEF Kept, Full
<1>3. \A s \in Servers : \A num \in Nums : Found(Shown[s], num) # {} => Found(Shown'[s], num) # {}
  BY DEF Kept
<1>4. ASSUME NEW num, Backing(Shown, num) PROVE Backing(Shown', num)
  BY <1>1, <1>3, <1>4 DEF Backing
<1> QED
  BY <1>2, <1>3, <1>4 DEF AllFull

\* The two kinds of saving, by the master or a peer.
LEMMA SaveResultsSaved ==
  ASSUME TypeOK, NEW s \in Servers, NEW cmd, NEW line \in Line,
         NEW r \in SaveResults(file[s], cmd, line), NEW more \in Seq(Line),
         file' = [file EXCEPT ![s] = r.file \o more], UNCHANGED spilled
  PROVE  /\ Kept(Shown, Shown')
         /\ \A t \in Servers : file[t] # <<>> => file'[t] # <<>>
         /\ r.result = "WROTE" => Found(file'[s], line.num) # {} /\ file'[s] # <<>>
<1>1. file \in [Servers -> Seq(Line)] /\ file[s] \in Seq(Line)
  BY DEF TypeOK
<1>2. r.file \in Seq(Line)
  BY <1>1, SaveResultsType
<1> DEFINE g == r.file \o more
<1>3. g \in Seq(Line) /\ \A i \in DOMAIN r.file : i \in DOMAIN g /\ g[i] = r.file[i]
  BY <1>2, ConcatProperties, LenProperties
<1>4. file' = [file EXCEPT ![s] = g]
  OBVIOUS
<1> HIDE DEF g
<1>5. /\ \A i \in DOMAIN file[s] : i \in DOMAIN r.file /\ r.file[i].num = file[s][i].num
      /\ r.result = "WROTE" => Found(r.file, line.num) # {}
  BY <1>1, SaveResultsKept
<1>6. \A i \in DOMAIN file[s] : i \in DOMAIN g /\ g[i].num = file[s][i].num
  BY <1>3, <1>5
<1>7. /\ Kept(Shown, Shown')
      /\ \A t \in Servers : file[t] # <<>> => file'[t] # <<>>
  BY <1>3, <1>4, <1>6, SavedKept
<1>8. ASSUME r.result = "WROTE" PROVE Found(g, line.num) # {} /\ g # <<>>
  <2>1. PICK i \in DOMAIN r.file : r.file[i].num = line.num
    BY <1>5, <1>8 DEF Found
  <2>2. i \in DOMAIN g /\ g[i].num = line.num
    BY <1>3, <2>1
  <2>3. g # <<>>
    BY <2>2
  <2> QED
    BY <2>2, <2>3 DEF Found
<1>9. file'[s] = g
  BY <1>1, <1>4
<1> QED
  BY <1>7, <1>8, <1>9

\* A server that has seen a spill has every number, as far as is known.
LEMMA SpillsSaved ==
  ASSUME TypeOK, SpilledFull, NEW s \in Servers, NEW cmd, NEW lines \in Seq(Line),
         lines # <<>>, NEW g \in Spills(s, cmd, lines),
         file' = [file EXCEPT ![s] = g], spilled' = spilled \cup {s}
  PROVE  /\ Kept(Shown, Shown')
         /\ SpilledFull'
         /\ \A num \in Nums : Found(Shown'[s], num) # {}
         /\ file'[s] # <<>>
<1>1. (file[s] # <<>> => g # <<>>) /\ (g = <<>> => s \in spilled)
  BY SpillsType
<1>2. g # <<>>
  BY <1>1 DEF SpilledFull
<1>3. /\ Kept(Shown, Shown')
      /\ \A t \in Servers : file[t] # <<>> => file'[t] # <<>>
  BY <1>1, SpillKept
<1>4. file'[s] = g
  BY DEF TypeOK
<1>5. SpilledFull'
  BY <1>2, <1>3, <1>4 DEF SpilledFull, TypeOK
<1>6. Shown'[s] = Every
  <2>1. spilled' # {}
    OBVIOUS
  <2>2. View(file', spilled')[s] = Every
    <3>1. file'[s] # <<>>
      BY <1>2, <1>4
    <3> QED
      BY <2>1, <3>1 DEF View
  <2> QED
    BY <2>2 DEF Shown
<1> QED
  BY <1>2, <1>3, <1>4, <1>5, <1>6, EveryFacts

\* What is known of a worker, an answer or an event is not lost.
LEMMA BackedKept ==
  ASSUME Kept(Shown, Shown')
  PROVE  /\ \A l, j : Backed(Shown, l, j) => Backed(Shown', l, j)
         /\ \A p \in Peers : \A m : AnswerBacked(Shown, p, m) => AnswerBacked(Shown', p, m)
         /\ \A e : EventBacked(Shown, e) => EventBacked(Shown', e)
<1>1. \A p \in Peers : Full(Shown, p) => Full(Shown', p)
  BY KeptFacts
<1>2. AllFull(Shown) => AllFull(Shown')
  BY <1>1 DEF AllFull
<1>3. \A num : Backing(Shown, num) => Backing(Shown', num)
  BY KeptFacts
<1>4. \A p \in Peers : \A num \in Nums : Found(Shown[p], num) # {} => Found(Shown'[p], num) # {}
  BY KeptFacts
<1>5. ASSUME NEW l, NEW j, Backed(Shown, l, j) PROVE Backed(Shown', l, j)
  BY <1>1, <1>2, <1>3, <1>5 DEF Backed, Returning, Called
<1>6. ASSUME NEW p \in Peers, NEW m, AnswerBacked(Shown, p, m) PROVE AnswerBacked(Shown', p, m)
  BY <1>1, <1>4, <1>6 DEF AnswerBacked
<1>7. ASSUME NEW e, EventBacked(Shown, e) PROVE EventBacked(Shown', e)
  BY <1>2, <1>3, <1>7 DEF EventBacked
<1> QED
  BY <1>5, <1>6, <1>7

-----------------------------------------------------------------------------
(* The parts of the invariant that a step leaves alone *)

\* A worker's new label and local variables need backing by the files as they
\* were before the step.
LEMMA GoBacked ==
  ASSUME Inv, TypeOK', Kept(Shown, Shown'), NEW w \in Workers, NEW l, NEW j,
         Go(w, l, j), l = "idle" \/ Backed(Shown, l, j)
  PROVE  WorkersBacked'
<1>1. \A k, i : Backed(Shown, k, i) => Backed(Shown', k, i)
  BY BackedKept DEF Inv
<1>2. Backed(Shown, "idle", Fresh)
  BY DEF Backed, Returning, Called, Fresh, Returns, ReplyStates
<1>3. SUFFICES ASSUME NEW v \in Workers PROVE Backed(Shown', pc'[v], job'[v])
  BY DEF WorkersBacked
<1>4. CASE v = w
  BY <1>1, <1>2, <1>4 DEF Go, Inv, TypeOK
<1>5. CASE v # w
  BY <1>1, <1>5 DEF Go, Inv, TypeOK, WorkersBacked
<1> QED
  BY <1>4, <1>5

LEMMA KeptWorkers ==
  ASSUME Inv, TypeOK', Kept(Shown, Shown'), UNCHANGED workerVars
  PROVE  WorkersBacked'
<1>1. \A k, i : Backed(Shown, k, i) => Backed(Shown', k, i)
  BY BackedKept DEF Inv
<1> QED
  BY <1>1 DEF WorkersBacked, Inv, workerVars

LEMMA KeptStates ==
  ASSUME Inv, TypeOK', Kept(Shown, Shown'), UNCHANGED srv
  PROVE  StatesBacked'
BY KeptFacts DEF Inv, StatesBacked

LEMMA KeptAnswers ==
  ASSUME Inv, TypeOK', Kept(Shown, Shown'), UNCHANGED toMaster
  PROVE  AnswersBacked'
<1>1. \A p \in Peers : \A m : AnswerBacked(Shown, p, m) => AnswerBacked(Shown', p, m)
  BY BackedKept DEF Inv
<1> QED
  BY <1>1 DEF Inv, AnswersBacked

LEMMA KeptEvents ==
  ASSUME Inv, TypeOK', Kept(Shown, Shown'), UNCHANGED queue
  PROVE  EventsBacked'
<1>1. \A e : EventBacked(Shown, e) => EventBacked(Shown', e)
  BY BackedKept DEF Inv
<1> QED
  BY <1>1 DEF Inv, EventsBacked

LEMMA KeptFirst ==
  ASSUME Inv, TypeOK', Kept(Shown, Shown'), file'[Master] = file[Master], UNCHANGED verdict
  PROVE  PeersFirst'
<1>1. \A p \in Peers : file[p] # <<>> => file'[p] # <<>>
  <2>1. Kept(View(file, spilled), View(file', spilled'))
    BY DEF Shown
  <2>2. Peers \subseteq Servers
    OBVIOUS
  <2> QED
    BY <2>1, <2>2, ViewFacts DEF Kept
<1> QED
  BY <1>1 DEF Inv, PeersFirst, Answered

LEMMA SameFull ==
  ASSUME Inv, UNCHANGED <<file, spilled>>
  PROVE  SpilledFull'
BY DEF Inv, SpilledFull

\* A step that moves workers and nothing else the invariant is about.
LEMMA QuietStep ==
  ASSUME Inv, TypeOK', WorkersBacked', UNCHANGED <<srv, toMaster, queue, verdict, file, spilled>>
  PROVE  Inv'
<1>1. Kept(Shown, Shown') /\ SpilledFull'
  BY SameKept, SameFull
<1>2. StatesBacked' /\ AnswersBacked' /\ EventsBacked' /\ PeersFirst'
  BY <1>1, KeptStates, KeptAnswers, KeptEvents, KeptFirst
<1> QED
  BY <1>1, <1>2 DEF Inv

\* An answer to a user: WROTE needs every peer to have stored something.
LEMMA AnswerFirst ==
  ASSUME Inv, TypeOK', UNCHANGED <<file, spilled>>, NEW u \in Users, NEW v \in Verdicts, Answer(u, v),
         v = "WROTE" => AllFull(Shown)
  PROVE  PeersFirst'
<1>1. CASE verdict' = verdict
  BY <1>1, SameKept, KeptFirst
<1>2. ASSUME NEW c \in Cmds, verdict' = [verdict EXCEPT ![c] = Append(@, v)]
      PROVE  PeersFirst'
  <2>1. SUFFICES ASSUME NEW d \in Cmds, Answered(d, "WROTE")', ~AllFull(Shown)
                 PROVE  FALSE
    BY ShownFacts DEF Inv, PeersFirst
  <2>2. ~Answered(d, "WROTE") /\ v # "WROTE"
    BY <2>1, ShownFacts DEF Inv, PeersFirst
  <2>3. verdict[d] \in Seq(Verdicts) /\ verdict \in [Cmds -> Seq(Verdicts)]
    BY DEF Inv, TypeOK
  <2>4. verdict'[d] = verdict[d] \/ verdict'[d] = Append(verdict[d], v)
    BY <1>2, <2>3
  <2>5. \A i \in DOMAIN Append(verdict[d], v) :
          \/ i \in DOMAIN verdict[d] /\ Append(verdict[d], v)[i] = verdict[d][i]
          \/ Append(verdict[d], v)[i] = v
    BY <2>3, AppendProperties, LenProperties
  <2> QED
    BY <2>1, <2>2, <2>4, <2>5 DEF Answered
<1> QED
  BY <1>1, <1>2 DEF Answer, Inv, TypeOK

-----------------------------------------------------------------------------
(* Every step keeps the invariant *)

\* The fields that matter of the local variables after a step.
LEMMA JobFields ==
  ASSUME NEW j \in Job
  PROVE  /\ \A u : LET i == [j EXCEPT !.usr = u] IN
                i.ret = j.ret /\ i.st = j.st /\ i.num = j.num /\ i.idx = j.idx
         /\ \A p : LET i == [j EXCEPT !.idx = p] IN
                i.ret = j.ret /\ i.st = j.st /\ i.num = j.num /\ i.idx = p
         /\ \A l : LET i == [j EXCEPT !.ret = l] IN
                i.ret = l /\ i.st = j.st /\ i.num = j.num /\ i.idx = j.idx
         /\ \A v : LET i == [j EXCEPT !.answer = v] IN i.ret = j.ret /\ i.num = j.num
BY DEF Job

LEMMA SendingBacked ==
  ASSUME NEW j \in Job, NEW msg \in ToPeer, NEW st \in ServerStates, NEW ret \in Returns,
         st \notin ReplyStates,
         ret \in {"findSave", "reply"} => AllFull(Shown) /\ Backing(Shown, j.num)
  PROVE  Backed(Shown, "send", Sending(j, msg, st, ret))
<1>1. /\ Sending(j, msg, st, ret).ret = ret /\ Sending(j, msg, st, ret).st = st
      /\ Sending(j, msg, st, ret).num = j.num
  BY DEF Sending, Job
<1> QED
  BY <1>1 DEF Backed, Returning, Called, ReplyStates

LEMMA MulticastBacked ==
  ASSUME Inv, TypeOK', Kept(Shown, Shown'), NEW w \in Workers, NEW msg \in ToPeer,
         NEW st \in ServerStates, NEW ret \in Returns,
         st \notin ReplyStates,
         ret \in {"findSave", "reply"} => AllFull(Shown) /\ Backing(Shown, job[w].num),
         Multicast(w, msg, st, ret)
  PROVE  WorkersBacked'
<1>1. job[w] \in Job
  BY DEF Inv, TypeOK
<1>2. Backed(Shown, "send", Sending(job[w], msg, st, ret))
  BY <1>1, SendingBacked
<1> QED
  BY <1>2, GoBacked DEF Multicast

\* What the invariant says of one worker.
LEMMA WorkerFacts ==
  ASSUME Inv, NEW w \in Workers
  PROVE  Backed(Shown, pc[w], job[w]) /\ job[w] \in Job
BY DEF Inv, WorkersBacked, TypeOK

\* A worker may go on where the called function returns to.
LEMMA ReturnBacked ==
  ASSUME Inv, NEW w \in Workers
  PROVE  Backed(Shown, job[w].ret, job[w])
BY WorkerFacts DEF Backed, Returning, Called, Returns, ReplyStates

LEMMA SubmitInv ==
  ASSUME Inv, TypeOK', NEW w \in Workers, Command(w)
  PROVE  Inv'
<1>1. PICK u \in Users : /\ pc[w] = "idle"
                         /\ Go(w, "connect", [job[w] EXCEPT !.usr = u])
                         /\ UNCHANGED <<sharedVars, netVars, verdict, file, spilled>>
  BY DEF Command, SubmitWrite, SubmitReplace, Submit
<1>2. Backed(Shown, "connect", [job[w] EXCEPT !.usr = u])
  BY <1>1, WorkerFacts, JobFields DEF Backed, Returning, Called
<1>3. Kept(Shown, Shown')
  BY <1>1, SameKept
<1>4. WorkersBacked'
  BY <1>1, <1>2, <1>3, GoBacked
<1> QED
  BY <1>1, <1>4, QuietStep DEF sharedVars, netVars

LEMMA NextPeerBacked ==
  ASSUME Inv, TypeOK', Kept(Shown, Shown'), NEW w \in Workers, NEW ok, NextPeer(w, ok),
         pc[w] \in {"connect", "link"}
  PROVE  WorkersBacked'
<1> DEFINE j == [job[w] EXCEPT !.ok = ok, !.idx = job[w].idx + 1]
           i == [job[w] EXCEPT !.ok = ok, !.idx = 1, !.st = "IDLE", !.ret = "connected"]
<1>1. job[w] \in Job
  BY WorkerFacts
<1>2. Go(w, "connect", j) \/ Go(w, "check", i)
  BY DEF NextPeer
<1>3. Backed(Shown, "connect", j)
  <2>1. j.ret = job[w].ret
    BY <1>1 DEF Job
  <2> QED
    BY <2>1, WorkerFacts DEF Backed, Returning, Called
<1>4. Backed(Shown, "check", i)
  <2>1. i.ret = "connected" /\ i.st = "IDLE"
    BY <1>1 DEF Job
  <2> HIDE DEF i
  <2> QED
    BY <2>1 DEF Backed, Returning, Called, Returns, ReplyStates
<1> HIDE DEF i, j
<1> QED
  BY <1>2, <1>3, <1>4, GoBacked

LEMMA ConnectInv ==
  ASSUME Inv, TypeOK', NEW w \in Workers, Connect(w)
  PROVE  Inv'
<1> DEFINE p == job[w].idx
<1>1. p \in Peers
  BY WorkerFacts DEF Job
<1>2. /\ pc[w] = "connect"
      /\ Go(w, "link", job[w]) \/ NextPeer(w, job[w].ok /\ srv[p] # "DISCONNECT")
      /\ UNCHANGED <<srv, queue, verdict, file, spilled>>
  BY DEF Connect, userVars, sharedVars
<1>3. toMaster' = [toMaster EXCEPT ![p] = <<>>] \/ UNCHANGED toMaster
  BY DEF Connect, netVars
<1>4. Kept(Shown, Shown')
  BY <1>2, SameKept
<1>5. Backed(Shown, "link", job[w])
  BY <1>2, WorkerFacts DEF Backed, Returning, Called
<1>6. WorkersBacked'
  BY <1>2, <1>4, <1>5, GoBacked, NextPeerBacked
<1>7. AnswersBacked'
  <2>1. CASE UNCHANGED toMaster
    BY <1>4, <2>1, KeptAnswers
  <2>2. CASE toMaster' = [toMaster EXCEPT ![p] = <<>>]
    <3>1. toMaster \in [Peers -> Seq(ToMaster)]
      BY DEF Inv, TypeOK
    <3>2. \A q \in Peers : toMaster'[q] = toMaster[q] \/ toMaster'[q] = <<>>
      BY <2>2, <3>1
    <3>3. Shown' = Shown
      BY <1>2, SameKept
    <3> QED
      BY <3>2, <3>3 DEF Inv, AnswersBacked
  <2> QED
    BY <1>3, <2>1, <2>2
<1>8. EventsBacked' /\ PeersFirst' /\ StatesBacked'
  BY <1>2, <1>4, KeptEvents, KeptFirst, KeptStates
<1> QED
  BY <1>2, <1>6, <1>7, <1>8, SameFull DEF Inv

LEMMA LinkInv ==
  ASSUME Inv, TypeOK', NEW w \in Workers, Link(w)
  PROVE  Inv'
<1>1. /\ pc[w] = "link" /\ NextPeer(w, job[w].ok) /\ job[w].idx \in Peers
      /\ srv' = [srv EXCEPT ![job[w].idx] = "IDLE"]
      /\ UNCHANGED <<toMaster, queue, verdict, file, spilled>>
  BY WorkerFacts DEF Link, userVars, Job
<1>2. Kept(Shown, Shown') /\ Shown' = Shown
  BY <1>1, SameKept
<1>3. WorkersBacked'
  BY <1>1, <1>2, NextPeerBacked
<1>4. StatesBacked'
  BY <1>1, <1>2 DEF Inv, StatesBacked, TypeOK
<1> QED
  BY <1>1, <1>2, <1>3, <1>4, KeptAnswers, KeptEvents, KeptFirst, SameFull DEF Inv

LEMMA ConnectedInv ==
  ASSUME Inv, TypeOK', NEW w \in Workers, Connected(w)
  PROVE  Inv'
<1>1. UNCHANGED <<srv, toMaster, queue, file, spilled>>
  BY DEF Connected, sharedVars, netVars
<1>2. Kept(Shown, Shown')
  BY <1>1, SameKept
<1>3. CASE job[w].ok
  <2>1. Multicast(w, Msg("PRECOMMIT", NoLine), "M_PRECOMMIT_MULTICASTED", "idle")
        /\ verdict' = verdict
    BY <1>3 DEF Connected
  <2>2. Msg("PRECOMMIT", NoLine) \in ToPeer
    BY DEF Msg, ToPeer, Line, NoLine
  <2>3. WorkersBacked'
    BY <1>2, <2>1, <2>2, MulticastBacked DEF ServerStates, Returns, ReplyStates
  <2> QED
    BY <1>1, <2>1, <2>3, QuietStep
<1>4. CASE ~job[w].ok
  <2>1. Answer(job[w].usr, "ERROR") /\ Go(w, "idle", Fresh)
    BY <1>4 DEF Connected
  <2>2. job[w].usr \in Users /\ "ERROR" \in Verdicts
    BY WorkerFacts DEF Job, Verdicts
  <2>3. WorkersBacked'
    BY <1>2, <2>1, GoBacked
  <2>4. PeersFirst'
    BY <1>1, <2>1, <2>2, AnswerFirst
  <2>5. StatesBacked' /\ AnswersBacked' /\ EventsBacked' /\ SpilledFull'
    BY <1>1, <1>2, KeptStates, KeptAnswers, KeptEvents, SameFull
  <2> QED
    BY <2>3, <2>4, <2>5 DEF Inv
<1> QED
  BY <1>3, <1>4

LEMMA SendInv ==
  ASSUME Inv, TypeOK', NEW w \in Workers, Send(w)
  PROVE  Inv'
<1>1. /\ pc[w] = "send"
      /\ Go(w, job[w].ret, job[w]) \/ Go(w, "mark", job[w])
      /\ UNCHANGED <<srv, toMaster, queue, verdict, file, spilled>>
  BY DEF Send, sharedVars, userVars
<1>2. Kept(Shown, Shown')
  BY <1>1, SameKept
<1>3. Backed(Shown, "mark", job[w])
  BY <1>1, WorkerFacts DEF Backed, Returning, Called
<1>4. WorkersBacked'
  BY <1>1, <1>2, <1>3, ReturnBacked, GoBacked
<1> QED
  BY <1>1, <1>4, QuietStep

LEMMA MarkInv ==
  ASSUME Inv, TypeOK', NEW w \in Workers, Mark(w)
  PROVE  Inv'
<1> DEFINE j == [job[w] EXCEPT !.idx = @ + 1]
           i == [job[w] EXCEPT !.idx = 1]
<1>1. /\ pc[w] = "mark" /\ job[w].idx \in Peers
      /\ job[w].st # "M_OPERATION_PERFORMED"
      /\ UNCHANGED <<toMaster, queue, verdict, file, spilled>>
      /\ srv' = [srv EXCEPT ![job[w].idx] = job[w].st]
  BY WorkerFacts DEF Mark, netVars, userVars, Backed, Job
<1>2. Go(w, "send", j) \/ Go(w, "check", i)
  BY DEF Mark, Advance
<1>3. Kept(Shown, Shown') /\ Shown' = Shown
  BY <1>1, SameKept
<1>4. Backed(Shown, "send", j) /\ Backed(Shown, "check", i)
  BY <1>1, WorkerFacts, JobFields DEF Backed, Returning, Called
<1>5. WorkersBacked'
  BY <1>2, <1>3, <1>4, GoBacked
<1>6. StatesBacked'
  BY <1>1, <1>3 DEF Inv, StatesBacked, TypeOK
<1> QED
  BY <1>1, <1>3, <1>5, <1>6, KeptAnswers, KeptEvents, KeptFirst, SameFull DEF Inv

\* The loop of sync_check_server_state() collects that every peer has stored
\* something: each was in the state PERFORMED when its turn came.
LEMMA CheckInv ==
  ASSUME Inv, TypeOK', NEW w \in Workers, Check(w)
  PROVE  Inv'
<1> DEFINE j == [job[w] EXCEPT !.idx = @ + 1]
           i == [job[w] EXCEPT !.idx = 1]
<1>1. /\ pc[w] = "check" /\ job[w].idx \in Peers /\ job[w] \in Job
      /\ UNCHANGED <<srv, toMaster, queue, verdict, file, spilled>>
  BY WorkerFacts DEF Check, sharedVars, netVars, userVars, Job
<1>2. \/ Go(w, job[w].ret, job[w])
      \/ srv[job[w].idx] = job[w].st /\ job[w].idx < N /\ Go(w, "check", j)
      \/ srv[job[w].idx] = job[w].st /\ ~(job[w].idx < N) /\ Go(w, "master", i)
  BY DEF Check, Advance
<1>3. Kept(Shown, Shown')
  BY <1>1, SameKept
<1>4. ASSUME srv[job[w].idx] = job[w].st, job[w].st = "M_OPERATION_PERFORMED"
      PROVE  \A p \in Peers : p <= job[w].idx => Full(Shown, p)
  <2>1. \A p \in Peers : p < job[w].idx => Full(Shown, p)
    BY <1>1, <1>4, WorkerFacts DEF Backed, Returning, Called
  <2>2. Full(Shown, job[w].idx)
    BY <1>1, <1>4 DEF Inv, StatesBacked
  <2> QED
    BY <1>1, <2>1, <2>2
<1>5. ASSUME srv[job[w].idx] = job[w].st PROVE Backed(Shown, "check", j)
  BY <1>1, <1>4, <1>5, WorkerFacts, JobFields DEF Backed, Returning, Called
<1>6. ASSUME srv[job[w].idx] = job[w].st, ~(job[w].idx < N)
      PROVE  Backed(Shown, "master", i)
  <2>1. job[w].st = "M_OPERATION_PERFORMED" => AllFull(Shown)
    BY <1>1, <1>4, <1>6 DEF AllFull
  <2> QED
    BY <1>1, <2>1, WorkerFacts, JobFields DEF Backed, Returning, Called
<1>7. WorkersBacked'
  BY <1>2, <1>3, <1>5, <1>6, ReturnBacked, GoBacked
<1> QED
  BY <1>1, <1>7, QuietStep

LEMMA SetMasterInv ==
  ASSUME Inv, TypeOK', NEW w \in Workers, SetMaster(w)
  PROVE  Inv'
<1>1. /\ pc[w] = "master"
      /\ Go(w, "post", job[w]) \/ Go(w, job[w].ret, job[w])
      /\ UNCHANGED <<srv, toMaster, queue, verdict, file, spilled>>
  BY DEF SetMaster, netVars, userVars
<1>2. Kept(Shown, Shown')
  BY <1>1, SameKept
<1>3. Backed(Shown, "post", job[w])
  BY <1>1, WorkerFacts DEF Backed, Returning, Called
<1>4. WorkersBacked'
  BY <1>1, <1>2, <1>3, ReturnBacked, GoBacked
<1> QED
  BY <1>1, <1>4, QuietStep

\* A step that appends an event.
LEMMA EnqueueBacked ==
  ASSUME Inv, TypeOK', UNCHANGED <<file, spilled>>, NEW type, NEW num, NEW unknown,
         Enqueue(type, num, unknown),
         type = "COMMIT_SUCCESS" => AllFull(Shown) /\ Backing(Shown, num)
  PROVE  EventsBacked'
<1> DEFINE e == [type |-> type, num |-> num, unknown |-> unknown]
<1>1. queue \in Seq(Event) /\ queue' = Append(queue, e) /\ queue' \in Seq(Event)
  BY DEF Inv, TypeOK, Enqueue
<1>2. EventBacked(Shown, e) /\ Shown' = Shown
  BY SameKept DEF EventBacked
<1>3. \A i \in DOMAIN queue : EventBacked(Shown, queue[i])
  BY DEF Inv, EventsBacked
<1> HIDE DEF e
<1>4. DOMAIN queue = 1..Len(queue) /\ Len(queue') = Len(queue) + 1 /\ DOMAIN queue' = 1..Len(queue')
  BY <1>1, AppendProperties, LenProperties
<1>5. queue'[Len(queue) + 1] = e /\ \A i \in 1..Len(queue) : queue'[i] = queue[i]
  BY <1>1, AppendProperties, LenProperties
<1>6. ASSUME NEW i \in DOMAIN queue' PROVE EventBacked(Shown, queue'[i])
  BY <1>1, <1>2, <1>3, <1>4, <1>5, <1>6, LenProperties
<1> QED
  BY <1>2, <1>6 DEF EventsBacked

LEMMA PostInv ==
  ASSUME Inv, TypeOK', NEW w \in Workers, Post(w)
  PROVE  Inv'
<1>1. /\ pc[w] = "post"
      /\ Go(w, "idle", Fresh)
      /\ UNCHANGED <<srv, toMaster, verdict, file, spilled>>
  BY DEF Post, netVars, userVars
<1>2. PICK type : /\ Enqueue(type, job[w].num, job[w].unknown)
                  /\ type = "COMMIT_SUCCESS" => job[w].st = "M_OPERATION_PERFORMED"
  BY DEF Post
<1>3. Kept(Shown, Shown')
  BY <1>1, SameKept
<1>4. EventsBacked'
  <2>1. type = "COMMIT_SUCCESS" => AllFull(Shown) /\ Backing(Shown, job[w].num)
    BY <1>1, <1>2, WorkerFacts DEF Backed, Returning, Called
  <2>2. UNCHANGED <<file, spilled>>
    BY <1>1
  <2> QED
    BY <1>2, <2>1, <2>2, EnqueueBacked
<1>5. WorkersBacked'
  BY <1>1, <1>3, GoBacked
<1> QED
  BY <1>1, <1>3, <1>4, <1>5, KeptStates, KeptAnswers, KeptFirst, SameFull DEF Inv

\* A success answer is read: the worker knows of its peer what it tells, and of
\* its number only if it was received alone.
LEMMA RecvReplyInv ==
  ASSUME Inv, TypeOK', NEW w \in Workers, NEW p \in Peers, NEW k \in 1..MaxRecv,
         RecvReply(w, p, k)
  PROVE  Inv'
<1> DEFINE m == Head(toMaster[p])
           n == IF k > 1 THEN Garbled ELSE m.num
           j == [job[w] EXCEPT !.idx = p, !.st = StateAfter(m.kind), !.num = n,
                               !.unknown = (m.kind = "UNKNOWN")]
<1>1. toMaster \in [Peers -> Seq(ToMaster)] /\ toMaster[p] \in Seq(ToMaster)
      /\ k \in 1..Len(toMaster[p])
  BY DEF Inv, TypeOK, RecvReply
<1>2. /\ UNCHANGED <<srv, queue, verdict, file, spilled>>
      /\ toMaster' = [toMaster EXCEPT ![p] = SubSeq(@, k + 1, Len(@))]
      /\ UNCHANGED workerVars \/ Go(w, "note", j)
      /\ pc[w] = "idle"
  BY DEF RecvReply, sharedVars, userVars
<1>3. Kept(Shown, Shown')
  BY <1>2, SameKept
<1>4. AnswerBacked(Shown, p, m)
  <2>1. m = toMaster[p][1] /\ 1 \in DOMAIN toMaster[p]
    BY <1>1, LenProperties
  <2> HIDE DEF m
  <2> QED
    BY <2>1 DEF Inv, AnswersBacked
<1>5. Backed(Shown, "note", j)
  <2>1. j.idx = p /\ j.st = StateAfter(m.kind) /\ j.num = n /\ j.ret = job[w].ret
    BY WorkerFacts DEF Job
  <2>2. StateAfter(m.kind) = "M_OPERATION_PERFORMED" => m.kind = "SUCCESS"
    BY DEF StateAfter
  <2> HIDE DEF j, m
  <2>3. StateAfter(m.kind) = "M_OPERATION_PERFORMED" => Full(Shown, p) /\ Backing(Shown, n)
    BY <1>4, <2>2 DEF AnswerBacked, Backing
  <2> HIDE DEF n
  <2> QED
    BY <1>2, <2>1, <2>3, WorkerFacts DEF Backed, Returning, Called
<1> HIDE DEF j
<1>6. WorkersBacked'
  BY <1>2, <1>3, <1>5, GoBacked, KeptWorkers
<1>7. AnswersBacked'
  <2> DEFINE q == SubSeq(toMaster[p], k + 1, Len(toMaster[p]))
  <2>1. \A i \in DOMAIN q : i + k \in DOMAIN toMaster[p] /\ q[i] = toMaster[p][i + k]
    BY <1>1, RestOfSeq
  <2>2. toMaster' = [toMaster EXCEPT ![p] = q]
    BY <1>2
  <2> HIDE DEF q
  <2>3. \A i \in DOMAIN q : AnswerBacked(Shown, p, q[i])
    BY <2>1 DEF Inv, AnswersBacked
  <2>4. Shown' = Shown
    BY <1>2, SameKept
  <2> QED
    BY <1>1, <2>2, <2>3, <2>4 DEF Inv, AnswersBacked
<1> QED
  BY <1>2, <1>3, <1>6, <1>7, KeptStates, KeptEvents, KeptFirst, SameFull DEF Inv

LEMMA NoteInv ==
  ASSUME Inv, TypeOK', NEW w \in Workers, Note(w)
  PROVE  Inv'
<1> DEFINE i == [job[w] EXCEPT !.idx = 1]
<1>1. /\ pc[w] = "note" /\ job[w].idx \in Peers
      /\ UNCHANGED <<toMaster, queue, verdict, file, spilled>>
      /\ srv' = [srv EXCEPT ![job[w].idx] = job[w].st]
  BY WorkerFacts DEF Note, netVars, userVars, Job
<1>2. \/ job[w].st = "M_OPERATION_UNSUCCESS" /\ Go(w, "once", i)
      \/ Go(w, "check", i)
  BY DEF Note
<1>3. Kept(Shown, Shown') /\ Shown' = Shown
  BY <1>1, SameKept
<1>4. job[w].st = "M_OPERATION_UNSUCCESS" => Backed(Shown, "once", i)
  BY <1>1, WorkerFacts, JobFields DEF Backed, Returning, Called
<1>5. Backed(Shown, "check", i)
  BY <1>1, WorkerFacts, JobFields DEF Backed, Returning, Called
<1>6. WorkersBacked'
  BY <1>2, <1>3, <1>4, <1>5, GoBacked
<1>7. StatesBacked'
  BY <1>1, <1>3, WorkerFacts DEF Inv, StatesBacked, TypeOK, Backed
<1> QED
  BY <1>1, <1>3, <1>6, <1>7, KeptAnswers, KeptEvents, KeptFirst, SameFull DEF Inv

LEMMA OnceInv ==
  ASSUME Inv, TypeOK', NEW w \in Workers, Once(w)
  PROVE  Inv'
<1>1. /\ pc[w] = "once"
      /\ Go(w, "master", job[w]) \/ Go(w, "idle", job[w])
      /\ UNCHANGED <<srv, toMaster, queue, verdict, file, spilled>>
  BY DEF Once, sharedVars, netVars, userVars
<1>2. Backed(Shown, "master", job[w])
  BY <1>1, WorkerFacts DEF Backed, Returning, Called
<1>3. WorkersBacked'
  BY <1>1, <1>2, SameKept, GoBacked
<1> QED
  BY <1>1, <1>3, QuietStep

LEMMA PeerClosedInv ==
  ASSUME Inv, TypeOK', NEW w \in Workers, NEW p \in Peers, PeerClosed(w, p)
  PROVE  Inv'
<1>1. /\ UNCHANGED <<workerVars, toMaster, queue, verdict, file, spilled>>
      /\ srv' = [srv EXCEPT ![p] = "DISCONNECT"] \/ UNCHANGED srv
  BY DEF PeerClosed, userVars
<1>2. Kept(Shown, Shown') /\ Shown' = Shown
  BY <1>1, SameKept
<1>3. StatesBacked'
  BY <1>1, <1>2 DEF Inv, StatesBacked, TypeOK
<1> QED
  BY <1>1, <1>2, <1>3, KeptWorkers, KeptAnswers, KeptEvents, KeptFirst, SameFull DEF Inv

\* An event is taken. A timeout's worker posts the state the master is in, which is
\* not that of a success.
LEMMA TakeEventInv ==
  ASSUME Inv, TypeOK', NEW w \in Workers, TakeEvent(w)
  PROVE  Inv'
<1> DEFINE e == Head(queue)
           j == [job[w] EXCEPT !.num = e.num, !.unknown = e.unknown]
<1>1. /\ pc[w] = "idle" /\ queue # <<>> /\ queue \in Seq(Event)
      /\ UNCHANGED <<srv, toMaster, verdict, file, spilled>>
      /\ queue' = Tail(queue)
  BY DEF TakeEvent, netVars, userVars, Inv, TypeOK
<1>2. \/ UNCHANGED workerVars
      \/ \E st \in {"M_PRECOMMIT_MULTICASTED", "M_COMMITED"} :
           Go(w, "post", [job[w] EXCEPT !.st = st])
      \/ Multicast(w, Msg("ABORT", NoLine), "IDLE", "findAbort")
      \/ Go(w, Handler(e.type), j)
  BY DEF TakeEvent
<1>3. Kept(Shown, Shown')
  BY <1>1, SameKept
<1>4. EventBacked(Shown, e)
  <2>1. e = queue[1] /\ 1 \in DOMAIN queue
    BY <1>1, HeadTailProperties, LenProperties, EmptySeq
  <2> HIDE DEF e
  <2> QED
    BY <2>1 DEF Inv, EventsBacked
<1>5. Backed(Shown, Handler(e.type), j)
  <2>1. j.ret = job[w].ret /\ j.num = e.num
    BY WorkerFacts DEF Job
  <2> HIDE DEF j
  <2>2. Handler(e.type) \in {"findCommit", "findSave", "findUndo"}
        /\ (Handler(e.type) = "findSave" => e.type = "COMMIT_SUCCESS")
    BY DEF Handler
  <2>3. Handler(e.type) = "findSave" => AllFull(Shown) /\ Backing(Shown, e.num)
    BY <1>4, <2>2 DEF EventBacked
  <2> HIDE DEF e
  <2> QED
    BY <1>1, <2>1, <2>2, <2>3, WorkerFacts DEF Backed, Returning, Called
<1>6. WorkersBacked'
  <2>1. CASE UNCHANGED workerVars
    BY <1>3, <2>1, KeptWorkers
  <2>2. CASE Multicast(w, Msg("ABORT", NoLine), "IDLE", "findAbort")
    <3>1. Msg("ABORT", NoLine) \in ToPeer
      BY DEF Msg, ToPeer, Line, NoLine
    <3> QED
      BY <1>3, <2>2, <3>1, MulticastBacked DEF ServerStates, Returns, ReplyStates
  <2>3. CASE Go(w, Handler(e.type), j)
    BY <1>3, <1>5, <2>3, GoBacked
  <2>4. ASSUME NEW st \in {"M_PRECOMMIT_MULTICASTED", "M_COMMITED"},
               Go(w, "post", [job[w] EXCEPT !.st = st])
        PROVE  WorkersBacked'
    <3> DEFINE i == [job[w] EXCEPT !.st = st]
    <3>1. i.ret = job[w].ret /\ i.st = st
      BY WorkerFacts DEF Job
    <3>2. Go(w, "post", i)
      BY <2>4
    <3> HIDE DEF i
    <3>3. Backed(Shown, "post", i)
      BY <1>1, <3>1, WorkerFacts DEF Backed, Returning, Called
    <3> QED
      BY <1>3, <3>2, <3>3, GoBacked
  <2> QED
    BY <1>2, <2>1, <2>2, <2>3, <2>4
<1>7. EventsBacked'
  <2>1. \A i \in DOMAIN Tail(queue) : EventBacked(Shown, Tail(queue)[i])
    <3>1. \A i \in DOMAIN Tail(queue) : i + 1 \in DOMAIN queue /\ Tail(queue)[i] = queue[i + 1]
      BY <1>1, HeadTailProperties, LenProperties, EmptySeq
    <3> QED
      BY <3>1 DEF Inv, EventsBacked
  <2>2. Shown' = Shown
    BY <1>1, SameKept
  <2> QED
    BY <1>1, <2>1, <2>2 DEF EventsBacked
<1> QED
  BY <1>1, <1>3, <1>6, <1>7, KeptStates, KeptAnswers, KeptFirst, SameFull DEF Inv

\* The handler of COMMIT_SUCCESS goes on to the save knowing what it knew when
\* it started; the other handlers need nothing.
LEMMA FindInv ==
  ASSUME Inv, TypeOK', NEW w \in Workers,
         FindCommit(w) \/ FindAbort(w) \/ FindSave(w) \/ FindUndo(w)
  PROVE  Inv'
<1>1. UNCHANGED <<srv, toMaster, queue, verdict, file, spilled>>
  BY DEF FindCommit, FindAbort, FindSave, FindUndo, Find, sharedVars, netVars, userVars
<1>2. \/ Go(w, "idle", Fresh)
      \/ \E u \in Users : /\ pc[w] \in {"findCommit", "findAbort", "findUndo"}
                          /\ \E l \in {"commit", "refuse", "undo"} :
                               Go(w, l, [job[w] EXCEPT !.usr = u])
      \/ \E u \in Users : pc[w] = "findSave" /\ Go(w, "save", [job[w] EXCEPT !.usr = u])
  BY DEF FindCommit, FindAbort, FindSave, FindUndo, Find, FirstOf, Waiting
<1>3. Kept(Shown, Shown')
  BY <1>1, SameKept
<1>4. ASSUME NEW u \in Users, NEW l \in {"commit", "refuse", "undo"}
      PROVE  Backed(Shown, l, [job[w] EXCEPT !.usr = u])
  BY WorkerFacts, JobFields DEF Backed, Returning, Called
<1>5. ASSUME NEW u \in Users, pc[w] = "findSave"
      PROVE  Backed(Shown, "save", [job[w] EXCEPT !.usr = u])
  BY <1>5, WorkerFacts, JobFields DEF Backed, Returning, Called
<1>6. WorkersBacked'
  BY <1>2, <1>3, <1>4, <1>5, GoBacked
<1> QED
  BY <1>1, <1>6, QuietStep

LEMMA CommitInv ==
  ASSUME Inv, TypeOK', NEW w \in Workers, Commit(w)
  PROVE  Inv'
<1> DEFINE c == client[job[w].usr]
           kind == IF c.cmd = "WRITE" THEN "COMMIT WRITE" ELSE "COMMIT REPLACE"
<1>1. /\ Multicast(w, Msg(kind, c.line), "M_COMMITED", "waitSave")
      /\ UNCHANGED <<srv, toMaster, queue, verdict, file, spilled>>
  BY DEF Commit, sharedVars, netVars, userVars
<1>2. Msg(kind, c.line) \in ToPeer
  <2>1. c.line \in Line
    BY WorkerFacts, ClientType DEF Inv, Job
  <2> QED
    BY <2>1 DEF Msg, ToPeer
<1> HIDE DEF c, kind
<1>3. WorkersBacked'
  BY <1>1, <1>2, SameKept, MulticastBacked DEF ServerStates, Returns, ReplyStates
<1> QED
  BY <1>1, <1>3, QuietStep

LEMMA WaitSaveInv ==
  ASSUME Inv, TypeOK', NEW w \in Workers, WaitSave(w)
  PROVE  Inv'
<1>1. /\ Go(w, "findCommit", job[w])
      /\ UNCHANGED <<srv, toMaster, queue, verdict, file, spilled>>
  BY DEF WaitSave, sharedVars, netVars
<1>2. Backed(Shown, "findCommit", job[w])
  BY WorkerFacts DEF Backed, Returning, Called
<1>3. WorkersBacked'
  BY <1>1, <1>2, SameKept, GoBacked
<1> QED
  BY <1>1, <1>3, QuietStep

\* The three handlers' answers: only Reply's can be WROTE, and it follows a save.
LEMMA AnswerInv ==
  ASSUME Inv, TypeOK', NEW w \in Workers, Refuse(w) \/ Reply(w) \/ Undo(w)
  PROVE  Inv'
<1>1. PICK v \in Verdicts, ret \in {"findAbort", "findSave", "findUndo"} :
        /\ Answer(job[w].usr, v)
        /\ Go(w, "clear", [job[w] EXCEPT !.ret = ret])
        /\ v = "WROTE" \/ ret = "findSave" => pc[w] = "reply"
  <2>1. {"ERROR", "UNKNOWN"} \subseteq Verdicts /\ job[w].answer \in Verdicts
    BY WorkerFacts DEF Verdicts, Job
  <2>2. CASE Refuse(w)
    BY <2>1, <2>2 DEF Refuse
  <2>3. CASE Reply(w)
    BY <2>1, <2>3 DEF Reply
  <2>4. CASE Undo(w)
    <3>1. \E v \in {"ERROR", "UNKNOWN"} : Answer(job[w].usr, v)
      BY <2>4 DEF Undo
    <3>2. Go(w, "clear", [job[w] EXCEPT !.ret = "findUndo"])
      BY <2>4 DEF Undo
    <3> QED
      BY <2>1, <3>1, <3>2
  <2> QED
    BY <2>2, <2>3, <2>4
<1>2. UNCHANGED <<srv, toMaster, queue, file, spilled>>
  BY DEF Refuse, Reply, Undo, sharedVars, netVars
<1>3. v = "WROTE" \/ ret = "findSave" => AllFull(Shown) /\ Backing(Shown, job[w].num)
  BY <1>1, WorkerFacts DEF Backed, Returning, Called
<1>4. Kept(Shown, Shown')
  BY <1>2, SameKept
<1>5. Backed(Shown, "clear", [job[w] EXCEPT !.ret = ret])
  BY <1>3, WorkerFacts, JobFields DEF Backed, Returning, Called, Returns, ReplyStates
<1>6. WorkersBacked'
  BY <1>1, <1>4, <1>5, GoBacked
<1>7. PeersFirst'
  <2>1. job[w].usr \in Users
    BY WorkerFacts DEF Job
  <2> QED
    BY <1>1, <1>2, <1>3, <2>1, AnswerFirst
<1> QED
  BY <1>2, <1>4, <1>6, <1>7, KeptStates, KeptAnswers, KeptEvents, SameFull DEF Inv

LEMMA ClearInv ==
  ASSUME Inv, TypeOK', NEW w \in Workers, Clear(w)
  PROVE  Inv'
<1>1. /\ \/ Multicast(w, Msg("END UNSUCCESS", Bare(job[w].num)), "IDLE", "findUndo")
         \/ Go(w, job[w].ret, job[w])
      /\ UNCHANGED <<srv, toMaster, queue, verdict, file, spilled>>
  BY DEF Clear, sharedVars, netVars
<1>2. Msg("END UNSUCCESS", Bare(job[w].num)) \in ToPeer
  <2>1. Bare(job[w].num) \in Line
    BY WorkerFacts DEF Bare, Line, Job
  <2> QED
    BY <2>1 DEF Msg, ToPeer
<1>3. Kept(Shown, Shown')
  BY <1>1, SameKept
<1>4. WorkersBacked'
  BY <1>1, <1>2, <1>3, MulticastBacked, ReturnBacked, GoBacked DEF ServerStates, Returns, ReplyStates
<1> QED
  BY <1>1, <1>4, QuietStep

\* A worker saves what a peer has stored before.
LEMMA SavedInv ==
  ASSUME Inv, TypeOK', NEW w \in Workers, pc[w] = "save", NEW f, NEW result \in Verdicts,
         Saved(w, f, result), Kept(Shown, Shown'), SpilledFull'
  PROVE  Inv'
<1> DEFINE j == [job[w] EXCEPT !.answer = result]
           m == Msg(IF result = "WROTE" THEN "END SUCCESS" ELSE "END UNSUCCESS",
                    Bare(job[w].num))
<1>1. UNCHANGED <<srv, toMaster, queue, verdict>>
  BY DEF Saved, sharedVars, netVars, userVars
<1>2. Go(w, "send", Sending(j, m, "IDLE", "reply"))
  BY DEF Saved
<1>4. AllFull(Shown) /\ Backing(Shown, j.num)
  BY WorkerFacts, JobFields DEF Backed, Returning, Called
<1>6. j \in Job
  BY WorkerFacts, SetJob
<1>7. m \in ToPeer
  <2>1. Bare(job[w].num) \in Line
    BY WorkerFacts DEF Bare, Line, Job
  <2> QED
    BY <2>1 DEF Msg, ToPeer
<1> HIDE DEF j, m
<1>8. Backed(Shown, "send", Sending(j, m, "IDLE", "reply"))
  BY <1>4, <1>6, <1>7, SendingBacked DEF ServerStates, Returns, ReplyStates
<1>9. WorkersBacked'
  BY <1>2, <1>8, GoBacked
<1>10. PeersFirst'
  <2>1. Kept(View(file, spilled), View(file', spilled'))
    BY DEF Shown
  <2>2. \A p \in Peers : file[p] # <<>> /\ p \in Servers
    BY <1>4, ShownFacts
  <2>3. \A p \in Peers : file'[p] # <<>>
    BY <2>1, <2>2, ViewFacts DEF Kept
  <2> QED
    BY <2>3 DEF PeersFirst
<1> QED
  BY <1>1, <1>9, <1>10, KeptStates, KeptAnswers, KeptEvents DEF Inv

LEMMA SaveInv ==
  ASSUME Inv, TypeOK', NEW w \in Workers, Save(w) \/ SaveSpills(w)
  PROVE  Inv'
<1> DEFINE c == client[job[w].usr]
<1>1. c.line \in Line /\ file[Master] \in Seq(Line) /\ Master \in Servers
  <2>1. TypeOK
    BY DEF Inv
  <2>2. c.line \in Line
    BY <2>1, CommandLine
  <2>3. file \in [Servers -> Seq(Line)] /\ Master \in Servers
    BY <2>1 DEF TypeOK
  <2> QED
    BY <2>2, <2>3
<1>2. CASE Save(w)
  <2>1. PICK r \in SaveResults(file[Master], c.cmd, c.line) : Saved(w, r.file, r.result)
    BY <1>2 DEF Save
  <2> HIDE DEF c
  <2>2. r.file \in Seq(Line) /\ r.result \in Verdicts /\ <<>> \in Seq(Line)
    BY <1>1, SaveResultsType
  <2>3. file' = [file EXCEPT ![Master] = r.file \o <<>>]
    <3>1. r.file \o <<>> = r.file
      BY <2>2
    <3> QED
      BY <2>1, <3>1 DEF Saved
  <2>4. pc[w] = "save" /\ UNCHANGED spilled
    BY <1>2 DEF Save
  <2>5. /\ Kept(Shown, Shown')
        /\ \A t \in Servers : file[t] # <<>> => file'[t] # <<>>
    BY <1>1, <2>2, <2>3, <2>4, SaveResultsSaved DEF Inv
  <2>6. SpilledFull'
    BY <2>4, <2>5, SpilledFullKept DEF Inv
  <2> QED
    BY <2>1, <2>2, <2>4, <2>5, <2>6, SavedInv
<1>3. CASE SaveSpills(w)
  <2>1. PICK f \in Spills(Master, c.cmd, <<c.line>>) : Saved(w, f, "WROTE")
    BY <1>3 DEF SaveSpills
  <2>2. <<c.line>> \in Seq(Line) /\ <<c.line>> # <<>>
    BY <1>1
  <2> HIDE DEF c
  <2>3. /\ file' = [file EXCEPT ![Master] = f]
        /\ spilled' = spilled \cup {Master} /\ pc[w] = "save"
    BY <1>3, <2>1 DEF Saved, SaveSpills
  <2>4. Kept(Shown, Shown') /\ SpilledFull'
    BY <1>1, <2>1, <2>2, <2>3, SpillsSaved DEF Inv
  <2>5. "WROTE" \in Verdicts
    BY DEF Verdicts
  <2> QED
    BY <2>1, <2>3, <2>4, <2>5, SavedInv
<1> QED
  BY <1>2, <1>3

LEMMA MasterTimerFiresInv ==
  ASSUME Inv, TypeOK', MasterTimerFires
  PROVE  Inv'
<1>1. UNCHANGED <<srv, toMaster, verdict, file, spilled, workerVars>>
  BY DEF MasterTimerFires, netVars, userVars
<1>2. Enqueue("TIMEOUT_MASTER", NoNum, FALSE)
  BY DEF MasterTimerFires
<1>3. UNCHANGED <<file, spilled>>
  BY <1>1
<1>4. EventsBacked'
  BY <1>2, <1>3, EnqueueBacked
<1>5. Kept(Shown, Shown')
  BY <1>1, SameKept
<1> QED
  BY <1>1, <1>4, <1>5, KeptWorkers, KeptStates, KeptAnswers, KeptFirst, SameFull DEF Inv

\* A peer's steps leave the master's records alone.
LEMMA PeerStep ==
  ASSUME Inv, TypeOK', UNCHANGED <<sharedVars, workerVars, userVars>>, AnswersBacked',
         Kept(Shown, Shown'), file'[Master] = file[Master], SpilledFull'
  PROVE  Inv'
<1>1. UNCHANGED <<srv, queue, verdict>>
  BY DEF sharedVars, userVars
<1> QED
  BY <1>1, KeptWorkers, KeptStates, KeptEvents, KeptFirst DEF Inv

LEMMA TellBacked ==
  ASSUME Inv, TypeOK', Kept(Shown, Shown'), NEW p \in Peers, NEW kind, NEW num,
         Tell(p, kind, num),
         AnswerBacked(Shown', p, [kind |-> kind, num |-> num])
  PROVE  AnswersBacked'
<1> DEFINE m == [kind |-> kind, num |-> num]
<1>1. /\ toMaster \in [Peers -> Seq(ToMaster)] /\ toMaster[p] \in Seq(ToMaster)
      /\ toMaster' = [toMaster EXCEPT ![p] = Append(toMaster[p], m)]
  BY DEF Inv, TypeOK, Tell
<1>2. \A q \in Peers : \A i \in DOMAIN toMaster[q] : AnswerBacked(Shown', q, toMaster[q][i])
  BY BackedKept DEF Inv, AnswersBacked
<1>3. Append(toMaster[p], m) \in Seq(ToMaster)
  <2>1. toMaster' \in [Peers -> Seq(ToMaster)] /\ toMaster'[p] = Append(toMaster[p], m)
    BY <1>1 DEF TypeOK
  <2> QED
    BY <2>1
<1> DEFINE q == Append(toMaster[p], m)
<1>4. /\ Len(q) = Len(toMaster[p]) + 1 /\ q[Len(toMaster[p]) + 1] = m
      /\ \A i \in 1..Len(toMaster[p]) : q[i] = toMaster[p][i]
      /\ DOMAIN q = 1..(Len(toMaster[p]) + 1) /\ DOMAIN toMaster[p] = 1..Len(toMaster[p])
  BY <1>1, AppendProperties, LenProperties
<1> HIDE DEF m, q
<1>5. AnswerBacked(Shown', p, m)
  BY DEF m
<1>6. toMaster' = [toMaster EXCEPT ![p] = q]
  BY <1>1 DEF q
<1>7. \A i \in DOMAIN q : AnswerBacked(Shown', p, q[i])
  <2>1. \A i \in DOMAIN toMaster[p] : AnswerBacked(Shown', p, toMaster[p][i])
    BY <1>2
  <2>2. SUFFICES ASSUME NEW i \in DOMAIN q PROVE AnswerBacked(Shown', p, q[i])
    OBVIOUS
  <2>3. CASE i \in DOMAIN toMaster[p]
    BY <1>4, <2>1, <2>3
  <2>4. CASE i = Len(toMaster[p]) + 1
    BY <1>4, <1>5, <2>4
  <2>5. Len(toMaster[p]) \in Nat
    BY <1>1, LenProperties
  <2> QED
    BY <1>4, <2>3, <2>4, <2>5
<1> QED
  BY <1>1, <1>2, <1>6, <1>7 DEF AnswersBacked

LEMMA PeerPrecommitInv ==
  ASSUME Inv, TypeOK', NEW p \in Peers, NEW k \in 1..MaxRecv, PeerPrecommit(p, k)
  PROVE  Inv'
<1>1. /\ UNCHANGED toMaster \/ Tell(p, "ACK", NoNum)
      /\ UNCHANGED <<sharedVars, workerVars, userVars>> /\ UNCHANGED <<file, spilled>>
  BY DEF PeerPrecommit
<1>2. Kept(Shown, Shown') /\ file'[Master] = file[Master] /\ SpilledFull'
  BY <1>1, SameKept, SameFull
<1>3. AnswerBacked(Shown', p, [kind |-> "ACK", num |-> NoNum])
  BY DEF AnswerBacked
<1>4. AnswersBacked'
  BY <1>1, <1>2, <1>3, KeptAnswers, TellBacked
<1> QED
  BY <1>1, <1>2, <1>4, PeerStep

\* Of what the dying peer sent a part may still arrive.
LEMMA DiesBacked ==
  ASSUME Inv, TypeOK', UNCHANGED <<file, spilled>>, NEW p \in Peers, Dies(p)
  PROVE  AnswersBacked'
<1>1. toMaster \in [Peers -> Seq(ToMaster)] /\ toMaster[p] \in Seq(ToMaster)
  BY DEF Inv, TypeOK
<1>2. PICK k \in 0..Len(toMaster[p]) :
        toMaster' = [toMaster EXCEPT ![p] = SubSeq(toMaster[p], 1, k)]
  BY DEF Dies
<1> DEFINE q == SubSeq(toMaster[p], 1, k)
<1>3. \A i \in DOMAIN q : i \in DOMAIN toMaster[p] /\ q[i] = toMaster[p][i]
  BY <1>1, SubSeqProperties, LenProperties
<1>4. toMaster' = [toMaster EXCEPT ![p] = q]
  BY <1>2
<1> HIDE DEF q
<1>5. Shown' = Shown
  BY SameKept
<1> QED
  BY <1>1, <1>3, <1>4, <1>5 DEF Inv, AnswersBacked

\* A peer reports success of a number only after storing it.
LEMMA CommittedInv ==
  ASSUME Inv, TypeOK', NEW p \in Peers, NEW k, NEW f, NEW result \in Verdicts,
         Committed(p, k, f, result), UNCHANGED <<sharedVars, workerVars, userVars>>,
         Kept(Shown, Shown'), SpilledFull',
         result = "WROTE" => /\ file'[p] # <<>>
                             /\ Head(toPeer[p]).line.num \in Nums =>
                                  Found(Shown'[p], Head(toPeer[p]).line.num) # {}
  PROVE  Inv'
<1> DEFINE num == Head(toPeer[p]).line.num
<1>1. Tell(p, AnswerTo(result), num) /\ file'[Master] = file[Master]
  BY DEF Committed, Inv, TypeOK
<1>2. AnswerTo(result) = "SUCCESS" => result = "WROTE"
  BY DEF AnswerTo, Verdicts
<1>3. result = "WROTE" => Full(Shown', p) /\ (num \in Nums => Found(Shown'[p], num) # {})
  <2>1. p \in Servers
    OBVIOUS
  <2> QED
    BY <2>1, ViewFacts DEF Shown, Full
<1> HIDE DEF num
<1>4. AnswerBacked(Shown', p, [kind |-> AnswerTo(result), num |-> num])
  BY <1>2, <1>3 DEF AnswerBacked
<1>5. AnswersBacked'
  BY <1>1, <1>4, TellBacked
<1> QED
  BY <1>1, <1>5, PeerStep

LEMMA PeerCommitInv ==
  ASSUME Inv, TypeOK', NEW p \in Peers, NEW k \in 1..MaxRecv, PeerCommit(p, k)
  PROVE  Inv'
<1> DEFINE m == Head(toPeer[p])
           cmd == CmdOf(m)
           more(r) == IF r.result = "WROTE" THEN Rest(k) ELSE <<>>
<1>1. /\ UNCHANGED <<sharedVars, workerVars, userVars>> /\ UNCHANGED spilled
      /\ MayRecv(p, k)
  BY Zenon DEF PeerCommit
<1>2. m.line \in Line
  <2>1. m \in ToPeer
    BY <1>1, HeadType DEF MayRecv, Inv
  <2> QED
    BY <2>1 DEF ToPeer
<1>3. file[p] \in Seq(Line) /\ p \in Servers
  BY DEF Inv, TypeOK
<1>4. CASE Dies(p) /\ UNCHANGED file
  <2>1. AnswersBacked'
    BY <1>1, <1>4, DiesBacked
  <2>2. Kept(Shown, Shown') /\ SpilledFull' /\ file'[Master] = file[Master]
    BY <1>1, <1>4, SameKept, SameFull
  <2> QED
    BY <1>1, <2>1, <2>2, PeerStep
<1>5. ASSUME NEW r \in SaveResults(file[p], cmd, m.line),
             Committed(p, k, r.file \o more(r), r.result)
      PROVE  Inv'
  <2>1. file' = [file EXCEPT ![p] = r.file \o more(r)]
    BY <1>5 DEF Committed
  <2>2. Rest(k) \in Seq(Line) /\ <<>> \in Seq(Line)
    BY RestType
  <2>3. more(r) \in Seq(Line)
    BY <2>2
  <2> HIDE DEF cmd, more
  <2>4. r.result \in Verdicts
    BY <1>2, <1>3, SaveResultsType
  <2>5. /\ Kept(Shown, Shown')
        /\ \A t \in Servers : file[t] # <<>> => file'[t] # <<>>
        /\ r.result = "WROTE" => Found(file'[p], m.line.num) # {} /\ file'[p] # <<>>
    BY <1>1, <1>2, <1>3, <2>1, <2>3, SaveResultsSaved DEF Inv
  <2>6. SpilledFull'
    BY <1>1, <2>5, SpilledFullKept DEF Inv
  <2>7. r.result = "WROTE" /\ m.line.num \in Nums => Found(Shown'[p], m.line.num) # {}
    BY <1>3, <2>5, ViewFacts, EveryFacts DEF Shown
  <2> QED
    BY <1>1, <1>5, <2>4, <2>5, <2>6, <2>7, CommittedInv
<1> QED
  BY <1>4, <1>5 DEF PeerCommit

LEMMA PeerCommitSpillsInv ==
  ASSUME Inv, TypeOK', NEW p \in Peers, NEW k \in 1..MaxRecv, PeerCommitSpills(p, k)
  PROVE  Inv'
<1> DEFINE m == Head(toPeer[p])
<1>1. /\ UNCHANGED <<sharedVars, workerVars, userVars>>
      /\ MayRecv(p, k) /\ spilled' = spilled \cup {p}
  BY Zenon DEF PeerCommitSpills
<1>2. PICK f \in Spills(p, CmdOf(m), <<m.line>> \o Rest(k)) : Committed(p, k, f, "WROTE")
  BY DEF PeerCommitSpills
<1>3. <<m.line>> \o Rest(k) \in Seq(Line) /\ <<m.line>> \o Rest(k) # <<>>
  <2>1. m \in ToPeer
    BY <1>1, HeadType DEF MayRecv, Inv
  <2>2. m.line \in Line
    BY <2>1 DEF ToPeer
  <2> QED
    BY <2>2, MergedType
<1>4. p \in Servers /\ "WROTE" \in Verdicts
  BY DEF Verdicts
<1>5. file' = [file EXCEPT ![p] = f]
  BY <1>2 DEF Committed
<1> HIDE DEF m
<1>6. /\ Kept(Shown, Shown') /\ SpilledFull'
      /\ \A num \in Nums : Found(Shown'[p], num) # {}
      /\ file'[p] # <<>>
  BY <1>1, <1>2, <1>3, <1>4, <1>5, SpillsSaved DEF Inv
<1> QED
  BY <1>1, <1>2, <1>4, <1>6, CommittedInv DEF m

\* The remaining steps of a peer.
LEMMA PeerOtherInv ==
  ASSUME Inv, TypeOK', NEW p \in Peers,
         \/ \E k \in 1..MaxRecv : PeerRefuses(p, k) \/ PeerEnd(p, k)
         \/ SlaveTimeout(p) \/ PeerStart(p) \/ PeerCrash(p)
  PROVE  Inv'
<1>1. UNCHANGED <<sharedVars, workerVars, userVars>> /\ UNCHANGED <<file, spilled>>
  BY DEF PeerRefuses, PeerEnd, SlaveTimeout, PeerStart, PeerCrash
<1>2. Kept(Shown, Shown') /\ file'[Master] = file[Master] /\ SpilledFull'
  BY <1>1, SameKept, SameFull
<1>3. CASE UNCHANGED toMaster
  <2>1. AnswersBacked'
    BY <1>2, <1>3, KeptAnswers
  <2> QED
    BY <1>1, <1>2, <2>1, PeerStep
<1>4. CASE Dies(p)
  <2>1. AnswersBacked'
    BY <1>1, <1>4, DiesBacked
  <2> QED
    BY <1>1, <1>2, <2>1, PeerStep
<1> QED
  BY <1>3, <1>4 DEF PeerRefuses, PeerEnd, SlaveTimeout, PeerStart, PeerCrash, netVars

-----------------------------------------------------------------------------
(* The specification *)

LEMMA InitInv == Init => Inv
<1> SUFFICES ASSUME Init PROVE Inv
  OBVIOUS
<1>1. TypeOK
  BY InitType
<1>2. WorkersBacked
  BY DEF Init, WorkersBacked, Backed, Returning, Called, Fresh, Returns, ReplyStates
<1>3. StatesBacked
  BY DEF Init, StatesBacked
<1>3a. SpilledFull
  BY DEF Init, SpilledFull
<1>4. AnswersBacked
  BY DEF Init, AnswersBacked
<1>5. EventsBacked
  BY DEF Init, EventsBacked
<1>6. PeersFirst
  BY DEF Init, PeersFirst, Answered
<1> QED
  BY <1>1, <1>2, <1>3, <1>3a, <1>4, <1>5, <1>6 DEF Inv

LEMMA NextInv == Inv /\ [Next]_vars => Inv'
<1> SUFFICES ASSUME Inv, [Next]_vars PROVE Inv'
  OBVIOUS
<1>0. TypeOK'
  BY NextType DEF Inv
<1>1. ASSUME NEW w \in Workers, Step(w) PROVE Inv'
  BY <1>0, <1>1, ConnectInv, LinkInv, ConnectedInv, SendInv, MarkInv, CheckInv, SetMasterInv,
     PostInv, NoteInv, OnceInv, TakeEventInv, FindInv, CommitInv, WaitSaveInv,
     AnswerInv, SaveInv, ClearInv DEF Step
<1>2. ASSUME NEW w \in Workers, Receive(w) PROVE Inv'
  BY <1>0, <1>2, RecvReplyInv, PeerClosedInv DEF Receive
<1>3. ASSUME NEW w \in Workers, Command(w) PROVE Inv'
  BY <1>0, <1>3, SubmitInv
<1>4. CASE MasterTimerFires
  BY <1>0, <1>4, MasterTimerFiresInv
<1>5. ASSUME NEW p \in Peers, PeerRecv(p) PROVE Inv'
  BY <1>0, <1>5, PeerPrecommitInv, PeerCommitInv, PeerOtherInv DEF PeerRecv
<1>6. ASSUME NEW p \in Peers, SlaveTimeout(p) \/ PeerCrash(p) \/ PeerStart(p) PROVE Inv'
  BY <1>0, <1>6, PeerOtherInv
<1>7. CASE Spilling
  BY <1>0, <1>7, SaveInv, PeerCommitSpillsInv DEF Spilling
<1>8. CASE UNCHANGED vars
  <2>1. UNCHANGED <<srv, toMaster, queue, verdict, file, spilled>> /\ UNCHANGED workerVars
    BY <1>8 DEF vars, sharedVars, netVars, userVars
  <2>2. WorkersBacked'
    BY <1>0, <2>1, SameKept, KeptWorkers
  <2> QED
    BY <1>0, <2>1, <2>2, QuietStep
<1> QED
  BY <1>1, <1>2, <1>3, <1>4, <1>5, <1>6, <1>7, <1>8 DEF Next, Exchange

LEMMA Invariant == Spec => []Inv
BY InitInv, NextInv, PTL DEF Spec

\* Whatever the number of peers, users, workers and events, however messages,
\* timeouts and crashes interleave, and whatever a REPLACE runs over: as long as one
\* peer's bbfile is empty the master stores nothing and tells no user that his message
\* was written.
THEOREM PeersFirstHolds == Spec => []PeersFirst
<1>1. Inv => PeersFirst
  BY DEF Inv
<1> QED
  BY <1>1, Invariant, PTL

\* Likewise, a success event that waits in the queue carries a number that some
\* peer has stored, or one that was never sent, as long as no REPLACE has run over
\* other lines.
THEOREM SuccessEventBackedHolds == Spec => []SuccessEventBacked
<1>1. Inv => SuccessEventBacked
  <2>1. SUFFICES ASSUME Inv, Unspilled, NEW i \in DOMAIN queue,
                        queue[i].type = "COMMIT_SUCCESS", queue[i].num \in Nums
                 PROVE  \E p \in Peers : Holds(p, queue[i].num)
    BY DEF SuccessEventBacked
  <2>2. PICK p \in Peers : Found(Shown[p], queue[i].num) # {}
    BY <2>1 DEF Inv, EventsBacked, EventBacked, Backing
  <2>3. Shown[p] = file[p]
    <3>1. p \in Servers
      OBVIOUS
    <3> QED
      BY <2>1, <3>1, ViewFacts DEF Shown, Unspilled
  <2> QED
    BY <2>2, <2>3 DEF Holds
<1> QED
  BY <1>1, Invariant, PTL

-----------------------------------------------------------------------------
(* What holds with one worker: its place in the code says what it may rely on,
   since nobody else changes a user's record, or a peer's, behind its back. *)

\* A step changes the files only by saving.
LEMMA FileSteps ==
  ASSUME [Exchange]_vars
  PROVE  \/ UNCHANGED file
         \/ \E w \in Workers : Save(w)
         \/ \E p \in Peers, k \in 1..MaxRecv : PeerCommit(p, k)
<1>1. ASSUME NEW w \in Workers, Step(w) PROVE UNCHANGED file \/ Save(w)
  BY <1>1, Zenon DEF Step, Connect, Link, Connected, Send, Mark, Check, SetMaster, Post, Note, Once,
     TakeEvent, FindCommit, FindAbort, FindSave, FindUndo, Find, Commit, WaitSave,
     Refuse, Reply, Undo, Clear
<1>2. ASSUME NEW w \in Workers, Receive(w) PROVE UNCHANGED file
  BY <1>2 DEF Receive, RecvReply, PeerClosed
<1>3. ASSUME NEW w \in Workers, Command(w) PROVE UNCHANGED file
  BY <1>3 DEF Command, SubmitWrite, SubmitReplace, Submit
<1>4. CASE MasterTimerFires
  BY <1>4 DEF MasterTimerFires
<1>5. ASSUME NEW p \in Peers, PeerRecv(p)
      PROVE  UNCHANGED file \/ \E k \in 1..MaxRecv : PeerCommit(p, k)
  BY <1>5 DEF PeerRecv, PeerPrecommit, PeerRefuses, PeerEnd
<1>6. ASSUME NEW p \in Peers, SlaveTimeout(p) \/ PeerCrash(p) \/ PeerStart(p)
      PROVE  UNCHANGED file
  BY <1>6 DEF SlaveTimeout, PeerCrash, PeerStart
<1>7. CASE UNCHANGED vars
  BY <1>7 DEF vars
<1> QED
  BY <1>1, <1>2, <1>3, <1>4, <1>5, <1>6, <1>7 DEF Exchange

\* The workers' places and the users' records belong to the workers.
LEMMA OutsideSteps ==
  ASSUME \/ MasterTimerFires
         \/ \E p \in Peers : PeerRecv(p) \/ SlaveTimeout(p) \/ PeerCrash(p) \/ PeerStart(p)
         \/ UNCHANGED vars
  PROVE  UNCHANGED <<srv, workerVars, client, msgNumber>>
<1>1. ASSUME NEW p \in Peers, PeerRecv(p) \/ SlaveTimeout(p) \/ PeerCrash(p) \/ PeerStart(p)
      PROVE  UNCHANGED <<srv, workerVars, client, msgNumber>>
  BY <1>1 DEF PeerRecv, PeerPrecommit, PeerCommit, PeerRefuses, PeerEnd, SlaveTimeout,
     PeerCrash, PeerStart, sharedVars, userVars
<1>2. CASE MasterTimerFires
  BY <1>2 DEF MasterTimerFires, userVars
<1>3. CASE UNCHANGED vars
  BY <1>3 DEF vars, sharedVars, userVars
<1> QED
  BY <1>1, <1>2, <1>3
=============================================================================
