------------------------- MODULE BBFileAccessProofs -------------------------
(* semaphore.cpp excludes what it should and implements BBFile, for every
   finite set of threads. *)
EXTENDS BBFileAccess, FiniteSetTheorems, TLAPS

-----------------------------------------------------------------------------
(* The inductive invariant *)

Inside  == {"readInc", "readWait", "readUnlock", "endDec", "endPost", "endUnlock"}
Counts  == {"readWait", "readUnlock", "reading", "endDec"}
Holds   == {"readUnlock", "reading", "endDec", "endPost"}

Counted == {t \in Threads : pc[t] \in Counts}

Types ==
  /\ wrt \in {0, 1} /\ readerCnt \in Nat
  /\ readerMutex \subseteq Threads
  /\ pc \in [Threads -> Labels]

\* The mutex is held where the code says so, by one thread.
MutexOK ==
  /\ \A t \in Threads : t \in readerMutex <=> pc[t] \in Inside
  /\ \A t, u \in readerMutex : t = u

\* The count is that of the readers between its increase and its decrease.
CountOK == readerCnt = Cardinality(Counted)

\* The semaphore is taken by one writer, or by the readers together: from the
\* first one's sem_wait() to the last one's sem_post().
TokenOK ==
  /\ wrt = 1 => \A t \in Threads : pc[t] \notin Holds /\ pc[t] # "writing"
  /\ wrt = 0 => \E t \in Threads : pc[t] \in Holds \/ pc[t] = "writing"
  /\ \A t, u \in Threads :
       pc[t] = "writing" /\ (pc[u] \in Holds \/ pc[u] = "writing") => t = u

\* The first reader waits alone, and the last one leaves nobody behind.
EndsOK ==
  /\ \A t \in Threads : pc[t] = "readWait" => Counted = {t}
  /\ \A t \in Threads : pc[t] = "endPost" => Counted = {}

Inv == Types /\ MutexOK /\ CountOK /\ TokenOK /\ EndsOK

LEMMA InitInv == Init => Inv
<1> SUFFICES ASSUME Init PROVE Inv
  OBVIOUS
<1>1. Counted = {}
  BY DEF Init, Counted, Counts
<1> QED
  BY <1>1, FS_EmptySet
     DEF Init, Inv, Types, Labels, MutexOK, Inside, CountOK, TokenOK, Holds, EndsOK

LEMMA CountedFinite ==
  IsFiniteSet(Counted) /\ Cardinality(Counted) \in 0..Cardinality(Threads)
  /\ Cardinality(Threads) \in Nat
<1>1. Counted \in SUBSET Threads
  BY DEF Counted
<1> QED
  BY <1>1, ThreadsFinite, FS_Subset, FS_CardinalityType

-----------------------------------------------------------------------------
(* Every step keeps it *)

\* A step that no reader is counted by.
LEMMA SameCount ==
  ASSUME Inv, NEW t \in Threads, NEW from, NEW to, Move(t, from, to),
         from \in Counts <=> to \in Counts
  PROVE  Counted' = Counted
BY DEF Inv, Types, Move, Counted

LEMMA WriteInv ==
  ASSUME Inv, NEW t \in Threads, WriteTry(t) \/ Write(t)
  PROVE  Inv'
<1> USE DEF Move, Inside, Counts, Holds, Labels
<1>1. Counted' = Counted /\ readerCnt' = readerCnt /\ readerMutex' = readerMutex
  BY SameCount DEF WriteTry, Write, WriteBegin, WriteEnd
<1>2. Types'
  BY DEF Inv, Types, TokenOK, WriteTry, Write, WriteBegin, WriteEnd
<1>3. MutexOK'
  BY <1>1 DEF Inv, Types, MutexOK, WriteTry, Write, WriteBegin, WriteEnd
<1>4. TokenOK'
  <2>1. CASE WriteTry(t)
    BY <2>1 DEF Inv, Types, TokenOK, WriteTry
  <2>2. CASE WriteBegin(t)
    BY <2>2 DEF Inv, Types, TokenOK, WriteBegin
  <2>3. CASE WriteEnd(t)
    BY <2>3 DEF Inv, Types, TokenOK, WriteEnd
  <2> QED
    BY <2>1, <2>2, <2>3 DEF Write
<1>5. EndsOK'
  BY <1>1 DEF Inv, Types, EndsOK, WriteTry, Write, WriteBegin, WriteEnd
<1> QED
  BY <1>1, <1>2, <1>3, <1>4, <1>5 DEF Inv, CountOK

LEMMA ReadLockInv ==
  ASSUME Inv, NEW t \in Threads, ReadLock(t) \/ EndLock(t)
  PROVE  Inv'
<1> USE DEF Move, Inside, Counts, Holds, Labels, Lock, ReadLock, EndLock
<1>1. Counted' = Counted /\ readerCnt' = readerCnt /\ wrt' = wrt
  BY SameCount
<1>2. Types' /\ MutexOK'
  BY DEF Inv, Types, MutexOK
<1>3. TokenOK'
  BY DEF Inv, Types, TokenOK
<1>4. EndsOK'
  BY <1>1 DEF Inv, Types, EndsOK
<1> QED
  BY <1>1, <1>2, <1>3, <1>4 DEF Inv, CountOK

\* The first reader finds nobody counted, and so nobody inside the semaphore;
\* a later one finds another that reads.
LEMMA ReadCountInv ==
  ASSUME Inv, NEW t \in Threads, ReadCount(t)
  PROVE  Inv'
<1> USE DEF Move, Inside, Counts, Holds, Labels, ReadCount
<1>1. Counted' = Counted \cup {t} /\ t \notin Counted
  BY DEF Inv, Types, Counted
<1>2. CountOK' /\ readerCnt' \in Nat /\ (readerCnt' = 1 <=> Counted = {})
  <2>1. readerCnt = Cardinality(Counted) /\ readerCnt \in Nat /\ readerCnt' = readerCnt + 1
    BY DEF Inv, CountOK, Types
  <2>2. Cardinality(Counted \cup {t}) = Cardinality(Counted) + 1
    BY <1>1, CountedFinite, FS_AddElement
  <2>3. Cardinality(Counted) = 0 <=> Counted = {}
    BY CountedFinite, FS_EmptySet
  <2> QED
    BY <1>1, <2>1, <2>2, <2>3 DEF CountOK
<1>3. wrt' = wrt /\ readerMutex' = readerMutex /\ pc[t] = "readInc"
      /\ pc' = [pc EXCEPT ![t] = IF Counted = {} THEN "readWait" ELSE "readUnlock"]
  BY <1>2
<1>4. \A u \in Threads : u # t => pc[u] \notin Inside
  BY <1>3 DEF Inv, Types, MutexOK
<1>5. Types'
  BY <1>2, <1>3 DEF Inv, Types
<1>6. MutexOK'
  BY <1>3 DEF Inv, Types, MutexOK
<1>7. TokenOK'
  <2>1. CASE Counted = {}
    BY <1>3, <2>1 DEF Inv, Types, TokenOK
  <2>2. CASE Counted # {}
    <3>1. PICK u \in Threads : u # t /\ pc[u] = "reading"
      BY <1>1, <1>4, <2>2 DEF Counted
    <3>2. wrt = 0 /\ \A v \in Threads : pc[v] # "writing"
      BY <3>1 DEF Inv, Types, TokenOK
    <3> QED
      BY <1>3, <2>2, <3>1, <3>2 DEF Inv, Types, TokenOK
  <2> QED
    BY <2>1, <2>2
<1>8. EndsOK'
  BY <1>1, <1>3, <1>4 DEF Inv, Types, EndsOK
<1> QED
  BY <1>2, <1>5, <1>6, <1>7, <1>8 DEF Inv

LEMMA ReadWaitInv ==
  ASSUME Inv, NEW t \in Threads, ReadWait(t)
  PROVE  Inv'
<1> USE DEF Move, Inside, Counts, Holds, Labels, ReadWait
<1>1. Counted' = Counted /\ readerCnt' = readerCnt /\ readerMutex' = readerMutex
  BY SameCount
<1>2. Types' /\ MutexOK'
  BY DEF Inv, Types, MutexOK
<1>3. TokenOK'
  BY DEF Inv, Types, TokenOK
<1>4. EndsOK'
  BY <1>1 DEF Inv, Types, EndsOK
<1> QED
  BY <1>1, <1>2, <1>3, <1>4 DEF Inv, CountOK

LEMMA UnlockInv ==
  ASSUME Inv, NEW t \in Threads, ReadBegin(t) \/ EndUnlock(t)
  PROVE  Inv'
<1> USE DEF Move, Inside, Counts, Holds, Labels, Unlock, ReadBegin, EndUnlock
<1>1. Counted' = Counted /\ readerCnt' = readerCnt /\ wrt' = wrt
  BY SameCount
<1>2. Types' /\ MutexOK'
  BY DEF Inv, Types, MutexOK
<1>3. TokenOK'
  BY DEF Inv, Types, TokenOK
<1>4. EndsOK'
  BY <1>1 DEF Inv, Types, EndsOK
<1> QED
  BY <1>1, <1>2, <1>3, <1>4 DEF Inv, CountOK

\* As long as readers are left one of them reads; the last one goes on to give
\* the semaphore back.
LEMMA EndCountInv ==
  ASSUME Inv, NEW t \in Threads, EndCount(t)
  PROVE  Inv'
<1> USE DEF Move, Inside, Counts, Holds, Labels, EndCount
<1>1. Counted' = Counted \ {t} /\ t \in Counted
  BY DEF Inv, Types, Counted
<1>2. CountOK' /\ readerCnt' \in Nat /\ (readerCnt' = 0 <=> Counted' = {})
  <2>1. readerCnt = Cardinality(Counted) /\ readerCnt' = readerCnt - 1
    BY DEF Inv, CountOK
  <2>2. Cardinality(Counted \ {t}) = Cardinality(Counted) - 1 /\ IsFiniteSet(Counted \ {t})
    BY <1>1, CountedFinite, FS_RemoveElement
  <2>3. Cardinality(Counted \ {t}) \in Nat
    BY <2>2, FS_CardinalityType
  <2>4. Cardinality(Counted \ {t}) = 0 <=> Counted \ {t} = {}
    BY <2>2, FS_EmptySet
  <2> QED
    BY <1>1, <2>1, <2>2, <2>3, <2>4 DEF CountOK
<1>3. wrt' = wrt /\ readerMutex' = readerMutex /\ pc[t] = "endDec"
      /\ pc' = [pc EXCEPT ![t] = IF Counted' = {} THEN "endPost" ELSE "endUnlock"]
  BY <1>2
<1>4. \A u \in Threads : u # t => pc[u] \notin Inside
  BY <1>3 DEF Inv, Types, MutexOK
<1>5. Types'
  BY <1>2, <1>3 DEF Inv, Types
<1>6. MutexOK'
  BY <1>3 DEF Inv, Types, MutexOK
<1>7. TokenOK'
  <2>1. wrt = 0 /\ \A v \in Threads : pc[v] # "writing"
    BY <1>3 DEF Inv, Types, TokenOK
  <2>2. CASE Counted' = {}
    BY <1>3, <2>1, <2>2 DEF Inv, Types, TokenOK
  <2>3. CASE Counted' # {}
    <3>1. PICK u \in Threads : u # t /\ pc[u] = "reading"
      BY <1>1, <1>4, <2>3 DEF Counted
    <3> QED
      BY <1>3, <2>1, <2>3, <3>1 DEF Inv, Types, TokenOK
  <2> QED
    BY <2>2, <2>3
<1>8. EndsOK'
  BY <1>1, <1>3, <1>4 DEF Inv, Types, EndsOK
<1> QED
  BY <1>2, <1>5, <1>6, <1>7, <1>8 DEF Inv

LEMMA EndPostInv ==
  ASSUME Inv, NEW t \in Threads, EndPost(t)
  PROVE  Inv'
<1> USE DEF Move, Inside, Counts, Holds, Labels, EndPost
<1>1. Counted' = Counted /\ readerCnt' = readerCnt /\ readerMutex' = readerMutex
  BY SameCount
<1>2. Counted = {} /\ pc[t] = "endPost" /\ pc' = [pc EXCEPT ![t] = "endUnlock"]
  BY DEF Inv, EndsOK
<1>3. wrt = 0 /\ wrt' = 1 /\ \A u \in Threads : pc[u] # "writing"
  BY <1>2 DEF Inv, Types, TokenOK
<1>4. \A u \in Threads : u # t => pc[u] \notin Holds
  BY <1>2 DEF Inv, Types, MutexOK, Counted
<1>5. Types' /\ MutexOK'
  BY <1>2, <1>3 DEF Inv, Types, MutexOK
<1>6. TokenOK'
  BY <1>2, <1>3, <1>4 DEF Inv, Types, TokenOK
<1>7. EndsOK'
  BY <1>1, <1>2 DEF Inv, Types, EndsOK
<1> QED
  BY <1>1, <1>5, <1>6, <1>7 DEF Inv, CountOK

LEMMA NextInv == Inv /\ [Next]_vars => Inv'
<1> SUFFICES ASSUME Inv, [Next]_vars PROVE Inv'
  OBVIOUS
<1>1. ASSUME NEW t \in Threads,
             WriteTry(t) \/ ReadLock(t) \/ Write(t) \/ Read(t) \/ EndRead(t)
      PROVE  Inv'
  BY <1>1, WriteInv, ReadLockInv, ReadCountInv, ReadWaitInv, UnlockInv, EndCountInv,
     EndPostInv DEF Read, EndRead
<1>2. CASE UNCHANGED vars
  BY <1>2 DEF vars, Inv, Types, MutexOK, CountOK, TokenOK, EndsOK, Counted
<1> QED
  BY <1>1, <1>2 DEF Next

LEMMA Invariant == Spec => []Inv
BY InitInv, NextInv, PTL DEF Spec

-----------------------------------------------------------------------------
(* What follows from it *)

\* The semaphore is binary, and the count is one of threads.
THEOREM TypeCorrect == Spec => []TypeOK
<1>1. Inv => TypeOK
  BY CountedFinite DEF Inv, Types, CountOK, TypeOK
<1> QED
  BY <1>1, Invariant, PTL

LEMMA InvExclusion == Inv => Exclusion
BY DEF Inv, Types, TokenOK, Holds, Exclusion, At

\* However many threads read and write: while one is between write_start() and
\* write_end() no other one reads or writes.
THEOREM ExclusionHolds == Spec => []Exclusion
BY InvExclusion, Invariant, PTL

LEMMA StepPromise == Inv /\ Inv' /\ [Next]_vars => [Abstract!Next]_(Abstract!bbfileVars)
<1> SUFFICES ASSUME Inv, Inv', [Next]_vars
             PROVE  Abstract!Next \/ UNCHANGED <<At("reading"), At("writing")>>
  BY DEF Abstract!bbfileVars
<1> USE DEF At, Move, Inv, Types, Labels
<1>1. ASSUME NEW t \in Threads, WriteBegin(t)
      PROVE  Abstract!StartWrite(t)
  <2>1. At("reading") = {} /\ At("writing") = {}
    BY <1>1, InvExclusion DEF WriteBegin, Exclusion, TokenOK, Holds
  <2>2. At("reading")' = {} /\ At("writing")' = {t}
    BY <1>1, <2>1 DEF WriteBegin
  <2> QED
    BY <2>1, <2>2 DEF Abstract!StartWrite
<1>2. ASSUME NEW t \in Threads, WriteEnd(t)
      PROVE  Abstract!EndWrite(t)
  BY <1>2 DEF WriteEnd, Abstract!EndWrite
<1>3. ASSUME NEW t \in Threads, ReadBegin(t)
      PROVE  Abstract!StartRead(t)
  <2>1. At("writing") = {} /\ t \notin At("reading")
    BY <1>3 DEF ReadBegin, TokenOK, Holds
  <2>2. At("reading")' = At("reading") \cup {t} /\ At("writing")' = At("writing")
    BY <1>3 DEF ReadBegin
  <2> QED
    BY <2>1, <2>2 DEF Abstract!StartRead
<1>4. ASSUME NEW t \in Threads, EndLock(t)
      PROVE  Abstract!EndRead(t)
  BY <1>4 DEF EndLock, Abstract!EndRead
<1>5. ASSUME NEW t \in Threads,
             WriteTry(t) \/ ReadLock(t) \/ ReadCount(t) \/ ReadWait(t)
               \/ EndCount(t) \/ EndPost(t) \/ EndUnlock(t)
      PROVE  UNCHANGED <<At("reading"), At("writing")>>
  BY <1>5 DEF WriteTry, ReadLock, ReadCount, ReadWait, EndCount, EndPost, EndUnlock
<1>6. CASE UNCHANGED vars
  BY <1>6 DEF vars
<1> QED
  BY <1>1, <1>2, <1>3, <1>4, <1>5, <1>6 DEF Next, Write, Read, EndRead, Abstract!Next

\* The semaphores implement the accesses the README promises, for any number
\* of threads.
THEOREM PromiseKept == Spec => Promise
<1>1. Init => Abstract!Init
  BY DEF Init, Abstract!Init, At
<1> QED
  BY <1>1, Invariant, StepPromise, PTL DEF Spec, Promise, Abstract!Spec
=============================================================================
