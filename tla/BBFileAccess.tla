---------------------------- MODULE BBFileAccess ----------------------------
(***************************************************************************)
(* The access of the threads to the bbfile (semaphore.cpp): the semaphore  *)
(* wrt, and the count of readers under readerMutex. One step per operation *)
(* on the semaphore, the mutex or the count.                               *)
(***************************************************************************)
EXTENDS Integers, FiniteSets

CONSTANT Threads   \* the worker threads, which read and save messages

ASSUME ThreadsFinite == IsFiniteSet(Threads)

VARIABLES
  wrt,          \* value of the semaphore
  readerMutex,  \* the threads that hold it, none or one
  readerCnt,    \* number of readers
  pc            \* where each thread is

vars == <<wrt, readerMutex, readerCnt, pc>>

Labels == {"idle", "writeWait", "writing",
           "readInc", "readWait", "readUnlock", "reading",
           "endDec", "endPost", "endUnlock"}

At(l) == {t \in Threads : pc[t] = l}

Init ==
  /\ wrt = 1
  /\ readerMutex = {}
  /\ readerCnt = 0
  /\ pc = [t \in Threads |-> "idle"]

Move(t, from, to) == pc[t] = from /\ pc' = [pc EXCEPT ![t] = to]

Lock(t)   == readerMutex = {} /\ readerMutex' = {t}
Unlock(t) == readerMutex' = readerMutex \ {t}

-----------------------------------------------------------------------------
(* write_start() and write_end() *)

WriteTry(t) ==
  /\ Move(t, "idle", "writeWait")
  /\ UNCHANGED <<wrt, readerMutex, readerCnt>>

WriteBegin(t) ==
  /\ Move(t, "writeWait", "writing")
  /\ wrt > 0 /\ wrt' = wrt - 1
  /\ UNCHANGED <<readerMutex, readerCnt>>

\* Faulty variant of WriteEnd: the semaphore goes to the next writer first.
WriteHandOver(t) ==
  /\ pc[t] = "writing"
  /\ \/ /\ \E u \in At("writeWait") :
             pc' = [pc EXCEPT ![t] = "idle", ![u] = "writing"]
        /\ UNCHANGED wrt
     \/ /\ At("writeWait") = {}
        /\ pc' = [pc EXCEPT ![t] = "idle"]
        /\ wrt' = wrt + 1
  /\ UNCHANGED <<readerMutex, readerCnt>>

WriteEnd(t) ==
  /\ Move(t, "writing", "idle")
  /\ wrt' = wrt + 1
  /\ UNCHANGED <<readerMutex, readerCnt>>

-----------------------------------------------------------------------------
(* read_start(): the first reader takes the semaphore, inside the mutex *)

ReadLock(t) ==
  /\ Move(t, "idle", "readInc")
  /\ Lock(t)
  /\ UNCHANGED <<wrt, readerCnt>>

\* Faulty variant of ReadCount: the count is tested before it is increased.
ReadCountLate(t) ==
  /\ Move(t, "readInc", IF readerCnt = 1 THEN "readWait" ELSE "readUnlock")
  /\ readerCnt' = readerCnt + 1
  /\ UNCHANGED <<wrt, readerMutex>>

ReadCount(t) ==
  /\ readerCnt' = readerCnt + 1
  /\ Move(t, "readInc", IF readerCnt' = 1 THEN "readWait" ELSE "readUnlock")
  /\ UNCHANGED <<wrt, readerMutex>>

ReadWait(t) ==
  /\ Move(t, "readWait", "readUnlock")
  /\ wrt > 0 /\ wrt' = wrt - 1
  /\ UNCHANGED <<readerMutex, readerCnt>>

ReadBegin(t) ==
  /\ Move(t, "readUnlock", "reading")
  /\ Unlock(t)
  /\ UNCHANGED <<wrt, readerCnt>>

-----------------------------------------------------------------------------
(* read_end(): the last reader gives it back *)

EndLock(t) ==
  /\ Move(t, "reading", "endDec")
  /\ Lock(t)
  /\ UNCHANGED <<wrt, readerCnt>>

\* Faulty variant of EndCount: every reader gives the semaphore back.
EndCountAlways(t) ==
  /\ readerCnt' = readerCnt - 1
  /\ Move(t, "endDec", "endPost")
  /\ UNCHANGED <<wrt, readerMutex>>

EndCount(t) ==
  /\ readerCnt' = readerCnt - 1
  /\ Move(t, "endDec", IF readerCnt' = 0 THEN "endPost" ELSE "endUnlock")
  /\ UNCHANGED <<wrt, readerMutex>>

EndPost(t) ==
  /\ Move(t, "endPost", "endUnlock")
  /\ wrt' = wrt + 1
  /\ UNCHANGED <<readerMutex, readerCnt>>

EndUnlock(t) ==
  /\ Move(t, "endUnlock", "idle")
  /\ Unlock(t)
  /\ UNCHANGED <<wrt, readerCnt>>

-----------------------------------------------------------------------------
(* Specification *)

Write(t)  == WriteBegin(t) \/ WriteEnd(t)
Read(t)   == ReadCount(t) \/ ReadWait(t) \/ ReadBegin(t)
EndRead(t) == EndLock(t) \/ EndCount(t) \/ EndPost(t) \/ EndUnlock(t)

Next == \E t \in Threads :
  WriteTry(t) \/ ReadLock(t) \/ Write(t) \/ Read(t) \/ EndRead(t)

Spec == Init /\ [][Next]_vars

\* A thread in the middle of an access goes on, and is not passed over for ever
\* by the others that take the semaphore or the mutex each time they are free:
\* the most a scheduler can give. No thread need start an access.
FairSpec ==
  /\ Spec
  /\ \A t \in Threads : SF_vars(Write(t)) /\ SF_vars(Read(t)) /\ SF_vars(EndRead(t))

-----------------------------------------------------------------------------
(* Properties *)

\* The type invariant: wrt is binary, readerCnt counts threads.
TypeOK ==
  /\ wrt \in {0, 1}
  /\ readerMutex \subseteq Threads
  /\ readerCnt \in 0..Cardinality(Threads)
  /\ pc \in [Threads -> Labels]

\* README: "No other operation (read or write) is allowed when a thread is
\* writting to bbfile": write_start() and read_start() keep them apart.
Exclusion == \A t \in At("writing"), u \in Threads :
  u # t => pc[u] \notin {"reading", "writing"}

\* The threads inside the semaphores see an access of the abstract bbfile: a
\* read lasts from the end of read_start() to the start of read_end().
Abstract == INSTANCE BBFile WITH reading <- At("reading"), writing <- At("writing")

\* Every behaviour of semaphore.cpp is one of the promised accesses.
Promise == Abstract!Spec

\* A started read gets through: neither the writers' competition for wrt nor
\* the waiting inside readerMutex locks the readers up for good.
ReadServed == \A t \in Threads : pc[t] = "readInc" ~> pc[t] = "reading"

=============================================================================
