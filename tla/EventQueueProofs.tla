-------------------------- MODULE EventQueueProofs --------------------------
(* The events left behind in the queue, for any number of threads and events. *)
EXTENDS EventQueue, FiniteSetTheorems, SequenceTheorems, TLAPS

USE QueueConstantsOK DEF Threads, Events

-----------------------------------------------------------------------------
(* Types *)

LEMMA InitType == Init => TypeOK
<1> SUFFICES ASSUME Init PROVE TypeOK
  OBVIOUS
<1>1. <<>> \in Seq(Events)
  BY EmptySeq
<1> QED
  BY <1>1 DEF Init, TypeOK, WorkerLabels, MainLabels

LEMMA PostType ==
  ASSUME TypeOK, Post
  PROVE  TypeOK'
<1>1. posted \in Nat /\ posted < MaxEvents /\ posted' = posted + 1
      /\ posted' \in Events /\ posted' \in 0..MaxEvents
  BY DEF TypeOK, Post
<1>2. queue' \in Seq(Events)
  BY <1>1, AppendProperties DEF TypeOK, Post
<1>3. CASE At("waiting") = {} /\ missed' = missed + 1 /\ pc' = pc
  BY <1>1, <1>2, <1>3 DEF TypeOK, Post
<1>4. CASE \E t \in At("waiting") : pc' = [pc EXCEPT ![t] = "woken"] /\ missed' = missed
  BY <1>1, <1>2, <1>4 DEF TypeOK, Post, At, WorkerLabels, MainLabels
<1> QED
  BY <1>3, <1>4 DEF Post, Signal

LEMMA WakeType ==
  ASSUME TypeOK, NEW t \in Threads, Wake(t)
  PROVE  TypeOK'
<1>1. CASE queue = <<>>
  BY <1>1 DEF TypeOK, Wake, After, Taken, WorkerLabels, MainLabels
<1>2. CASE queue # <<>>
  <2>1. Head(queue) \in Events /\ Tail(queue) \in Seq(Events)
    BY <1>2, HeadTailProperties DEF TypeOK
  <2>2. event' \in [Workers -> 0..MaxEvents]
    BY <1>2, <2>1 DEF TypeOK, Wake, Taken
  <2>3. pc' = [pc EXCEPT ![t] = IF t = Main THEN "drain" ELSE "handling"]
    BY <1>2 DEF Wake, After
  <2> QED
    BY <1>2, <2>1, <2>2, <2>3 DEF TypeOK, Wake, WorkerLabels, MainLabels
<1> QED
  BY <1>1, <1>2

LEMMA OtherType ==
  ASSUME TypeOK,
         \/ \E t \in Threads : Wait(t) \/ WakeSpuriously(t)
         \/ \E w \in Workers : Finish(w)
         \/ Terminate \/ Drain
  PROVE  TypeOK'
<1>1. ASSUME NEW t \in Threads, Wait(t) \/ WakeSpuriously(t)
      PROVE  TypeOK'
  <2>1. CASE Wait(t)
    BY <2>1 DEF TypeOK, Wait, WorkerLabels, MainLabels
  <2>2. CASE WakeSpuriously(t)
    <3>1. spurious' \in 0..MaxSpurious
      BY <2>2 DEF TypeOK, WakeSpuriously
    <3>2. pc' = [pc EXCEPT ![t] = "woken"] /\ UNCHANGED <<queue, event, posted, missed>>
      BY <2>2 DEF WakeSpuriously
    <3> QED
      BY <3>1, <3>2 DEF TypeOK, WorkerLabels, MainLabels
  <2> QED
    BY <1>1, <2>1, <2>2
<1>2. ASSUME NEW w \in Workers, Finish(w)
      PROVE  TypeOK'
  BY <1>2 DEF TypeOK, Finish, WorkerLabels, MainLabels
<1>3. CASE Terminate \/ Drain
  BY <1>3 DEF TypeOK, Terminate, Drain, WorkerLabels, MainLabels
<1> QED
  BY <1>1, <1>2, <1>3

LEMMA NextType == TypeOK /\ [Next]_vars => TypeOK'
<1> SUFFICES ASSUME TypeOK, [Next]_vars PROVE TypeOK'
  OBVIOUS
<1>1. CASE UNCHANGED vars
  BY <1>1 DEF vars, TypeOK
<1>2. CASE Next
  BY <1>2, PostType, WakeType, OtherType DEF Next, PostOutside, PostInside, Consume
<1> QED
  BY <1>1, <1>2

\* Whatever the number of threads and events, the queue holds posted events,
\* workers handle and only the main thread drains.
THEOREM TypeCorrect == Spec => []TypeOK
BY InitType, NextType, PTL DEF Spec

-----------------------------------------------------------------------------
(* Events against threads on their way to them, from both sides *)

Inv == TypeOK /\ LeftBehind /\ SignalFindsEvent

LEMMA WokenFinite ==
  ASSUME NEW S, S \subseteq Threads
  PROVE  IsFiniteSet(S) /\ Cardinality(S) \in Nat
<1>1. IsFiniteSet(Threads)
  BY FS_AddElement
<1> QED
  BY <1>1, FS_Subset, FS_CardinalityType

LEMMA InitInv == Init => Inv
<1> SUFFICES ASSUME Init PROVE Inv
  OBVIOUS
<1>1. At("woken") = {}
  BY DEF Init, At
<1>2. Cardinality(At("woken")) = 0
  BY <1>1, FS_EmptySet
<1>3. Len(queue) = 0 /\ missed = 0 /\ spurious = 0
  BY EmptySeq DEF Init
<1> QED
  BY <1>2, <1>3, InitType DEF Inv, LeftBehind, SignalFindsEvent

\* A signal is sent with every event: it wakes a thread or is counted.
LEMMA PostInv ==
  ASSUME Inv, TypeOK', Post
  PROVE  Inv'
<1>1. Len(queue') = Len(queue) + 1 /\ Len(queue) \in Nat
  BY AppendProperties, LenProperties DEF Inv, TypeOK, Post
<1>2. Cardinality(At("woken")) \in Nat /\ IsFiniteSet(At("woken")) /\ missed \in Nat
      /\ spurious' = spurious /\ spurious \in Nat
  BY WokenFinite DEF At, Inv, TypeOK, Post
<1>3. ASSUME NEW t \in At("waiting"), pc' = [pc EXCEPT ![t] = "woken"], missed' = missed
      PROVE  Inv'
  <2>1. At("woken")' = At("woken") \cup {t} /\ t \notin At("woken")
    BY <1>3 DEF At, Inv, TypeOK
  <2>2. Cardinality(At("woken")') = Cardinality(At("woken")) + 1
    BY <1>2, <2>1, FS_AddElement
  <2> QED
    BY <1>1, <1>2, <1>3, <2>2 DEF Inv, LeftBehind, SignalFindsEvent
<1>4. ASSUME missed' = missed + 1, pc' = pc
      PROVE  Inv'
  <2>1. At("woken")' = At("woken")
    BY <1>4 DEF At
  <2> QED
    BY <1>1, <1>2, <1>4, <2>1 DEF Inv, LeftBehind, SignalFindsEvent
<1> QED
  BY <1>3, <1>4 DEF Post, Signal

\* A thread back from the wait takes one event, if there is one.
LEMMA WakeInv ==
  ASSUME Inv, TypeOK', NEW t \in Threads, Wake(t)
  PROVE  Inv'
<1>1. At("woken")' = At("woken") \ {t} /\ t \in At("woken")
  BY DEF At, Inv, TypeOK, Wake, After
<1>2. Cardinality(At("woken")') = Cardinality(At("woken")) - 1
      /\ Cardinality(At("woken")') \in Nat /\ Cardinality(At("woken")) \in Nat
  <2>1. IsFiniteSet(At("woken")) /\ Cardinality(At("woken")) \in Nat
    BY WokenFinite DEF At
  <2>2. Cardinality(At("woken") \ {t}) = Cardinality(At("woken")) - 1
    BY <1>1, <2>1, FS_RemoveElement
  <2>3. At("woken") \ {t} \subseteq Threads
    BY DEF At
  <2>4. Cardinality(At("woken") \ {t}) \in Nat
    BY <2>3, WokenFinite
  <2> QED
    BY <1>1, <2>1, <2>2, <2>4
<1>3. missed' = missed /\ missed \in Nat /\ spurious' = spurious /\ spurious \in Nat
  BY DEF Inv, TypeOK, Wake
<1>4. CASE queue = <<>>
  <2>1. queue' = <<>> /\ Len(queue) = 0 /\ Len(queue') = 0
    BY <1>4, EmptySeq DEF Wake
  <2> QED
    BY <1>2, <1>3, <2>1 DEF Inv, LeftBehind, SignalFindsEvent
<1>5. CASE queue # <<>>
  <2>1. Len(queue') = Len(queue) - 1 /\ Len(queue) \in Nat
    BY <1>5, HeadTailProperties, LenProperties DEF Inv, TypeOK, Wake
  <2> QED
    BY <1>2, <1>3, <2>1 DEF Inv, LeftBehind, SignalFindsEvent
<1> QED
  BY <1>4, <1>5

\* A spurious wakeup adds a thread that no event was posted for.
LEMMA WakeSpuriouslyInv ==
  ASSUME Inv, TypeOK', NEW t \in Threads, WakeSpuriously(t)
  PROVE  Inv'
<1>1. At("woken")' = At("woken") \cup {t} /\ t \notin At("woken")
  BY DEF At, Inv, TypeOK, WakeSpuriously
<1>2. Cardinality(At("woken")') = Cardinality(At("woken")) + 1
      /\ Cardinality(At("woken")) \in Nat
  BY <1>1, WokenFinite, FS_AddElement DEF At
<1>3. queue' = queue /\ missed' = missed /\ spurious' = spurious + 1
      /\ spurious \in Nat /\ missed \in Nat /\ Len(queue) \in Nat
  BY LenProperties DEF WakeSpuriously, Inv, TypeOK
<1> QED
  BY <1>2, <1>3 DEF Inv, LeftBehind, SignalFindsEvent

LEMMA OtherInv ==
  ASSUME Inv, TypeOK',
         \/ \E t \in Threads : Wait(t)
         \/ \E w \in Workers : Finish(w)
         \/ Terminate \/ Drain \/ UNCHANGED vars
  PROVE  Inv'
<1>1. At("woken")' = At("woken") /\ UNCHANGED <<queue, missed, spurious>>
  BY DEF At, Inv, TypeOK, Wait, Finish, Terminate, Drain, vars
<1> QED
  BY <1>1 DEF Inv, LeftBehind, SignalFindsEvent

LEMMA NextInv == Inv /\ [Next]_vars => Inv'
<1> SUFFICES ASSUME Inv, [Next]_vars PROVE Inv'
  OBVIOUS
<1>1. TypeOK'
  BY NextType DEF Inv
<1> QED
  BY <1>1, PostInv, WakeInv, WakeSpuriouslyInv, OtherInv
     DEF Next, PostOutside, PostInside, Consume

LEMMA Invariant == Spec => []Inv
BY InitInv, NextInv, PTL DEF Spec

\* However many threads wait, handle and drain: an event is left behind only
\* by a signal that came while every thread was busy.
THEOREM LeftBehindHolds == Spec => []LeftBehind
<1>1. Inv => LeftBehind
  BY DEF Inv
<1> QED
  BY <1>1, Invariant, PTL

\* Every signal is good for an event: without spurious wakeups, no thread that
\* returns from the wait finds the queue empty.
THEOREM SignalFindsEventHolds == Spec => []SignalFindsEvent
<1>1. Inv => SignalFindsEvent
  BY DEF Inv
<1> QED
  BY <1>1, Invariant, PTL
=============================================================================
