----------------------------- MODULE EventQueue -----------------------------
(***************************************************************************)
(* The event queue and the threads that wait for it (queue.cpp): the       *)
(* workers of the pool (handle_client_event()) and the main thread, whose  *)
(* signal handlers drain the queue (destroy_client_event_queue()).         *)
(*                                                                         *)
(* What clientEvQueueLock protects is one step; pthread_cond_wait() is     *)
(* two, since others may take the lock between the wakeup and the return.  *)
(***************************************************************************)
EXTENDS Integers, Sequences, FiniteSets

CONSTANTS
  Workers,     \* the threads of the pool (THMAX of them)
  Main,        \* the thread that runs main() and the signal handlers
  MaxSpurious, \* bound: returns of pthread_cond_wait() without a signal
  MaxEvents    \* bound: events posted

ASSUME QueueConstantsOK ==
  /\ IsFiniteSet(Workers) /\ Workers # {} /\ Main \notin Workers
  /\ MaxSpurious \in Nat /\ MaxEvents \in Nat \ {0}

Threads == Workers \cup {Main}
Events  == 1..MaxEvents      \* an event, numbered in the order of posting

VARIABLES
  queue,      \* clientEvQueue
  pc,         \* where each thread is
  event,      \* the event a worker handles, 0 for none
  posted,     \* number of events posted
  missed,     \* history: signals sent while no thread waited
  spurious    \* history: returns from the wait without a signal

vars == <<queue, pc, event, posted, missed, spurious>>

\* "idle": about to wait; "woken": signalled, but not yet back from the wait.
WorkerLabels == {"idle", "waiting", "woken", "handling"}
MainLabels   == {"away", "drain", "idle", "waiting", "woken", "done"}

At(l) == {t \in Threads : pc[t] = l}

Init ==
  /\ queue = <<>>
  /\ pc = [t \in Threads |-> IF t = Main THEN "away" ELSE "idle"]
  /\ event = [w \in Workers |-> 0]
  /\ posted = 0
  /\ missed = 0
  /\ spurious = 0

-----------------------------------------------------------------------------
(* enClientEventQueue() *)

\* Faulty variant of Signal: the call is left out.
SignalForgotten == UNCHANGED <<pc, missed>>

\* Faulty variant of Signal: pthread_cond_broadcast().
SignalAll ==
  /\ pc' = [t \in Threads |-> IF pc[t] = "waiting" THEN "woken" ELSE pc[t]]
  /\ missed' = IF At("waiting") = {} THEN missed + 1 ELSE missed

\* pthread_cond_signal(): wakes one thread that waits, or is lost.
Signal ==
  \/ \E t \in At("waiting") :
       pc' = [pc EXCEPT ![t] = "woken"] /\ UNCHANGED missed
  \/ At("waiting") = {} /\ missed' = missed + 1 /\ UNCHANGED pc

Post ==
  /\ posted < MaxEvents
  /\ posted' = posted + 1
  /\ queue' = Append(queue, posted')
  /\ Signal
  /\ UNCHANGED <<event, spurious>>

\* Posted by the connection thread or a timer.
PostOutside == Post

\* Posted by the handler of another event (sync_send_event()).
PostInside(w) == pc[w] = "handling" /\ Post

-----------------------------------------------------------------------------
(* deClientEventQueue() *)

\* The wait is unconditional: queued events are not looked at.
Wait(t) ==
  /\ pc[t] = "idle"
  /\ pc' = [pc EXCEPT ![t] = "waiting"]
  /\ UNCHANGED <<queue, event, posted, missed, spurious>>

\* A return without a signal, which POSIX allows at any time.
WakeSpuriously(t) ==
  /\ pc[t] = "waiting" /\ spurious < MaxSpurious
  /\ spurious' = spurious + 1
  /\ pc' = [pc EXCEPT ![t] = "woken"]
  /\ UNCHANGED <<queue, event, posted, missed>>

\* Faulty variant of After: the main thread handles events like a worker.
AfterAlike(t) == IF queue = <<>> THEN "idle" ELSE "handling"

\* What a thread does after deClientEventQueue(): the main thread deletes the
\* event and drains on, a worker handles it, or ignores a null one.
After(t) == IF t = Main THEN "drain"
            ELSE IF queue = <<>> THEN "idle" ELSE "handling"

\* The events the workers handle when t has taken the first of the queue.
Taken(t) == IF t = Main \/ queue = <<>> THEN event ELSE [event EXCEPT ![t] = Head(queue)]

\* Faulty variant of Wake: the event stays in the queue until it is handled.
WakePeeks(t) ==
  /\ pc[t] = "woken"
  /\ pc' = [pc EXCEPT ![t] = After(t)]
  /\ event' = Taken(t)
  /\ UNCHANGED <<queue, posted, missed, spurious>>

\* Back from the wait, with the first event or with none.
Wake(t) ==
  /\ pc[t] = "woken"
  /\ pc' = [pc EXCEPT ![t] = After(t)]
  /\ queue' = IF queue = <<>> THEN <<>> ELSE Tail(queue)
  /\ event' = Taken(t)
  /\ UNCHANGED <<posted, missed, spurious>>

\* The handler is done, the event deleted.
Finish(w) ==
  /\ pc[w] = "handling"
  /\ pc' = [pc EXCEPT ![w] = "idle"]
  /\ event' = [event EXCEPT ![w] = 0]
  /\ UNCHANGED <<queue, posted, missed, spurious>>

-----------------------------------------------------------------------------
(* destroy_client_event_queue() *)

\* A signal that terminates or restarts the server.
Terminate ==
  /\ pc[Main] = "away"
  /\ pc' = [pc EXCEPT ![Main] = "drain"]
  /\ UNCHANGED <<queue, event, posted, missed, spurious>>

\* isClientEventQueueEmpty() decides whether to call deClientEventQueue().
Drain ==
  /\ pc[Main] = "drain"
  /\ pc' = [pc EXCEPT ![Main] = IF queue = <<>> THEN "done" ELSE "idle"]
  /\ UNCHANGED <<queue, event, posted, missed, spurious>>

-----------------------------------------------------------------------------
(* Specification *)

Consume(t) == Wait(t) \/ Wake(t)

\* The process ends once the queue is destroyed.
Next ==
  /\ pc[Main] # "done"
  /\ \/ PostOutside
     \/ \E w \in Workers : PostInside(w) \/ Finish(w)
     \/ \E t \in Threads : Consume(t) \/ WakeSpuriously(t)
     \/ Terminate \/ Drain

Spec == Init /\ [][Next]_vars

\* Threads run, handlers return. Nobody need post an event or end the server.
FairSpec ==
  /\ Spec
  /\ \A t \in Threads : WF_vars(pc[Main] # "done" /\ Consume(t))
  /\ \A w \in Workers : WF_vars(pc[Main] # "done" /\ Finish(w))
  /\ WF_vars(Drain)

-----------------------------------------------------------------------------
(* Properties *)

\* The types; only the main thread drains the queue, and only workers handle.
TypeOK ==
  /\ queue \in Seq(Events)
  /\ pc \in [Threads -> WorkerLabels \cup MainLabels]
  /\ pc[Main] \in MainLabels /\ \A w \in Workers : pc[w] \in WorkerLabels
  /\ event \in [Workers -> 0..MaxEvents]
  /\ posted \in 0..MaxEvents
  /\ missed \in 0..posted
  /\ spurious \in 0..MaxSpurious

\* The queue never holds more events than there are threads on their way to
\* it and signals that came while every thread was busy: nothing but a missed
\* signal of enClientEventQueue() leaves an event behind.
LeftBehind == Len(queue) <= missed + Cardinality(At("woken"))

\* Every thread that was signalled finds an event, whichever of the woken ones
\* takes the lock first: deClientEventQueue() returns null no more often than
\* a wait returned without a signal.
SignalFindsEvent == Cardinality(At("woken")) <= Len(queue) + spurious

Queued(e) == \E i \in DOMAIN queue : queue[i] = e
Handled(e) == e <= posted /\ ~Queued(e) /\ \A w \in Workers : event[w] # e

\* As long as no signal came while every thread was busy, every event is taken
\* from the queue and handled to its end.
HandledUnlessMissed == \A e \in Events :
  e <= posted /\ missed = 0 ~> Handled(e) \/ missed > 0 \/ pc[Main] = "done"

=============================================================================
