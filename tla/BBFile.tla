------------------------------- MODULE BBFile -------------------------------
(***************************************************************************)
(* What semaphore.cpp promises about the bbfile (README, "bbfile access"): *)
(* simultaneous reads are allowed, and no other operation is allowed while *)
(* a thread is writing.                                                    *)
(***************************************************************************)
CONSTANT Threads

VARIABLES
  reading,   \* the threads that read the bbfile
  writing    \* the threads that write it

bbfileVars == <<reading, writing>>

Init == reading = {} /\ writing = {}

StartRead(t) ==
  /\ t \notin reading /\ writing = {}
  /\ reading' = reading \cup {t}
  /\ UNCHANGED writing

EndRead(t) ==
  /\ t \in reading
  /\ reading' = reading \ {t}
  /\ UNCHANGED writing

StartWrite(t) ==
  /\ reading = {} /\ writing = {}
  /\ writing' = {t}
  /\ UNCHANGED reading

EndWrite(t) ==
  /\ t \in writing
  /\ writing' = writing \ {t}
  /\ UNCHANGED reading

Next == \E t \in Threads :
  StartRead(t) \/ EndRead(t) \/ StartWrite(t) \/ EndWrite(t)

Spec == Init /\ [][Next]_bbfileVars

=============================================================================
