------------------------------ MODULE Bulletin ------------------------------
(***************************************************************************)
(* What the README promises of the messages (1.6 to 1.9): a WRITE adds one *)
(* under a number that is not in use, a REPLACE changes the text of one    *)
(* that exists, and READ finds what they left. The promise ends with the   *)
(* first accident the code does not prevent.                               *)
(***************************************************************************)
CONSTANTS
  Numbers, Texts,
  Boards     \* the messages a server may find when it is first started

VARIABLES
  board,    \* the text of each message, by number
  intact    \* no accident so far

boardVars == <<board, intact>>

Init == board \in Boards /\ intact = TRUE

Post(n, t) ==
  /\ n \notin DOMAIN board
  /\ board' = [m \in DOMAIN board \cup {n} |-> IF m = n THEN t ELSE board[m]]
  /\ intact /\ UNCHANGED intact

Edit(n, t) ==
  /\ n \in DOMAIN board
  /\ board' = [board EXCEPT ![n] = t]
  /\ intact /\ UNCHANGED intact

\* The accident: of the messages nothing is said from here on.
Spoil == ~intact'

Next == Spoil \/ \E n \in Numbers, t \in Texts : Post(n, t) \/ Edit(n, t)

Spec == Init /\ [][Next]_boardVars

=============================================================================
