-------------------------- MODULE ReplicatedBoard --------------------------
(***************************************************************************)
(* What a synchronisation master and its peers promise together, whatever  *)
(* the exchange between them: the messages each server stores, and what    *)
(* the users are told of their commands (README 2: a message is written on *)
(* the slaves and the master, or the client receives an error).            *)
(*                                                                         *)
(*   - A server holds at most one message under a number, and only numbers *)
(*     that were handed out; no server loses a number.                     *)
(*   - The text of a command is stored under one number, at all servers.   *)
(*   - The master stores no number that no peer has stored before.         *)
(*   - The master's own save and the answer "WROTE" are one step: neither  *)
(*     happens without the other. Other answers change no message.         *)
(*                                                                         *)
(* The promise ends with the first accident the code does not prevent.     *)
(***************************************************************************)
EXTENDS Integers, Sequences

CONSTANTS Servers, Master,
          Commands,   \* a command, standing for the text it carries
          Failures    \* the answers other than WROTE

VARIABLES
  issued,   \* the number of commands so far
  given,    \* the last message number handed out
  board,    \* the messages of each server
  told,     \* the answers to each command
  intact    \* no accident so far

boardVars == <<issued, given, board, told, intact>>

Init ==
  /\ issued = 0
  /\ given = 0
  /\ board = [s \in Servers |-> {}]
  /\ told = [c \in Commands |-> <<>>]
  /\ intact = TRUE

\* A user's command: a WRITE takes a number, a REPLACE names one.
Issue ==
  /\ issued' = issued + 1 /\ issued' \in Commands
  /\ given' \in {given, given + 1}
  /\ UNCHANGED <<board, told>>

\* Server s has command c under number n, in place of what was there.
Put(s, n, c) ==
  /\ n \in 1..given /\ c \in 1..issued
  /\ \A t \in Servers : \A m \in board[t] : m.text = c => m.num = n
  /\ board' = [board EXCEPT ![s] = {m \in @ : m.num # n} \cup {[num |-> n, text |-> c]}]

PeerStores(p, n, c) == p # Master /\ Put(p, n, c) /\ UNCHANGED <<issued, given, told>>

Tell(c, v) == told' = [told EXCEPT ![c] = Append(@, v)]

MasterStores(n, c) ==
  /\ \E p \in Servers \ {Master} : \E m \in board[p] : m.num = n
  /\ Put(Master, n, c)
  /\ Tell(c, "WROTE")
  /\ UNCHANGED <<issued, given>>

Fails(c, v) == c \in 1..issued /\ Tell(c, v) /\ UNCHANGED <<issued, given, board>>

Keeps ==
  \/ Issue
  \/ \E n \in 1..given, c \in 1..issued :
       MasterStores(n, c) \/ \E p \in Servers : PeerStores(p, n, c)
  \/ \E c \in 1..issued, v \in Failures : Fails(c, v)

\* The accident: a server has lost messages, and nothing is promised from here on.
Spoil == ~intact'

Next ==
  \/ Keeps /\ intact /\ UNCHANGED intact
  \/ Spoil

Spec == Init /\ [][Next]_boardVars

=============================================================================
