---------------------------- MODULE MessageStore ----------------------------
(***************************************************************************)
(* The bbfile of a server without peers: WRITE, REPLACE and READ as they   *)
(* work on the file (msg.cpp), the message numbers and their recovery from *)
(* the last line after a restart (config.cpp).                             *)
(*                                                                         *)
(* The file is a sequence of cells. A message takes one cell for "number/" *)
(* and some for the rest, "user/message"; its line ends with NL. A message *)
(* is whatever its user sent: it may hold newlines, and behind one of them *)
(* a number that READ takes for a message's. Only the differences of two   *)
(* lines' lengths matter, so a cell may stand for more than one byte. What *)
(* a thread does inside write_start() and write_end(), or read_start() and *)
(* read_end(), is one step (see BBFileAccess).                             *)
(***************************************************************************)
EXTENDS Integers, Sequences, FiniteSetsExt

CONSTANTS
  Workers,    \* the threads of the pool
  Chars,      \* what messages are made of, with numbers and newlines
  NL, Pad,    \* '\n' and ' '
  Texts,      \* messages that users send, each with its user's name
  InitialFiles,   \* the files a first start may find
  IntMax,     \* INT_MAX, from which the numbers start again
  MaxWrites, MaxReplaces, MaxRestarts   \* bounds of the instance

Numbers == 1 .. IntMax - 1

ASSUME StoreConstantsOK ==
  /\ NL \notin Chars /\ Pad \notin Chars /\ NL # Pad
  /\ (Chars \cup {NL, Pad}) \cap Nat = {}
  /\ Texts \subseteq Seq(Numbers \cup Chars \cup {NL}) /\ <<>> \notin Texts
  /\ IntMax \in Nat /\ IntMax > 1
  /\ {MaxWrites, MaxReplaces, MaxRestarts} \subseteq Nat

VARIABLES
  file,      \* the bbfile
  msgNumber, \* the counter
  up,        \* the server runs
  pc, job,   \* each worker's position, and the message of its WRITE
  told,      \* history: the text last reported as stored, by number
  harm,      \* history: the accidents so far
  used       \* how much of the bounds is used

vars == <<file, msgNumber, up, pc, job, told, harm, used>>

Cells   == Numbers \cup Chars \cup {NL, Pad}
Harms   == {"overlong", "split", "wrap", "late", "behind"}
NoJob   == [num |-> 0, text |-> <<>>]

-----------------------------------------------------------------------------
(* Lines of the file *)

\* Where a getline() can begin.
LineStarts(f) == {i \in 1 .. Len(f) : i = 1 \/ f[i - 1] = NL}

LineEnd(f, i) == Min({j \in i .. Len(f) : f[j] = NL} \cup {Len(f) + 1})

Line(f, i) == SubSeq(f, i, LineEnd(f, i) - 1)

\* The lines whose text up to the first "/" is the number n.
LinesOf(f, n) == {i \in LineStarts(f) : f[i] = n}

\* Does the file end with a complete line?
Terminated(f) == f = <<>> \/ f[Len(f)] = NL

\* READ n: the rest of the first line of that number, <<>> for 2.1 UNKNOWN.
Reads(f, n) == IF LinesOf(f, n) = {} THEN <<>> ELSE Tail(Line(f, Min(LinesOf(f, n))))

\* Every number in the file.
NumbersIn(f) == {f[i] : i \in LineStarts(f)} \cap Numbers

\* A text as it was sent, without the blanks that REPLACE may have put behind it.
Unpadded(s) == SubSeq(s, 1, Max({0} \cup {k \in 1 .. Len(s) : s[k] # Pad}))

-----------------------------------------------------------------------------
(* Message numbers *)

\* Faulty variant of AllocNumber: no return to 1.
AllocOnwards(c) == c + 1

AllocNumber(c) == IF c + 1 = IntMax THEN 1 ELSE c + 1

\* Faulty variant of LastStart: one too far.
LastStartBehind(f) ==
  Min({Len(f), Max({1} \cup {p + 2 : p \in {q \in 2 .. Len(f) - 1 : f[q] = NL}})})

\* Where get_last_line() starts to read: behind the last NL before the last two
\* cells, or at the start of the file.
LastStart(f) == Max({1} \cup {p + 1 : p \in {q \in 2 .. Len(f) - 1 : f[q] = NL}})

LastLine(f) == IF Len(f) < 2 THEN <<>> ELSE Line(f, LastStart(f))

\* load_msg_number(): an empty line leaves the counter at its initial 0, and
\* stoi() ends the program for a line that does not begin with a number.
Loadable(f) == LastLine(f) = <<>> \/ Head(LastLine(f)) \in Numbers

\* Faulty variant of LoadedNumber: an empty file's counter, whatever the file.
LoadedAnew(f) == 0

LoadedNumber(f) == IF LastLine(f) = <<>> THEN 0 ELSE Head(LastLine(f))

\* A first start finds what a server has left that met none of the accidents below:
\* complete lines, each with its number, the highest one in the last line.
ASSUME InitialFilesOK == \A f \in InitialFiles :
  /\ f \in Seq(Cells) /\ Terminated(f)
  /\ \A i \in LineStarts(f) : f[i] \in Numbers
  /\ \A i \in LineStarts(f) : (\A j \in LineStarts(f) : j <= i) =>
       \A j \in LineStarts(f) : f[j] <= f[i]
  /\ \A n \in NumbersIn(f) : Unpadded(Reads(f, n)) \in Texts

-----------------------------------------------------------------------------
(* What is written to the file *)

Overwritten(f, i, s) ==
  [j \in 1 .. Max({Len(f), i + Len(s) - 1}) |->
     IF j \in i .. i + Len(s) - 1 THEN s[j - i + 1] ELSE f[j]]

\* Faulty variant of Appended: the file is opened at its start.
AppendedInFront(f, n, t) == Overwritten(f, 1, <<n>> \o t \o <<NL>>)

Appended(f, n, t) == f \o <<n>> \o t \o <<NL>>

Padding(k) == [j \in 1 .. k |-> Pad]

\* Faulty variant of Replaced: the rest of a longer line is left.
ReplacedUnpadded(f, n, t) == Overwritten(f, Min(LinesOf(f, n)), <<n>> \o t)

\* save_msg_replace(): written over the old line from its start, with blanks for
\* what the old line has more. After a getline() that ended with the file,
\* tellg() fails, and with it seekp() and the output.
Replaced(f, n, t) ==
  LET i == Min(LinesOf(f, n))
      longer == LineEnd(f, i) - i - 1 - Len(t)
  IN  IF LineEnd(f, i) > Len(f) THEN f
      ELSE Overwritten(f, i, <<n>> \o t \o Padding(IF longer > 0 THEN longer ELSE 0))

TooLong(f, n, t) == Len(t) > Len(Reads(f, n))

Splits(t) == \E k \in DOMAIN t : t[k] = NL

Report(n, t) == told' = [m \in DOMAIN told \cup {n} |-> IF m = n THEN t ELSE told[m]]

-----------------------------------------------------------------------------
(* Actions *)

\* sys_load_config() on a bbfile of an earlier time, or on none.
Init ==
  /\ file \in InitialFiles
  /\ up = Loadable(file) /\ msgNumber = IF up THEN LoadedNumber(file) ELSE 0
  /\ pc = [w \in Workers |-> "idle"]
  /\ job = [w \in Workers |-> NoJob]
  /\ told = [n \in NumbersIn(file) |-> Unpadded(Reads(file, n))] /\ harm = {}
  /\ used = [write |-> 0, replace |-> 0, restart |-> 0]

\* WRITE begins with its number.
Alloc(w, t) ==
  /\ up /\ pc[w] = "idle" /\ used.write < MaxWrites
  /\ msgNumber' = AllocNumber(msgNumber)
  /\ pc' = [pc EXCEPT ![w] = "save"]
  /\ job' = [job EXCEPT ![w] = [num |-> msgNumber', text |-> t]]
  /\ used' = [used EXCEPT !.write = @ + 1]
  /\ harm' = IF msgNumber' <= msgNumber THEN harm \cup {"wrap"} ELSE harm
  /\ UNCHANGED <<file, up, told>>

\* save_msg_write(), 3.0 WROTE.
Save(w) ==
  LET n == job[w].num  t == job[w].text IN
  /\ up /\ pc[w] = "save"
  /\ pc' = [pc EXCEPT ![w] = "idle"]
  /\ job' = [job EXCEPT ![w] = NoJob]
  /\ file' = Appended(file, n, t)
  /\ Report(n, t)
  /\ harm' = harm \cup (IF Splits(t) THEN {"split"} ELSE {})
                  \cup (IF \E m \in NumbersIn(file) : m > n THEN {"late"} ELSE {})
  /\ UNCHANGED <<msgNumber, up, used>>

\* The file cannot be opened: 3.2 ERROR WRITE, and the number is lost.
SaveFails(w) ==
  /\ up /\ pc[w] = "save"
  /\ pc' = [pc EXCEPT ![w] = "idle"]
  /\ job' = [job EXCEPT ![w] = NoJob]
  /\ UNCHANGED <<file, msgNumber, up, told, harm, used>>

\* REPLACE n/t with 3.3 REPLACED; with 3.1 or 3.2 it changes nothing.
Replace(n, t) ==
  /\ up /\ \E w \in Workers : pc[w] = "idle"
  /\ used.replace < MaxReplaces
  /\ LinesOf(file, n) # {}
  /\ file' = Replaced(file, n, t)
  /\ Report(n, t)
  /\ harm' = harm \cup (IF Splits(t) THEN {"split"} ELSE {})
                  \cup (IF TooLong(file, n, t) THEN {"overlong"} ELSE {})
  /\ used' = [used EXCEPT !.replace = @ + 1]
  /\ UNCHANGED <<msgNumber, up, pc, job>>

\* The server ends at any time, and starts again on its file.
Restart ==
  /\ up /\ used.restart < MaxRestarts
  /\ up' = Loadable(file)
  /\ msgNumber' = IF up' THEN LoadedNumber(file) ELSE 0
  /\ pc' = [w \in Workers |-> "idle"]
  /\ job' = [w \in Workers |-> NoJob]
  /\ harm' = IF up' /\ \E n \in DOMAIN told : n > msgNumber'
               THEN harm \cup {"behind"} ELSE harm
  /\ used' = [used EXCEPT !.restart = @ + 1]
  /\ UNCHANGED <<file, told>>

Next ==
  \/ \E w \in Workers : Save(w) \/ SaveFails(w) \/ \E t \in Texts : Alloc(w, t)
  \/ \E n \in Numbers, t \in Texts : Replace(n, t)
  \/ Restart

Spec == Init /\ [][Next]_vars

-----------------------------------------------------------------------------
(* Properties *)

\* The type invariant; it bounds the counter and every number in the file.
TypeOK ==
  /\ file \in Seq(Cells)
  /\ msgNumber \in 0 .. IntMax - 1
  /\ up \in BOOLEAN
  /\ pc \in [Workers -> {"idle", "save"}]
  /\ job \in [Workers -> {NoJob} \cup [num : Numbers, text : Texts]]
  /\ \A w \in Workers : pc[w] = "save" => job[w] # NoJob
  /\ told \in [DOMAIN told -> Texts] /\ DOMAIN told \subseteq Numbers
  /\ harm \subseteq Harms

\* No accident that affects what READ finds: saves that crossed do not by
\* themselves, only a restart that takes its number from the wrong one of them.
Intact == harm \subseteq {"late"}

\* Until an accident, READ returns what 3.0 WROTE or 3.3 REPLACED reported last,
\* whatever restarts, failed saves and other users' commands lie in between.
AnswersTrue == Intact =>
  \A n \in DOMAIN told : Unpadded(Reads(file, n)) = told[n]

\* A restart takes up the numbers behind one that was reported only when messages
\* were saved in another order or a line was damaged (README 1.9: "assigned by the
\* server in sequence"): a crash between allocation and save, or a failed save, is
\* not enough.
NumbersGrow == "behind" \in harm => harm \cap {"late", "overlong", "split"} # {}

\* load_msg_number() finds a number in the last line, whatever REPLACE did to the
\* lines before, as long as no message holds a newline.
StartsAgain == up \/ "split" \in harm

\* The cells behind the number that REPLACE n/t writes over, and the one behind
\* them: where a line may have begun that does not any more.
Covered(f, n, t) == LET i == Min(LinesOf(f, n)) IN i + 1 .. i + Len(t) + 1

\* A REPLACE without a newline creates no message, and changes another one only if
\* it is too long and written over the beginning of that message's line. A WRITE
\* behind a complete line changes no other message, and creates one only if its
\* text has a newline.
OthersKept == [][
  /\ \A n \in Numbers, t \in Texts : Replace(n, t) /\ ~Splits(t) =>
       \A m \in Numbers \ {n} :
         \/ Reads(file', m) = Reads(file, m)
         \/ /\ TooLong(file, n, t) /\ LinesOf(file, m) # {}
            /\ Min(LinesOf(file, m)) \in Covered(file, n, t)
  /\ \A w \in Workers : Save(w) /\ Terminated(file) =>
       \A m \in Numbers \ {job[w].num} :
         \/ Reads(file', m) = Reads(file, m)
         \/ LinesOf(file, m) = {} /\ Splits(job[w].text)]_vars

\* The messages READ can find, as the abstract bulletin board.
BoardOf(f) == [n \in NumbersIn(f) |-> Unpadded(Reads(f, n))]

Board == INSTANCE Bulletin WITH
  board <- BoardOf(file), intact <- Intact,
  Boards <- {BoardOf(f) : f \in InitialFiles}

\* Until an accident the file implements the bulletin board: a WRITE adds a
\* message under a number not in use, a REPLACE changes its own message only, and
\* a restart loses none.
Implements == Board!Spec

=============================================================================
