------------------------- MODULE MessageStoreProofs -------------------------
(***************************************************************************)
(* What READ finds in the bbfile, for every set of messages, every length  *)
(* of the file and any number of workers and restarts.                     *)
(***************************************************************************)
EXTENDS MessageStore, SequenceTheorems, WellFoundedInduction, TLAPS

-----------------------------------------------------------------------------
(* Least and greatest elements *)

LEMMA NatMin ==
  ASSUME NEW T \in SUBSET Nat, T # {}
  PROVE  \E x \in T : \A y \in T : x <= y
<1>1. PICK R : R = {ss \in Nat \X Nat : ss[1] < ss[2]}
  OBVIOUS
<1>2. IsWellFoundedOn(R, Nat)
  BY <1>1, NatLessThanWellFounded, Zenon DEF OpToRel
<1>3. \E x \in T : \A y \in T : ~(<<y, x>> \in R)
  BY <1>2, WFMin, Zenon
<1>4. \A i, j \in Nat : i < j => <<i, j>> \in R
  BY <1>1
<1>5. PICK x \in T : \A y \in T : ~(<<y, x>> \in R)
  BY <1>3
<1>6. \A y \in T : x \in Nat /\ y \in Nat /\ ~(y < x)
  BY <1>4, <1>5
<1> QED
  BY <1>6

LEMMA MinOf ==
  ASSUME NEW T \in SUBSET Nat, T # {}
  PROVE  Min(T) \in T /\ \A y \in T : Min(T) <= y
BY NatMin DEF Min

LEMMA MinIs ==
  ASSUME NEW T \in SUBSET Nat, NEW x \in T, \A y \in T : x <= y
  PROVE  Min(T) = x
<1>1. Min(T) \in T /\ Min(T) <= x
  BY MinOf
<1>2. Min(T) \in Nat /\ x \in Nat /\ x <= Min(T)
  BY <1>1
<1> QED
  BY <1>1, <1>2

LEMMA MaxOf ==
  ASSUME NEW n \in Nat, NEW T \in SUBSET (0 .. n), T # {}
  PROVE  Max(T) \in T /\ \A y \in T : Max(T) >= y
<1> DEFINE U == {n - x : x \in T}
<1>1. U \in SUBSET Nat
  <2>1. \A x \in T : x \in Nat /\ x <= n /\ n - x \in Nat
    OBVIOUS
  <2> QED
    BY <2>1
<1>2. U # {} /\ \A y \in T : n - y \in U
  OBVIOUS
<1>3. PICK u \in U : \A y \in U : u <= y
  <2> HIDE DEF U
  <2> QED
    BY <1>1, <1>2, NatMin
<1>4. PICK m \in T : u = n - m
  OBVIOUS
<1>5. \A y \in T : u <= n - y
  <2> HIDE DEF U
  <2> QED
    BY <1>2, <1>3
<1>6. \A y \in T : y \in Nat /\ m \in Nat /\ n - m <= n - y
  BY <1>4, <1>5
<1>7. \A y \in T : m >= y
  BY <1>6
<1> QED
  BY <1>7 DEF Max

LEMMA MaxIs ==
  ASSUME NEW n \in Nat, NEW T \in SUBSET (0 .. n), NEW x \in T, \A y \in T : x >= y
  PROVE  Max(T) = x
<1>1. Max(T) \in T /\ Max(T) >= x
  BY MaxOf
<1>2. \A y \in T : y \in Nat
  OBVIOUS
<1>3. Max(T) \in Nat /\ x \in Nat
  BY <1>1, <1>2
<1>4. x >= Max(T)
  BY <1>1
<1> QED
  BY <1>1, <1>3, <1>4

-----------------------------------------------------------------------------
(* Cells and texts *)

LEMMA CellFacts ==
  /\ NL \notin Numbers /\ Pad \notin Numbers /\ NL # Pad
  /\ NL \in Cells /\ Pad \in Cells /\ Numbers \subseteq Cells
  /\ Numbers \subseteq Nat
BY StoreConstantsOK DEF Numbers, Cells

LEMMA TextFacts ==
  ASSUME NEW t \in Texts
  PROVE  /\ t \in Seq(Cells) /\ Len(t) \in Nat /\ Len(t) >= 1
         /\ DOMAIN t = 1 .. Len(t)
         /\ \A k \in 1 .. Len(t) : t[k] \in Cells /\ t[k] # Pad
<1>1. t \in Seq(Numbers \cup Chars \cup {NL}) /\ t # <<>>
  BY StoreConstantsOK
<1>2. t \in Seq(Cells)
  BY <1>1, SeqMonotonic, Zenon DEF Cells
<1>3. Len(t) \in Nat \ {0} /\ DOMAIN t = 1 .. Len(t)
  BY <1>1, EmptySeq, LenProperties
<1>4. \A k \in 1 .. Len(t) : t[k] \in Numbers \cup Chars \cup {NL}
  BY <1>1, ElementOfSeq
<1>5. \A c \in Numbers \cup Chars \cup {NL} : c \in Cells /\ c # Pad
  BY StoreConstantsOK DEF Numbers, Cells
<1> QED
  BY <1>2, <1>3, <1>4, <1>5

LEMMA FileFacts ==
  ASSUME NEW f \in Seq(Cells)
  PROVE  /\ Len(f) \in Nat /\ DOMAIN f = 1 .. Len(f)
         /\ \A i \in 1 .. Len(f) : f[i] \in Cells
         /\ Terminated(f) <=> Len(f) = 0 \/ f[Len(f)] = NL
<1>1. Len(f) \in Nat /\ DOMAIN f = 1 .. Len(f) /\ \A i \in 1 .. Len(f) : f[i] \in Cells
  BY LenProperties, ElementOfSeq
<1>2. f = <<>> <=> Len(f) = 0
  BY EmptySeq
<1> QED
  BY <1>1, <1>2 DEF Terminated

LEMMA SeqOfFunction ==
  ASSUME NEW S, NEW n \in Nat, NEW g \in [1 .. n -> S]
  PROVE  g \in Seq(S) /\ Len(g) = n
BY SeqDef

-----------------------------------------------------------------------------
(* Lines *)

LEMMA StartsIn ==
  ASSUME NEW f \in Seq(Cells)
  PROVE  /\ LineStarts(f) \in SUBSET (1 .. Len(f))
         /\ \A n : LinesOf(f, n) \in SUBSET LineStarts(f) /\ LinesOf(f, n) \in SUBSET Nat
BY FileFacts DEF LineStarts, LinesOf

LEMMA FirstLine ==
  ASSUME NEW f \in Seq(Cells), NEW n, LinesOf(f, n) # {}
  PROVE  /\ Min(LinesOf(f, n)) \in LinesOf(f, n)
         /\ Min(LinesOf(f, n)) \in 1 .. Len(f) /\ f[Min(LinesOf(f, n))] = n
         /\ \A i \in LinesOf(f, n) : Min(LinesOf(f, n)) <= i
<1>1. Min(LinesOf(f, n)) \in LinesOf(f, n)
      /\ \A i \in LinesOf(f, n) : Min(LinesOf(f, n)) <= i
  BY StartsIn, MinOf
<1> QED
  BY <1>1, StartsIn DEF LinesOf

\* A line ends with the first NL from its start on, or with the file.
LEMMA EndOf ==
  ASSUME NEW f \in Seq(Cells), NEW i \in 1 .. Len(f)
  PROVE  /\ LineEnd(f, i) \in i .. Len(f) + 1
         /\ LineEnd(f, i) \in Nat
         /\ \A j \in i .. LineEnd(f, i) - 1 : f[j] # NL
         /\ LineEnd(f, i) <= Len(f) => f[LineEnd(f, i)] = NL
<1> DEFINE T == {j \in i .. Len(f) : f[j] = NL} \cup {Len(f) + 1}
           e == LineEnd(f, i)
<1>1. Len(f) \in Nat
  BY FileFacts
<1>2. T \in SUBSET Nat /\ T # {} /\ T \in SUBSET (i .. Len(f) + 1)
  BY <1>1
<1>3. e \in T /\ \A j \in T : e <= j
  <2>1. e = Min(T)
    BY DEF LineEnd
  <2> HIDE DEF T, e
  <2> QED
    BY <1>2, <2>1, MinOf
<1>4. e \in i .. Len(f) + 1 /\ e \in Nat
  BY <1>1, <1>2, <1>3
<1>5. e <= Len(f) => f[e] = NL
  BY <1>1, <1>3
<1>6. ASSUME NEW j \in i .. e - 1
      PROVE  f[j] # NL
  BY <1>1, <1>3, <1>4
<1> QED
  BY <1>4, <1>5, <1>6

LEMMA EndIs ==
  ASSUME NEW f \in Seq(Cells), NEW i \in 1 .. Len(f), NEW e \in i .. Len(f) + 1,
         \A j \in i .. e - 1 : f[j] # NL,
         e <= Len(f) => f[e] = NL
  PROVE  LineEnd(f, i) = e
<1>1. Len(f) \in Nat
  BY FileFacts
<1>2. PICK l \in Nat : l = LineEnd(f, i)
  BY EndOf
<1>3. l \in i .. Len(f) + 1 /\ (\A j \in i .. l - 1 : f[j] # NL) /\ (l <= Len(f) => f[l] = NL)
  BY <1>2, EndOf
<1>4. ~(l < e)
  BY <1>1, <1>3
<1>5. ~(e < l)
  BY <1>1, <1>3
<1> QED
  BY <1>1, <1>2, <1>3, <1>4, <1>5

LEMMA LineFacts ==
  ASSUME NEW f \in Seq(Cells), NEW i \in 1 .. Len(f)
  PROVE  /\ Line(f, i) \in Seq(Cells)
         /\ Len(Line(f, i)) = LineEnd(f, i) - i
         /\ \A k \in 1 .. LineEnd(f, i) - i : Line(f, i)[k] = f[i + k - 1]
<1> DEFINE e == LineEnd(f, i)
<1>1. Len(f) \in Nat /\ e \in i .. Len(f) + 1 /\ e \in Nat /\ \A j \in 1 .. Len(f) : f[j] \in Cells
  BY FileFacts, EndOf
<1>2. Line(f, i) = SubSeq(f, i, e - 1)
  BY DEF Line
<1> HIDE DEF e
<1>3. i \in Int /\ e - 1 \in Int /\ \A j \in i .. e - 1 : f[j] \in Cells
  BY <1>1
<1>4. /\ SubSeq(f, i, e - 1) \in Seq(Cells)
      /\ Len(SubSeq(f, i, e - 1)) = IF i <= e - 1 THEN e - 1 - i + 1 ELSE 0
      /\ \A k \in 1 .. e - 1 - i + 1 : SubSeq(f, i, e - 1)[k] = f[i + k - 1]
  BY <1>3, SubSeqProperties
<1>5. e - 1 - i + 1 = e - i /\ (i <= e - 1 \/ e - i = 0)
  BY <1>1
<1> QED
  BY <1>2, <1>4, <1>5 DEF e

\* A line that two files have in the same place is the same.
LEMMA SameLine ==
  ASSUME NEW f \in Seq(Cells), NEW g \in Seq(Cells), NEW i \in 1 .. Len(f),
         LineEnd(f, i) <= Len(f), LineEnd(f, i) <= Len(g),
         \A j \in i .. LineEnd(f, i) : g[j] = f[j]
  PROVE  LineEnd(g, i) = LineEnd(f, i) /\ Line(g, i) = Line(f, i)
<1> DEFINE e == LineEnd(f, i)
<1>1. Len(f) \in Nat /\ Len(g) \in Nat /\ e \in i .. Len(f) /\ i \in 1 .. Len(g)
  BY FileFacts, EndOf
<1>2. (\A j \in i .. e - 1 : f[j] # NL) /\ f[e] = NL
  BY EndOf
<1>3. (\A j \in i .. e - 1 : g[j] # NL) /\ g[e] = NL
  BY <1>1, <1>2
<1>4. e \in i .. Len(g) + 1
  BY <1>1
<1>5. LineEnd(g, i) = e
  <2> HIDE DEF e
  <2> QED
    BY <1>1, <1>3, <1>4, EndIs
<1>6. \A k \in 1 .. e - i : Line(g, i)[k] = Line(f, i)[k]
  <2>1. \A k \in 1 .. e - i : Line(f, i)[k] = f[i + k - 1] /\ Line(g, i)[k] = g[i + k - 1]
    BY <1>1, <1>5, LineFacts
  <2>2. \A k \in 1 .. e - i : i + k - 1 \in i .. e
    BY <1>1
  <2> QED
    BY <2>1, <2>2
<1>7. Line(f, i) \in Seq(Cells) /\ Line(g, i) \in Seq(Cells)
      /\ Len(Line(f, i)) = e - i /\ Len(Line(g, i)) = e - i
  BY <1>1, <1>5, LineFacts
<1> QED
  BY <1>5, <1>6, <1>7, SeqEqual

\* So are the lines from a place on where two files of one length are the same.
LEMMA SameTail ==
  ASSUME NEW f \in Seq(Cells), NEW g \in Seq(Cells), NEW i \in 1 .. Len(f),
         Len(g) = Len(f), \A j \in i .. Len(f) : g[j] = f[j]
  PROVE  Line(g, i) = Line(f, i)
<1>1. Len(f) \in Nat /\ i \in 1 .. Len(g)
  BY FileFacts
<1>2. {j \in i .. Len(g) : g[j] = NL} = {j \in i .. Len(f) : f[j] = NL}
  OBVIOUS
<1>3. LineEnd(g, i) = LineEnd(f, i)
  BY <1>2 DEF LineEnd
<1>4. PICK e \in i .. Len(f) + 1 : e = LineEnd(f, i)
  BY EndOf
<1>5. /\ Line(f, i) \in Seq(Cells) /\ Line(g, i) \in Seq(Cells)
      /\ Len(Line(f, i)) = e - i /\ Len(Line(g, i)) = e - i
      /\ \A k \in 1 .. e - i : Line(f, i)[k] = f[i + k - 1] /\ Line(g, i)[k] = g[i + k - 1]
  BY <1>1, <1>3, <1>4, LineFacts
<1>6. \A k \in 1 .. e - i : i + k - 1 \in i .. Len(f)
  BY <1>1, <1>4
<1>7. \A k \in 1 .. e - i : Line(g, i)[k] = Line(f, i)[k]
  BY <1>5, <1>6
<1> QED
  BY <1>5, <1>7, SeqEqual

\* READ returns what lies behind the number up to the end of the line.
LEMMA ReadsFacts ==
  ASSUME NEW f \in Seq(Cells), NEW n \in Numbers, LinesOf(f, n) # {},
         NEW i, i = Min(LinesOf(f, n)), NEW e, e = LineEnd(f, i)
  PROVE  /\ i \in 1 .. Len(f) /\ e \in i + 1 .. Len(f) + 1
         /\ Reads(f, n) \in Seq(Cells)
         /\ Len(Reads(f, n)) = e - i - 1
         /\ \A k \in 1 .. e - i - 1 : Reads(f, n)[k] = f[i + k]
<1>1. Len(f) \in Nat /\ i \in 1 .. Len(f) /\ f[i] = n /\ n # NL
  BY FileFacts, FirstLine, CellFacts
<1>2. e \in i .. Len(f) + 1 /\ (e <= Len(f) => f[e] = NL)
  BY <1>1, EndOf
<1>3. e \in i + 1 .. Len(f) + 1
  BY <1>1, <1>2
<1>4. /\ Line(f, i) \in Seq(Cells) /\ Len(Line(f, i)) = e - i
      /\ \A k \in 1 .. e - i : Line(f, i)[k] = f[i + k - 1]
  BY <1>1, LineFacts
<1>5. Line(f, i) # <<>>
  BY <1>1, <1>3, <1>4, EmptySeq
<1>6. Reads(f, n) = Tail(Line(f, i))
  BY DEF Reads
<1>7. /\ Tail(Line(f, i)) \in Seq(Cells) /\ Len(Tail(Line(f, i))) = e - i - 1
      /\ \A k \in 1 .. e - i - 1 : Tail(Line(f, i))[k] = Line(f, i)[k + 1]
  BY <1>4, <1>5, HeadTailProperties
<1>8. ASSUME NEW k \in 1 .. e - i - 1
      PROVE  Reads(f, n)[k] = f[i + k]
  <2>1. k + 1 \in 1 .. e - i /\ i + (k + 1) - 1 = i + k
    BY <1>1, <1>3
  <2>2. Line(f, i)[k + 1] = f[i + (k + 1) - 1]
    BY <1>4, <2>1
  <2> QED
    BY <1>6, <1>7, <2>1, <2>2
<1> QED
  BY <1>1, <1>3, <1>6, <1>7, <1>8

\* Only the text of the first line of a number matters.
LEMMA SameReads ==
  ASSUME NEW f, NEW g, NEW n, LinesOf(f, n) # {},
         LinesOf(g, n) # {}, Min(LinesOf(g, n)) = Min(LinesOf(f, n)),
         Line(g, Min(LinesOf(f, n))) = Line(f, Min(LinesOf(f, n)))
  PROVE  Reads(g, n) = Reads(f, n)
BY DEF Reads

LEMMA UnpaddedIs ==
  ASSUME NEW s \in Seq(Cells), NEW t \in Texts, Len(t) <= Len(s),
         \A k \in 1 .. Len(t) : s[k] = t[k],
         \A k \in Len(t) + 1 .. Len(s) : s[k] = Pad
  PROVE  Unpadded(s) = t
<1> DEFINE T == {0} \cup {k \in 1 .. Len(s) : s[k] # Pad}
<1>1. Len(s) \in Nat /\ \A k \in 1 .. Len(s) : s[k] \in Cells
  BY FileFacts
<1>2. Len(t) \in Nat /\ Len(t) \in 1 .. Len(s) /\ t[Len(t)] # Pad /\ t \in Seq(Cells)
  BY <1>1, TextFacts
<1>3. T \in SUBSET (0 .. Len(s)) /\ Len(t) \in T
  BY <1>1, <1>2
<1>4. \A k \in T : Len(t) >= k
  BY <1>1, <1>2
<1>5. Max(T) = Len(t)
  <2> HIDE DEF T
  <2> QED
    BY <1>1, <1>3, <1>4, MaxIs
<1>6. Unpadded(s) = SubSeq(s, 1, Len(t))
  BY <1>5 DEF Unpadded
<1>7. \A k \in 1 .. Len(t) : s[k] \in Cells
  BY <1>1, <1>2
<1>8. /\ SubSeq(s, 1, Len(t)) \in Seq(Cells) /\ Len(SubSeq(s, 1, Len(t))) = Len(t)
      /\ \A k \in 1 .. Len(t) : SubSeq(s, 1, Len(t))[k] = s[k]
  <2>1. /\ SubSeq(s, 1, Len(t)) \in Seq(Cells)
        /\ Len(SubSeq(s, 1, Len(t))) = IF 1 <= Len(t) THEN Len(t) - 1 + 1 ELSE 0
        /\ \A k \in 1 .. Len(t) - 1 + 1 : SubSeq(s, 1, Len(t))[k] = s[1 + k - 1]
    BY <1>2, <1>7, SubSeqProperties
  <2>2. Len(t) - 1 + 1 = Len(t) /\ 1 <= Len(t) /\ \A k \in 1 .. Len(t) : 1 + k - 1 = k
    BY <1>2
  <2> QED
    BY <2>1, <2>2
<1>9. SubSeq(s, 1, Len(t)) = t
  BY <1>2, <1>8, SeqEqual
<1> QED
  BY <1>6, <1>9

-----------------------------------------------------------------------------
(* The last line *)

Numbered(f) == \A i \in LineStarts(f) : f[i] \in Numbers

LEMMA LastLineStarts ==
  ASSUME NEW f \in Seq(Cells), Numbered(f), Len(f) >= 2
  PROVE  /\ LastStart(f) \in LineStarts(f)
         /\ \A i \in LineStarts(f) : i <= LastStart(f)
<1> DEFINE T == {1} \cup {p + 1 : p \in {q \in 2 .. Len(f) - 1 : f[q] = NL}}
<1>1. Len(f) \in Nat
  BY FileFacts
<1>2. T \in SUBSET (0 .. Len(f)) /\ T # {}
  BY <1>1
<1>3. Max(T) \in T /\ \A i \in T : Max(T) >= i
  <2> HIDE DEF T
  <2> QED
    BY <1>1, <1>2, MaxOf
<1>4. T \subseteq LineStarts(f)
  BY <1>1 DEF LineStarts
<1>5. ASSUME NEW i \in LineStarts(f), i > 2
      PROVE  i \in T
  <2>1. i \in 3 .. Len(f) /\ f[i - 1] = NL
    BY <1>1, <1>5 DEF LineStarts
  <2>2. i - 1 \in 2 .. Len(f) - 1 /\ (i - 1) + 1 = i
    BY <1>1, <2>1
  <2> QED
    BY <2>1, <2>2
<1>6. f[1] # NL
  BY <1>1, CellFacts DEF Numbered, LineStarts
<1>7. \A i \in LineStarts(f) : i = 1 \/ i > 2
  BY <1>1, <1>6 DEF LineStarts
<1>8. LineStarts(f) \subseteq T
  BY <1>5, <1>7
<1>9. LastStart(f) = Max(T)
  BY DEF LastStart
<1>10. Max(T) \in Nat /\ \A i \in T : i \in Nat
  BY <1>2, <1>3
<1> HIDE DEF T
<1> QED
  BY <1>3, <1>4, <1>8, <1>9, <1>10

\* As long as every line begins with a number, load_msg_number() finds one.
LEMMA LoadedFacts ==
  ASSUME NEW f \in Seq(Cells), Numbered(f)
  PROVE  /\ Loadable(f)
         /\ LoadedNumber(f) \in {0} \cup Numbers
         /\ Len(f) >= 2 => LoadedNumber(f) = f[LastStart(f)]
<1>1. CASE Len(f) < 2
  BY <1>1, FileFacts DEF LastLine, Loadable, LoadedNumber
<1>2. CASE Len(f) >= 2
  <2> DEFINE i == LastStart(f)
  <2>1. i \in LineStarts(f) /\ i \in 1 .. Len(f) /\ f[i] \in Numbers
    BY <1>2, LastLineStarts, StartsIn DEF Numbered
  <2>2. LineEnd(f, i) \in i .. Len(f) + 1 /\ (LineEnd(f, i) <= Len(f) => f[LineEnd(f, i)] = NL)
    BY <2>1, EndOf
  <2>3. LineEnd(f, i) # i
    BY <2>1, <2>2, CellFacts, FileFacts
  <2>4. /\ Line(f, i) \in Seq(Cells) /\ Len(Line(f, i)) = LineEnd(f, i) - i
        /\ \A k \in 1 .. LineEnd(f, i) - i : Line(f, i)[k] = f[i + k - 1]
    BY <2>1, LineFacts
  <2>5. Len(Line(f, i)) >= 1 /\ 1 \in 1 .. LineEnd(f, i) - i /\ i + 1 - 1 = i
    BY <2>1, <2>2, <2>3, <2>4, FileFacts
  <2>6. Line(f, i) # <<>> /\ Head(Line(f, i)) = f[i]
    BY <2>4, <2>5
  <2>7. LastLine(f) = Line(f, i)
    BY <1>2, FileFacts DEF LastLine
  <2> HIDE DEF i
  <2> QED
    BY <2>1, <2>6, <2>7 DEF Loadable, LoadedNumber, i
<1> QED
  BY <1>1, <1>2, FileFacts

-----------------------------------------------------------------------------
(* A line is appended *)

\* g is f with one more line.
OneMore(f, n, t, g) ==
  /\ g \in Seq(Cells) /\ Len(g) = Len(f) + Len(t) + 2
  /\ \A j \in 1 .. Len(f) : g[j] = f[j]
  /\ g[Len(f) + 1] = n
  /\ \A j \in Len(f) + 2 .. Len(f) + Len(t) + 1 : g[j] = t[j - Len(f) - 1]
  /\ g[Len(f) + Len(t) + 2] = NL

\* h is r with s behind it.
Joined(r, s, h) ==
  /\ h \in Seq(Cells) /\ Len(h) = Len(r) + Len(s)
  /\ \A j \in 1 .. Len(r) + Len(s) : h[j] = IF j <= Len(r) THEN r[j] ELSE s[j - Len(r)]

LEMMA JoinedFacts ==
  ASSUME NEW r \in Seq(Cells), NEW s \in Seq(Cells)
  PROVE  Joined(r, s, r \o s)
BY ConcatProperties DEF Joined

LEMMA ConcatLengths ==
  ASSUME NEW r \in Seq(Cells), NEW s \in Seq(Cells),
         NEW m \in Nat, Len(r) = m, NEW n \in Nat, Len(s) = n
  PROVE  /\ r \o s \in Seq(Cells) /\ Len(r \o s) = m + n
         /\ \A j \in 1 .. m + n : (r \o s)[j] = IF j <= m THEN r[j] ELSE s[j - m]
BY ConcatProperties

LEMMA AppendedFacts ==
  ASSUME NEW f \in Seq(Cells), NEW n \in Numbers, NEW t \in Texts,
         NEW g, g = Appended(f, n, t)
  PROVE  OneMore(f, n, t, g)
<1>1. Len(f) \in Nat /\ Len(t) \in Nat /\ t \in Seq(Cells)
  BY FileFacts, TextFacts
<1>2. n \in Cells /\ NL \in Cells
  BY CellFacts
<1>3. <<n>> \in Seq(Cells) /\ Len(<<n>>) = 1 /\ <<n>>[1] = n
      /\ <<NL>> \in Seq(Cells) /\ Len(<<NL>>) = 1 /\ <<NL>>[1] = NL
  BY <1>2
<1>4. /\ f \o <<n>> \in Seq(Cells) /\ Len(f \o <<n>>) = Len(f) + 1
      /\ \A j \in 1 .. Len(f) + 1 : (f \o <<n>>)[j] = IF j <= Len(f) THEN f[j] ELSE n
  <2>1. /\ f \o <<n>> \in Seq(Cells) /\ Len(f \o <<n>>) = Len(f) + Len(<<n>>)
        /\ \A j \in 1 .. Len(f) + Len(<<n>>) : (f \o <<n>>)[j] =
             IF j <= Len(f) THEN f[j] ELSE <<n>>[j - Len(f)]
    BY <1>3, ConcatProperties
  <2> QED
    BY <1>1, <1>3, <2>1
<1> DEFINE h == f \o <<n>>
<1>5. /\ h \o t \in Seq(Cells) /\ Len(h \o t) = Len(f) + 1 + Len(t)
      /\ \A j \in 1 .. Len(f) + 1 + Len(t) : (h \o t)[j] =
           IF j <= Len(f) + 1 THEN h[j] ELSE t[j - (Len(f) + 1)]
  <2>1. h \in Seq(Cells) /\ Len(h) = Len(f) + 1 /\ Len(f) + 1 \in Nat
    BY <1>1, <1>4
  <2> HIDE DEF h
  <2> QED
    BY <1>1, <2>1, ConcatLengths
<1> DEFINE l == h \o t
<1>6. /\ l \o <<NL>> \in Seq(Cells) /\ Len(l \o <<NL>>) = Len(f) + Len(t) + 2
      /\ \A j \in 1 .. Len(f) + Len(t) + 2 : (l \o <<NL>>)[j] =
           IF j <= Len(f) + Len(t) + 1 THEN l[j] ELSE NL
  <2>1. l \in Seq(Cells) /\ Len(l) = Len(f) + Len(t) + 1
    BY <1>1, <1>5
  <2> HIDE DEF l, h
  <2>2. l \o <<NL>> = Append(l, NL)
    BY <1>2, <2>1, AppendIsConcat
  <2>3. /\ Append(l, NL) \in Seq(Cells) /\ Len(Append(l, NL)) = Len(l) + 1
        /\ \A j \in 1 .. Len(l) : Append(l, NL)[j] = l[j]
        /\ Append(l, NL)[Len(l) + 1] = NL
    BY <1>2, <2>1, AppendProperties
  <2> QED
    BY <1>1, <2>1, <2>2, <2>3
<1>7. g = l \o <<NL>>
  <2>1. f \o (<<n>> \o (t \o <<NL>>)) = (f \o <<n>>) \o (t \o <<NL>>)
    BY <1>1, <1>3, ConcatAssociative, ConcatProperties
  <2> QED
    BY <1>1, <1>3, <2>1, ConcatAssociative, ConcatProperties DEF Appended
<1>8. \A j \in 1 .. Len(f) : g[j] = f[j]
  BY <1>1, <1>4, <1>5, <1>6, <1>7
<1>9. g[Len(f) + 1] = n
  BY <1>1, <1>4, <1>5, <1>6, <1>7
<1>10. ASSUME NEW j \in Len(f) + 2 .. Len(f) + Len(t) + 1
       PROVE  g[j] = t[j - Len(f) - 1]
  <2>1. j \in 1 .. Len(f) + 1 + Len(t) /\ ~(j <= Len(f) + 1)
        /\ j - (Len(f) + 1) = j - Len(f) - 1
    BY <1>1
  <2>2. (h \o t)[j] = t[j - Len(f) - 1]
    BY <1>5, <2>1
  <2>3. j \in 1 .. Len(f) + Len(t) + 2 /\ j <= Len(f) + Len(t) + 1
    BY <1>1
  <2> HIDE DEF h, l
  <2> QED
    BY <1>6, <1>7, <2>2, <2>3 DEF l
<1>11. g[Len(f) + Len(t) + 2] = NL
  <2> HIDE DEF h, l
  <2> QED
    BY <1>1, <1>6, <1>7
<1> QED
  BY <1>6, <1>7, <1>8, <1>9, <1>10, <1>11 DEF OneMore

LEMMA NumbersInFile ==
  ASSUME NEW f
  PROVE  /\ NumbersIn(f) \subseteq Numbers
         /\ \A n \in Numbers : n \in NumbersIn(f) <=> LinesOf(f, n) # {}
BY DEF NumbersIn, LinesOf

\* The starts of an appended line without a newline in its text.
LEMMA AppendedStarts ==
  ASSUME NEW f \in Seq(Cells), NEW n \in Numbers, NEW t \in Texts,
         NEW g, g = Appended(f, n, t), ~Splits(t)
  PROVE  /\ LineStarts(g) \subseteq LineStarts(f) \cup {Len(f) + 1}
         /\ Terminated(f) => Len(f) + 1 \in LineStarts(g)
<1>1. PICK a \in Nat, b \in Nat : a = Len(f) /\ b = Len(t)
  BY FileFacts, TextFacts
<1>2. /\ g \in Seq(Cells) /\ Len(g) = a + b + 2
      /\ \A j \in 1 .. a : g[j] = f[j]
      /\ g[a + 1] = n
      /\ \A j \in a + 2 .. a + b + 1 : g[j] = t[j - a - 1]
      /\ g[a + b + 2] = NL
  <2>1. OneMore(f, n, t, g)
    BY AppendedFacts
  <2> QED
    BY <1>1, <2>1 DEF OneMore
<1>3. \A k \in 1 .. b : t[k] # NL
  BY <1>1, TextFacts DEF Splits
<1>4. \A j \in a + 1 .. a + b + 1 : g[j] # NL
  <2>1. n # NL
    BY CellFacts
  <2>2. ASSUME NEW j \in a + 2 .. a + b + 1
        PROVE  g[j] # NL
    <3>1. j - a - 1 \in 1 .. b
      OBVIOUS
    <3> QED
      BY <1>2, <1>3, <3>1
  <2>3. \A j \in a + 1 .. a + b + 1 : j = a + 1 \/ j \in a + 2 .. a + b + 1
    OBVIOUS
  <2> QED
    BY <1>2, <2>1, <2>2, <2>3
<1>5. ASSUME NEW i \in LineStarts(g)
      PROVE  i \in LineStarts(f) \cup {a + 1}
  <2>1. i \in 1 .. a + b + 2 /\ (i = 1 \/ g[i - 1] = NL)
    BY <1>2, <1>5 DEF LineStarts
  <2>2. ~(i - 1 \in a + 1 .. a + b + 1)
    BY <1>4, <2>1
  <2>3. i \in 1 .. a \/ i = a + 1
    BY <2>1, <2>2
  <2>4. i \in 1 .. a /\ i # 1 => g[i - 1] = f[i - 1]
    BY <1>2
  <2> QED
    BY <1>1, <2>1, <2>3, <2>4 DEF LineStarts
<1>6. ASSUME Terminated(f)
      PROVE  a + 1 \in LineStarts(g)
  <2>1. a = 0 \/ f[a] = NL
    BY <1>1, <1>6, FileFacts
  <2>2. a # 0 => g[a] = f[a]
    BY <1>2
  <2>3. a + 1 \in 1 .. Len(g) /\ a + 1 - 1 = a
    BY <1>2
  <2> QED
    BY <2>1, <2>2, <2>3 DEF LineStarts
<1> QED
  BY <1>1, <1>5, <1>6

\* What the file had it still has, and behind it the appended line.
LEMMA AppendedBehind ==
  ASSUME NEW f \in Seq(Cells), NEW n \in Numbers, NEW t \in Texts,
         NEW g, g = Appended(f, n, t), NEW m \in Numbers
  PROVE  /\ \A i \in 1 .. Len(f) : i \in LinesOf(g, m) <=> i \in LinesOf(f, m)
         /\ Len(f) + 1 \in LinesOf(g, m) <=> m = n /\ Terminated(f)
<1>1. /\ g \in Seq(Cells) /\ Len(g) = Len(f) + Len(t) + 2
      /\ \A j \in 1 .. Len(f) : g[j] = f[j]
      /\ g[Len(f) + 1] = n
  <2>1. OneMore(f, n, t, g)
    BY AppendedFacts
  <2> QED
    BY <2>1 DEF OneMore
<1>2. /\ Len(f) \in Nat /\ Len(t) \in Nat /\ (Terminated(f) <=> Len(f) = 0 \/ f[Len(f)] = NL)
  BY FileFacts, TextFacts
<1>3. \A i \in 1 .. Len(f) : i \in LinesOf(g, m) <=> i \in LinesOf(f, m)
  <2>1. ASSUME NEW i \in 1 .. Len(f)
        PROVE  i \in LineStarts(g) <=> i \in LineStarts(f)
    <3>1. i \in 1 .. Len(g) /\ (i = 1 \/ i - 1 \in 1 .. Len(f))
      BY <1>1, <1>2
    <3>2. i = 1 \/ g[i - 1] = f[i - 1]
      BY <1>1, <3>1
    <3> QED
      BY <3>1, <3>2 DEF LineStarts
  <2> QED
    BY <1>1, <2>1 DEF LinesOf
<1>4. Len(f) + 1 \in LinesOf(g, m) <=> m = n /\ Terminated(f)
  <2>1. Len(f) + 1 \in 1 .. Len(g) /\ (Len(f) + 1 = 1 <=> Len(f) = 0) /\ Len(f) + 1 - 1 = Len(f)
    BY <1>1, <1>2
  <2>2. Len(f) # 0 => g[Len(f)] = f[Len(f)]
    BY <1>1, <1>2
  <2>3. Len(f) + 1 \in LineStarts(g) <=> Len(f) = 0 \/ g[Len(f)] = NL
    BY <2>1 DEF LineStarts
  <2> QED
    BY <1>1, <1>2, <2>2, <2>3 DEF LinesOf
<1> QED
  BY <1>3, <1>4

\* An appended line adds its number, if the line before it is complete, and no
\* other one, if it holds no newline.
LEMMA AppendedLines ==
  ASSUME NEW f \in Seq(Cells), NEW n \in Numbers, NEW t \in Texts,
         NEW g, g = Appended(f, n, t), ~Splits(t), NEW m \in Numbers
  PROVE  LinesOf(g, m) =
           LinesOf(f, m) \cup (IF m = n /\ Terminated(f) THEN {Len(f) + 1} ELSE {})
<1>1. LineStarts(g) \subseteq LineStarts(f) \cup {Len(f) + 1}
  BY AppendedStarts
<1>2. /\ \A i \in 1 .. Len(f) : i \in LinesOf(g, m) <=> i \in LinesOf(f, m)
      /\ Len(f) + 1 \in LinesOf(g, m) <=> m = n /\ Terminated(f)
  BY AppendedBehind
<1>3. LinesOf(g, m) \subseteq LineStarts(g)
  BY DEF LinesOf
<1>4. LinesOf(f, m) \subseteq 1 .. Len(f) /\ LineStarts(f) \subseteq 1 .. Len(f)
  BY StartsIn
<1>5. Len(f) + 1 \notin 1 .. Len(f)
  BY FileFacts
<1> QED
  BY <1>1, <1>2, <1>3, <1>4, <1>5

\* A WRITE behind a complete line changes no other message that READ finds, whatever
\* its text.
LEMMA AppendedKeeps ==
  ASSUME NEW f \in Seq(Cells), Terminated(f), NEW n \in Numbers, NEW t \in Texts,
         NEW g, g = Appended(f, n, t), NEW m \in Numbers, m # n,
         LinesOf(f, m) # {} \/ ~Splits(t)
  PROVE  Reads(g, m) = Reads(f, m)
<1>1. CASE LinesOf(f, m) = {}
  <2>1. LinesOf(g, m) = {}
    BY <1>1, AppendedLines
  <2> QED
    BY <1>1, <2>1 DEF Reads
<1>2. CASE LinesOf(f, m) # {}
  <2> DEFINE i == Min(LinesOf(f, m))
  <2>1. /\ i \in LinesOf(f, m) /\ i \in 1 .. Len(f) /\ Len(f) \in Nat
        /\ \A p \in LinesOf(f, m) : i <= p
    BY <1>2, FirstLine, FileFacts
  <2>2. g \in Seq(Cells) /\ Len(g) = Len(f) + Len(t) + 2 /\ \A j \in 1 .. Len(f) : g[j] = f[j]
    <3>1. OneMore(f, n, t, g)
      BY AppendedFacts
    <3> QED
      BY <3>1 DEF OneMore
  <2>3. LineEnd(f, i) <= Len(f)
    <3>1. LineEnd(f, i) \in i .. Len(f) + 1 /\ \A j \in i .. LineEnd(f, i) - 1 : f[j] # NL
      BY <2>1, EndOf
    <3>2. f[Len(f)] = NL
      BY <2>1, FileFacts
    <3>3. LineEnd(f, i) # Len(f) + 1
      BY <2>1, <3>1, <3>2
    <3> QED
      BY <2>1, <3>1, <3>3
  <2>4. Line(g, i) = Line(f, i)
    <3>1. LineEnd(f, i) \in i .. Len(f) + 1
      BY <2>1, EndOf
    <3>2. LineEnd(f, i) <= Len(g) /\ \A j \in i .. LineEnd(f, i) : g[j] = f[j]
      BY <2>1, <2>2, <2>3, <3>1, TextFacts
    <3> QED
      BY <2>1, <2>2, <2>3, <3>2, SameLine
  <2>5. i \in LinesOf(g, m) /\ Min(LinesOf(g, m)) = i
    <3> HIDE DEF i
    <3>1. \A p \in 1 .. Len(f) : p \in LinesOf(g, m) <=> p \in LinesOf(f, m)
      BY AppendedBehind
    <3>2. LinesOf(g, m) \in SUBSET Nat
      BY <2>2, StartsIn
    <3>3. ASSUME NEW p \in LinesOf(g, m) PROVE i <= p
      <4>1. p \in Nat /\ p >= 1
        <5>1. p \in 1 .. Len(g)
          BY <2>2, <3>3, StartsIn
        <5> QED
          BY <5>1
      <4>2. CASE p <= Len(f)
        BY <2>1, <3>1, <3>3, <4>1, <4>2
      <4>3. CASE ~(p <= Len(f))
        BY <2>1, <4>1, <4>3
      <4> QED
        BY <4>2, <4>3
    <3>4. i \in LinesOf(g, m)
      BY <2>1, <3>1
    <3> QED
      BY <3>2, <3>3, <3>4, MinIs
  <2> QED
    BY <1>2, <2>4, <2>5, SameReads
<1> QED
  BY <1>1, <1>2

LEMMA AppendedNumbered ==
  ASSUME NEW f \in Seq(Cells), NEW n \in Numbers, NEW t \in Texts,
         NEW g, g = Appended(f, n, t), Numbered(f), ~Splits(t)
  PROVE  Numbered(g)
<1>1. LineStarts(g) \subseteq LineStarts(f) \cup {Len(f) + 1}
  BY AppendedStarts
<1>2. (\A j \in 1 .. Len(f) : g[j] = f[j]) /\ g[Len(f) + 1] = n
  <2>1. OneMore(f, n, t, g)
    BY AppendedFacts
  <2> QED
    BY <2>1 DEF OneMore
<1>3. LineStarts(f) \subseteq 1 .. Len(f)
  BY StartsIn
<1> QED
  BY <1>1, <1>2, <1>3 DEF Numbered

LEMMA AppendedNumbers ==
  ASSUME NEW f \in Seq(Cells), NEW n \in Numbers, NEW t \in Texts,
         NEW g, g = Appended(f, n, t), ~Splits(t)
  PROVE  /\ g \in Seq(Cells) /\ Terminated(g)
         /\ NumbersIn(g) = NumbersIn(f) \cup (IF Terminated(f) THEN {n} ELSE {})
<1>1. g \in Seq(Cells) /\ Len(g) = Len(f) + Len(t) + 2 /\ g[Len(f) + Len(t) + 2] = NL
  <2>1. OneMore(f, n, t, g)
    BY AppendedFacts
  <2> QED
    BY <2>1 DEF OneMore
<1>2. Terminated(g)
  BY <1>1, FileFacts
<1>3. \A m \in Numbers : LinesOf(g, m) =
        LinesOf(f, m) \cup (IF m = n /\ Terminated(f) THEN {Len(f) + 1} ELSE {})
  BY AppendedLines
<1>4. \A m \in Numbers : LinesOf(g, m) # {} <=> LinesOf(f, m) # {} \/ (m = n /\ Terminated(f))
  BY <1>3
<1> QED
  BY <1>1, <1>2, <1>4, NumbersInFile

\* READ finds an appended message if its number is not in the file yet.
LEMMA AppendedReads ==
  ASSUME NEW f \in Seq(Cells), NEW n \in Numbers, NEW t \in Texts,
         NEW g, g = Appended(f, n, t),
         Terminated(f), ~Splits(t), n \notin NumbersIn(f)
  PROVE  Reads(g, n) \in Seq(Cells) /\ Unpadded(Reads(g, n)) = t
<1>1. PICK a \in Nat, b \in Nat : a = Len(f) /\ b = Len(t)
  BY FileFacts, TextFacts
<1>2. /\ g \in Seq(Cells) /\ Len(g) = a + b + 2
      /\ g[a + 1] = n
      /\ \A j \in a + 2 .. a + b + 1 : g[j] = t[j - a - 1]
      /\ g[a + b + 2] = NL
  <2>1. OneMore(f, n, t, g)
    BY AppendedFacts
  <2> QED
    BY <1>1, <2>1 DEF OneMore
<1>3. LinesOf(g, n) = {a + 1}
  <2>1. LinesOf(g, n) =
          LinesOf(f, n) \cup (IF n = n /\ Terminated(f) THEN {Len(f) + 1} ELSE {})
    BY AppendedLines
  <2>2. LinesOf(f, n) = {}
    BY NumbersInFile
  <2> QED
    BY <1>1, <2>1, <2>2
<1>4. Min(LinesOf(g, n)) = a + 1
  BY <1>3, MinIs
<1>5. \A k \in 1 .. b : t[k] # NL
  BY <1>1, TextFacts DEF Splits
<1>6. LineEnd(g, a + 1) = a + b + 2
  <2>1. ASSUME NEW j \in a + 1 .. a + b + 2 - 1
        PROVE  g[j] # NL
    <3>1. CASE j = a + 1
      BY <1>2, <3>1, CellFacts
    <3>2. CASE j # a + 1
      <4>1. j \in a + 2 .. a + b + 1 /\ j - a - 1 \in 1 .. b
        BY <3>2
      <4> QED
        BY <1>2, <1>5, <4>1
    <3> QED
      BY <3>1, <3>2
  <2>2. a + 1 \in 1 .. Len(g) /\ a + b + 2 \in a + 1 .. Len(g) + 1
    BY <1>2
  <2> QED
    BY <1>2, <2>1, <2>2, EndIs
<1>7. /\ Reads(g, n) \in Seq(Cells)
      /\ Len(Reads(g, n)) = a + b + 2 - (a + 1) - 1
      /\ \A k \in 1 .. a + b + 2 - (a + 1) - 1 : Reads(g, n)[k] = g[a + 1 + k]
  <2>1. PICK i, e : i = a + 1 /\ e = a + b + 2
    OBVIOUS
  <2>2. i = Min(LinesOf(g, n)) /\ e = LineEnd(g, i) /\ LinesOf(g, n) # {} /\ g \in Seq(Cells)
    BY <1>2, <1>3, <1>4, <1>6, <2>1
  <2>3. /\ Reads(g, n) \in Seq(Cells)
        /\ Len(Reads(g, n)) = e - i - 1
        /\ \A k \in 1 .. e - i - 1 : Reads(g, n)[k] = g[i + k]
    BY <2>2, ReadsFacts
  <2> QED
    BY <2>1, <2>3
<1>8. a + b + 2 - (a + 1) - 1 = b
  OBVIOUS
<1>9. ASSUME NEW k \in 1 .. b
      PROVE  Reads(g, n)[k] = t[k]
  <2>1. a + 1 + k \in a + 2 .. a + b + 1 /\ a + 1 + k - a - 1 = k
    OBVIOUS
  <2>2. Reads(g, n)[k] = g[a + 1 + k]
    BY <1>7, <1>8
  <2>3. g[a + 1 + k] = t[a + 1 + k - a - 1]
    BY <1>2, <2>1
  <2> QED
    BY <2>1, <2>2, <2>3
<1>10. \A k \in b + 1 .. b : Reads(g, n)[k] = Pad
  OBVIOUS
<1> QED
  BY <1>1, <1>7, <1>8, <1>9, <1>10, UnpaddedIs

\* The number of an appended line is the one that a restart finds.
LEMMA AppendedLoaded ==
  ASSUME NEW f \in Seq(Cells), NEW n \in Numbers, NEW t \in Texts,
         NEW g, g = Appended(f, n, t), Numbered(f), Terminated(f), ~Splits(t)
  PROVE  LoadedNumber(g) = n
<1>1. g \in Seq(Cells) /\ Len(g) = Len(f) + Len(t) + 2 /\ g[Len(f) + 1] = n
  <2>1. OneMore(f, n, t, g)
    BY AppendedFacts
  <2> QED
    BY <2>1 DEF OneMore
<1>2. Len(f) \in Nat /\ Len(t) \in Nat
  BY FileFacts, TextFacts
<1>3. Numbered(g) /\ Len(g) >= 2
  BY <1>1, <1>2, AppendedNumbered
<1>4. LastStart(g) \in LineStarts(g) /\ \A i \in LineStarts(g) : i <= LastStart(g)
  BY <1>1, <1>3, LastLineStarts
<1>5. /\ LineStarts(g) \subseteq LineStarts(f) \cup {Len(f) + 1}
      /\ Len(f) + 1 \in LineStarts(g)
  BY AppendedStarts
<1>6. LineStarts(f) \subseteq 1 .. Len(f)
  BY StartsIn
<1>7. LastStart(g) = Len(f) + 1
  BY <1>2, <1>4, <1>5, <1>6
<1> QED
  BY <1>1, <1>3, <1>7, LoadedFacts

-----------------------------------------------------------------------------
(* A line is overwritten *)

\* What REPLACE writes: the line from its start, and k blanks.
LineOf(n, t, k, s) ==
  /\ s \in Seq(Cells) /\ Len(s) = Len(t) + k + 1
  /\ s[1] = n
  /\ \A j \in 2 .. Len(t) + 1 : s[j] = t[j - 1]
  /\ \A j \in Len(t) + 2 .. Len(t) + k + 1 : s[j] = Pad

LEMMA LineWritten ==
  ASSUME NEW n \in Numbers, NEW t \in Texts, NEW k \in Nat,
         NEW s, s = <<n>> \o t \o Padding(k)
  PROVE  LineOf(n, t, k, s)
<1>1. PICK b \in Nat : b = Len(t)
  BY TextFacts
<1>2. t \in Seq(Cells) /\ n \in Cells /\ Pad \in Cells
  BY TextFacts, CellFacts
<1>3. <<n>> \in Seq(Cells) /\ Len(<<n>>) = 1 /\ <<n>>[1] = n
  BY <1>2
<1>4. PICK p : p = Padding(k)
  OBVIOUS
<1>5. p \in Seq(Cells) /\ Len(p) = k /\ \A j \in 1 .. k : p[j] = Pad
  <2>1. Padding(k) \in [1 .. k -> Cells] /\ \A j \in 1 .. k : Padding(k)[j] = Pad
    BY <1>2 DEF Padding
  <2> QED
    BY <1>4, <2>1, SeqOfFunction
<1>6. PICK h : h = <<n>> \o t
  OBVIOUS
<1>7. /\ h \in Seq(Cells) /\ Len(h) = b + 1 /\ h[1] = n
      /\ \A j \in 2 .. b + 1 : h[j] = t[j - 1]
  <2>1. /\ h \in Seq(Cells) /\ Len(h) = 1 + b
        /\ \A j \in 1 .. 1 + b : h[j] = IF j <= 1 THEN <<n>>[j] ELSE t[j - 1]
    BY <1>1, <1>2, <1>3, <1>6, ConcatLengths
  <2> QED
    BY <1>3, <2>1
<1>8. PICK r : r = h \o p /\ r = s
  BY <1>4, <1>6
<1>9. /\ r \in Seq(Cells) /\ Len(r) = b + 1 + k
      /\ \A j \in 1 .. b + 1 + k : r[j] = IF j <= b + 1 THEN h[j] ELSE p[j - (b + 1)]
  <2>1. Joined(h, p, r)
    BY <1>5, <1>7, <1>8, JoinedFacts
  <2> QED
    BY <1>5, <1>7, <2>1 DEF Joined
<1>10. r[1] = n /\ \A j \in 2 .. b + 1 : r[j] = t[j - 1]
  BY <1>7, <1>9
<1>11. ASSUME NEW j \in b + 2 .. b + k + 1
       PROVE  r[j] = Pad
  <2>1. j \in 1 .. b + 1 + k /\ ~(j <= b + 1) /\ j - (b + 1) \in 1 .. k
    OBVIOUS
  <2>2. r[j] = p[j - (b + 1)]
    BY <1>9, <2>1
  <2>3. p[j - (b + 1)] = Pad
    BY <1>5, <2>1
  <2> QED
    BY <2>2, <2>3
<1>12. b + 1 + k = b + k + 1
  OBVIOUS
<1> QED
  BY <1>1, <1>8, <1>9, <1>10, <1>11, <1>12 DEF LineOf

\* g is f with s written over it from i on.
Overlaid(f, i, s, g) ==
  /\ g \in Seq(Cells)
  /\ Len(f) >= i + Len(s) - 1 => Len(g) = Len(f)
  /\ Len(f) < i + Len(s) - 1 => Len(g) = i + Len(s) - 1
  /\ \A j \in 1 .. Len(g) :
       g[j] = IF j \in i .. i + Len(s) - 1 THEN s[j - i + 1] ELSE f[j]

LEMMA OverwrittenFacts ==
  ASSUME NEW f \in Seq(Cells), NEW i \in 1 .. Len(f), NEW s \in Seq(Cells),
         Len(s) >= 1, NEW g, g = Overwritten(f, i, s)
  PROVE  Overlaid(f, i, s, g)
<1>1. PICK a \in Nat, l \in Nat : a = Len(f) /\ l = Len(s) /\ l >= 1
  BY FileFacts
<1>0. i \in 1 .. a /\ l >= 1
  BY <1>1
<1>2. PICK m \in Nat : (a >= i + l - 1 => m = a) /\ (a < i + l - 1 => m = i + l - 1)
  <2>1. i + l - 1 \in Nat
    BY <1>0
  <2>2. CASE a >= i + l - 1
    <3>1. ~(a < i + l - 1)
      BY <2>1, <2>2
    <3> QED
      BY <2>2, <3>1, Zenon
  <2>3. CASE ~(a >= i + l - 1)
    BY <2>1, <2>3, Zenon
  <2> QED
    BY <2>2, <2>3
<1>3. Max({a, i + l - 1}) = m
  <2>1. {a, i + l - 1} \in SUBSET (0 .. a + i + l) /\ m \in {a, i + l - 1}
        /\ (\A y \in {a, i + l - 1} : m >= y) /\ a + i + l \in Nat
    BY <1>1, <1>2
  <2> QED
    BY <2>1, MaxIs
<1>4. g = [j \in 1 .. m |-> IF j \in i .. i + l - 1 THEN s[j - i + 1] ELSE f[j]]
  BY <1>1, <1>3 DEF Overwritten
<1>5. ASSUME NEW j \in 1 .. m
      PROVE  (IF j \in i .. i + l - 1 THEN s[j - i + 1] ELSE f[j]) \in Cells
  <2>1. CASE j \in i .. i + l - 1
    <3>1. j - i + 1 \in 1 .. l
      BY <1>0, <2>1
    <3>2. \A q \in 1 .. l : s[q] \in Cells
      BY <1>1, FileFacts
    <3>3. s[j - i + 1] \in Cells
      BY <3>1, <3>2
    <3> QED
      BY <2>1, <3>3
  <2>2. CASE j \notin i .. i + l - 1
    <3>1. j \in 1 .. a
      BY <1>0, <1>2, <2>2
    <3>2. f[j] \in Cells
      BY <1>1, <3>1, FileFacts
    <3> QED
      BY <2>2, <3>2
  <2> QED
    BY <2>1, <2>2
<1>6. g \in [1 .. m -> Cells]
  BY <1>4, <1>5
<1>7. g \in Seq(Cells) /\ Len(g) = m
  BY <1>6, SeqOfFunction
<1>8. \A j \in 1 .. m : g[j] = IF j \in i .. i + l - 1 THEN s[j - i + 1] ELSE f[j]
  BY <1>4
<1> QED
  BY <1>1, <1>2, <1>7, <1>8 DEF Overlaid

\* g is f with another text on the line from i to e.
Rewritten(f, i, e, n, t, g) ==
  /\ g \in Seq(Cells)
  /\ Len(f) >= i + Len(t) => Len(g) = Len(f)
  /\ Len(f) < i + Len(t) => Len(g) = i + Len(t)
  /\ \A j \in 1 .. i - 1 : g[j] = f[j]
  /\ g[i] = n
  /\ \A j \in i + 1 .. i + Len(t) : g[j] = t[j - i]
  /\ \A j \in i + Len(t) + 1 .. e - 1 : g[j] = Pad
  /\ \A j \in e .. Len(f) : j > i + Len(t) => g[j] = f[j]

LEMMA Overwriting ==
  ASSUME NEW f \in Seq(Cells), NEW i \in 1 .. Len(f), NEW e \in i + 1 .. Len(f),
         NEW n \in Numbers, NEW t \in Texts, NEW k \in Nat,
         e - i - 1 > Len(t) => k = e - i - 1 - Len(t),
         e - i - 1 <= Len(t) => k = 0,
         NEW s, LineOf(n, t, k, s)
  PROVE  Rewritten(f, i, e, n, t, Overwritten(f, i, s))
<1> DEFINE g == Overwritten(f, i, s)
           l == i + Len(t) + k
<1>1. Len(f) \in Nat /\ Len(t) \in Nat
  BY FileFacts, TextFacts
<1>2. /\ s \in Seq(Cells) /\ Len(s) = Len(t) + k + 1
      /\ s[1] = n
      /\ \A j \in 2 .. Len(t) + 1 : s[j] = t[j - 1]
      /\ \A j \in Len(t) + 2 .. Len(t) + k + 1 : s[j] = Pad
  BY DEF LineOf
<1>3. /\ g \in Seq(Cells)
      /\ Len(f) >= l => Len(g) = Len(f)
      /\ Len(f) < l => Len(g) = l
      /\ \A j \in 1 .. Len(g) : g[j] = IF j \in i .. l THEN s[j - i + 1] ELSE f[j]
  <2>1. Overlaid(f, i, s, g)
    <3>1. Len(s) >= 1
      BY <1>1, <1>2
    <3> QED
      BY <1>2, <3>1, OverwrittenFacts
  <2>2. i + Len(s) - 1 = l
    BY <1>1, <1>2
  <2> HIDE DEF g, l
  <2> QED
    BY <2>1, <2>2 DEF Overlaid
<1>4. /\ e - i - 1 > Len(t) => l = e - 1
      /\ e - i - 1 <= Len(t) => l = i + Len(t)
      /\ l \in i .. l /\ l \in Nat
  BY <1>1
<1> HIDE DEF g, l
<1>5. /\ Len(f) >= i + Len(t) => Len(g) = Len(f)
      /\ Len(f) < i + Len(t) => Len(g) = i + Len(t)
      /\ Len(g) >= l
  BY <1>1, <1>3, <1>4
<1>6. ASSUME NEW j \in 1 .. i - 1
      PROVE  g[j] = f[j]
  <2>1. j \in 1 .. Len(g) /\ j \notin i .. l
    BY <1>1, <1>4, <1>5
  <2> QED
    BY <1>3, <2>1
<1>7. g[i] = n
  <2>1. i \in 1 .. Len(g) /\ i \in i .. l /\ i - i + 1 = 1
    BY <1>1, <1>4, <1>5
  <2>2. g[i] = s[i - i + 1]
    BY <1>3, <2>1
  <2> QED
    BY <1>2, <2>1, <2>2
<1>8. ASSUME NEW j \in i + 1 .. i + Len(t)
      PROVE  g[j] = t[j - i]
  <2>1. j \in 1 .. Len(g) /\ j \in i .. l
    BY <1>1, <1>4, <1>5
  <2>2. PICK q \in 2 .. Len(t) + 1 : q = j - i + 1 /\ q - 1 = j - i
    BY <1>1
  <2>3. g[j] = s[q]
    BY <1>3, <2>1, <2>2
  <2>4. s[q] = t[q - 1]
    BY <1>2
  <2> QED
    BY <2>2, <2>3, <2>4
<1>9. ASSUME NEW j \in i + Len(t) + 1 .. e - 1
      PROVE  g[j] = Pad
  <2>1. j \in 1 .. Len(g) /\ j \in i .. l
    BY <1>1, <1>4, <1>5
  <2>2. PICK q \in Len(t) + 2 .. Len(t) + k + 1 : q = j - i + 1
    BY <1>1
  <2>3. g[j] = s[q]
    BY <1>3, <2>1, <2>2
  <2> QED
    BY <1>2, <2>3
<1>10. ASSUME NEW j \in e .. Len(f), j > i + Len(t)
       PROVE  g[j] = f[j]
  <2>1. j \in 1 .. Len(g) /\ j \notin i .. l
    BY <1>1, <1>4, <1>5, <1>10
  <2> QED
    BY <1>3, <2>1
<1> QED
  BY <1>3, <1>5, <1>6, <1>7, <1>8, <1>9, <1>10 DEF Rewritten, g

LEMMA ReplacedFacts ==
  ASSUME NEW f \in Seq(Cells), NEW n \in Numbers, NEW t \in Texts, LinesOf(f, n) # {},
         NEW i, i = Min(LinesOf(f, n)), NEW e, e = LineEnd(f, i), e <= Len(f)
  PROVE  /\ i \in 1 .. Len(f) /\ f[i] = n /\ e \in i + 1 .. Len(f)
         /\ Rewritten(f, i, e, n, t, Replaced(f, n, t))
<1>1. i \in 1 .. Len(f) /\ f[i] = n /\ e \in i + 1 .. Len(f)
  BY FirstLine, ReadsFacts, FileFacts
<1>2. Len(f) \in Nat /\ Len(t) \in Nat
  BY FileFacts, TextFacts
<1> DEFINE longer == e - i - 1 - Len(t)
           k == IF longer > 0 THEN longer ELSE 0
           s == <<n>> \o t \o Padding(k)
<1>3. Replaced(f, n, t) = Overwritten(f, i, s)
  <2>1. ~(e > Len(f))
    BY <1>1, <1>2
  <2> QED
    BY <2>1, Zenon DEF Replaced
<1>4. k \in Nat /\ (e - i - 1 > Len(t) => k = e - i - 1 - Len(t)) /\ (e - i - 1 <= Len(t) => k = 0)
  BY <1>1, <1>2
<1>5. LineOf(n, t, k, s)
  <2> HIDE DEF k
  <2> QED
    BY <1>4, LineWritten
<1> HIDE DEF k, s
<1>6. Rewritten(f, i, e, n, t, Overwritten(f, i, s))
  BY <1>1, <1>4, <1>5, Overwriting, Zenon
<1> QED
  BY <1>1, <1>3, <1>6, Zenon


LEMMA EndInside ==
  ASSUME NEW f \in Seq(Cells), Terminated(f), NEW i \in 1 .. Len(f)
  PROVE  LineEnd(f, i) \in i .. Len(f) /\ f[LineEnd(f, i)] = NL
<1>1. LineEnd(f, i) \in i .. Len(f) + 1 /\ \A j \in i .. LineEnd(f, i) - 1 : f[j] # NL
  BY EndOf
<1>2. Len(f) \in Nat /\ f[Len(f)] = NL
  BY FileFacts
<1>3. LineEnd(f, i) # Len(f) + 1
  BY <1>1, <1>2
<1>4. LineEnd(f, i) \in i .. Len(f)
  BY <1>1, <1>2, <1>3
<1> QED
  BY <1>4, EndOf

\* Every line of g starts where one of f does, with the same cell.
StartsWithin(f, g) ==
  /\ g \in Seq(Cells) /\ Len(g) \in Nat /\ Len(g) >= Len(f)
  /\ \A p \in LineStarts(g) : p \in LineStarts(f) /\ g[p] = f[p]

\* A text without a newline starts no line, whatever it is written over.
LEMMA RewrittenStarts ==
  ASSUME NEW f \in Seq(Cells), NEW i \in LineStarts(f), NEW e \in i + 1 .. Len(f),
         NEW n \in Numbers, f[i] = n, NEW t \in Texts, ~Splits(t),
         NEW g, Rewritten(f, i, e, n, t, g)
  PROVE  /\ StartsWithin(f, g)
         /\ \A p \in LineStarts(f) : p <= i => p \in LineStarts(g)
<1>1. Len(f) \in Nat /\ Len(t) \in Nat /\ i \in 1 .. Len(f)
  BY FileFacts, TextFacts, StartsIn
<1>2. /\ g \in Seq(Cells)
      /\ Len(f) >= i + Len(t) => Len(g) = Len(f)
      /\ Len(f) < i + Len(t) => Len(g) = i + Len(t)
      /\ \A j \in 1 .. i - 1 : g[j] = f[j]
      /\ g[i] = n
      /\ \A j \in i + 1 .. i + Len(t) : g[j] = t[j - i]
      /\ \A j \in i + Len(t) + 1 .. e - 1 : g[j] = Pad
      /\ \A j \in e .. Len(f) : j > i + Len(t) => g[j] = f[j]
  BY DEF Rewritten
<1>3. \A k \in 1 .. Len(t) : t[k] # NL
  BY TextFacts DEF Splits
<1>4. ASSUME NEW j \in i .. Len(g), g[j] = NL
      PROVE  j \in e .. Len(f) /\ j > i + Len(t)
  <2>1. j # i
    BY <1>2, <1>4, CellFacts
  <2>2. ~(j \in i + 1 .. i + Len(t))
    <3>1. SUFFICES ASSUME j \in i + 1 .. i + Len(t) PROVE FALSE
      OBVIOUS
    <3>2. j - i \in 1 .. Len(t)
      BY <1>1, <3>1
    <3>3. g[j] = t[j - i]
      BY <1>2, <3>1
    <3> QED
      BY <1>3, <1>4, <3>2, <3>3
  <2>3. ~(j \in i + Len(t) + 1 .. e - 1)
    BY <1>2, <1>4, CellFacts
  <2>4. Len(g) \in Nat /\ j > i + Len(t) /\ j >= e
    BY <1>1, <1>2, <2>1, <2>2, <2>3
  <2> QED
    BY <1>1, <1>2, <2>4
<1>5. Len(g) \in Nat /\ Len(g) >= Len(f)
  BY <1>1, <1>2
<1>6. ASSUME NEW p \in LineStarts(g)
      PROVE  p \in LineStarts(f) /\ g[p] = f[p]
  <2>1. p \in 1 .. Len(g) /\ (p = 1 \/ g[p - 1] = NL)
    BY <1>6 DEF LineStarts
  <2>2. CASE p <= i
    <3>1. p \in 1 .. Len(f) /\ (p = 1 \/ p - 1 \in 1 .. i - 1)
      BY <1>1, <2>1, <2>2
    <3>2. p = 1 \/ f[p - 1] = NL
      BY <1>2, <2>1, <3>1
    <3>3. p = i \/ p \in 1 .. i - 1
      BY <1>1, <2>1, <2>2
    <3>4. g[p] = f[p]
      BY <1>2, <3>3
    <3> QED
      BY <3>1, <3>2, <3>4 DEF LineStarts
  <2>3. CASE p > i
    <3>1. p - 1 \in i .. Len(g) /\ g[p - 1] = NL
      BY <1>1, <1>5, <2>1, <2>3
    <3>2. p - 1 \in e .. Len(f) /\ p - 1 > i + Len(t)
      BY <1>4, <3>1
    <3>3. Len(g) = Len(f)
      BY <1>1, <1>2, <3>2
    <3>4. f[p - 1] = NL
      BY <1>2, <3>1, <3>2
    <3>5. p \in 1 .. Len(f) /\ p \in e .. Len(f) /\ p > i + Len(t)
      BY <1>1, <2>1, <3>2, <3>3
    <3>6. g[p] = f[p]
      BY <1>2, <3>5
    <3> QED
      BY <3>4, <3>5, <3>6 DEF LineStarts
  <2> QED
    BY <1>1, <2>1, <2>2, <2>3
<1>7. ASSUME NEW p \in LineStarts(f), p <= i
      PROVE  p \in LineStarts(g)
  <2>1. p \in 1 .. Len(f) /\ (p = 1 \/ f[p - 1] = NL)
    BY <1>7 DEF LineStarts
  <2>2. p \in 1 .. Len(g) /\ (p = 1 \/ p - 1 \in 1 .. i - 1)
    BY <1>1, <1>5, <1>7, <2>1
  <2>3. p = 1 \/ g[p - 1] = NL
    BY <1>2, <2>1, <2>2
  <2> QED
    BY <2>2, <2>3 DEF LineStarts
<1> QED
  BY <1>2, <1>5, <1>6, <1>7 DEF StartsWithin

LEMMA ReplacedStarts ==
  ASSUME NEW f \in Seq(Cells), NEW n \in Numbers, NEW t \in Texts, LinesOf(f, n) # {},
         ~Splits(t)
  PROVE  /\ StartsWithin(f, Replaced(f, n, t))
         /\ \A p \in LineStarts(f) :
              p <= Min(LinesOf(f, n)) => p \in LineStarts(Replaced(f, n, t))
<1>1. PICK i, e : i = Min(LinesOf(f, n)) /\ e = LineEnd(f, i)
  OBVIOUS
<1>2. i \in LineStarts(f) /\ f[i] = n
  BY <1>1, FirstLine, StartsIn
<1>3. CASE e <= Len(f)
  <2>1. e \in i + 1 .. Len(f) /\ Rewritten(f, i, e, n, t, Replaced(f, n, t))
    BY <1>1, <1>3, ReplacedFacts
  <2> QED
    BY <1>1, <1>2, <2>1, RewrittenStarts
<1>4. CASE ~(e <= Len(f))
  <2>1. e > Len(f)
    <3>1. e \in Nat /\ Len(f) \in Nat
      BY <1>1, <1>2, StartsIn, EndOf, FileFacts
    <3> QED
      BY <1>4, <3>1
  <2>2. Replaced(f, n, t) = f
    BY <1>1, <2>1, Zenon DEF Replaced
  <2> QED
    BY <2>2, FileFacts DEF StartsWithin
<1> QED
  BY <1>3, <1>4

LEMMA ReplacedNumbered ==
  ASSUME NEW f \in Seq(Cells), NEW n \in Numbers, NEW t \in Texts, LinesOf(f, n) # {},
         ~Splits(t), Numbered(f)
  PROVE  Numbered(Replaced(f, n, t))
BY ReplacedStarts DEF StartsWithin, Numbered


\* A line that both files have, with the same text, is read the same in both, if
\* the lines of g are among those of f.
LEMMA KeptLine ==
  ASSUME NEW f \in Seq(Cells), NEW g, StartsWithin(f, g),
         NEW m \in Numbers, LinesOf(f, m) # {},
         NEW p, p = Min(LinesOf(f, m)), p \in LineStarts(g), Line(g, p) = Line(f, p)
  PROVE  Reads(g, m) = Reads(f, m)
<1>1. /\ g \in Seq(Cells)
      /\ \A q \in LineStarts(g) : q \in LineStarts(f) /\ g[q] = f[q]
  BY DEF StartsWithin
<1>2. p \in LinesOf(f, m) /\ f[p] = m /\ \A q \in LinesOf(f, m) : p <= q
  BY FirstLine
<1>3. p \in LinesOf(g, m) /\ LinesOf(g, m) \subseteq LinesOf(f, m)
  BY <1>1, <1>2 DEF LinesOf
<1>4. LinesOf(g, m) \in SUBSET Nat
  BY <1>1, StartsIn
<1>5. Min(LinesOf(g, m)) = p
  BY <1>2, <1>3, <1>4, MinIs
<1> QED
  BY <1>3, <1>5, SameReads

LEMMA KeptReads ==
  ASSUME NEW f \in Seq(Cells), NEW g, StartsWithin(f, g),
         NEW m \in Numbers, LinesOf(f, m) # {},
         NEW p, p = Min(LinesOf(f, m)), p \in LineStarts(g),
         LineEnd(f, p) <= Len(f),
         \A j \in p .. LineEnd(f, p) : g[j] = f[j]
  PROVE  Reads(g, m) = Reads(f, m)
<1>1. g \in Seq(Cells) /\ Len(g) \in Nat /\ Len(g) >= Len(f)
  BY DEF StartsWithin
<1>2. p \in 1 .. Len(f)
  BY FirstLine
<1>3. LineEnd(f, p) <= Len(g)
  BY <1>1, <1>2, EndOf, FileFacts
<1>4. Line(g, p) = Line(f, p)
  BY <1>1, <1>2, <1>3, SameLine
<1> QED
  BY <1>4, KeptLine

\* A REPLACE leaves every message before its own as it was.
LEMMA ReplacedBefore ==
  ASSUME NEW f \in Seq(Cells), NEW n \in Numbers, NEW t \in Texts, LinesOf(f, n) # {},
         ~Splits(t), NEW m \in Numbers, m # n, LinesOf(f, m) # {},
         ~(Min(LinesOf(f, m)) > Min(LinesOf(f, n)))
  PROVE  Reads(Replaced(f, n, t), m) = Reads(f, m)
<1> DEFINE g == Replaced(f, n, t)
<1>1. PICK p, i, e : p = Min(LinesOf(f, m)) /\ i = Min(LinesOf(f, n)) /\ e = LineEnd(f, i)
  OBVIOUS
<1>2. /\ p \in LinesOf(f, m) /\ p \in 1 .. Len(f) /\ f[p] = m /\ p \in LineStarts(f)
      /\ i \in LinesOf(f, n) /\ i \in 1 .. Len(f) /\ f[i] = n /\ i \in LineStarts(f)
  BY <1>1, FirstLine, StartsIn
<1>3. Len(f) \in Nat /\ p < i
  BY <1>1, <1>2, FileFacts
<1>4. f[i - 1] = NL /\ i - 1 \in p .. Len(f)
  BY <1>2, <1>3 DEF LineStarts
<1>5. LineEnd(f, p) \in p .. i - 1
  <2>1. LineEnd(f, p) \in p .. Len(f) + 1 /\ \A j \in p .. LineEnd(f, p) - 1 : f[j] # NL
    BY <1>2, EndOf
  <2>2. ~(i - 1 \in p .. LineEnd(f, p) - 1)
    BY <1>4, <2>1
  <2> QED
    BY <1>2, <1>3, <1>4, <2>1, <2>2
<1>6. StartsWithin(f, g) /\ p \in LineStarts(g)
  BY <1>1, <1>2, <1>3, ReplacedStarts
<1>7. \A j \in 1 .. i - 1 : g[j] = f[j]
  <2>1. CASE e <= Len(f)
    <3>1. Rewritten(f, i, e, n, t, g)
      BY <1>1, <2>1, ReplacedFacts
    <3> QED
      BY <3>1 DEF Rewritten
  <2>2. CASE e > Len(f)
    BY <1>1, <2>2, Zenon DEF Replaced
  <2> QED
    BY <1>1, <1>2, <1>3, <2>1, <2>2, EndOf
<1>8. LineEnd(f, p) <= Len(f) /\ \A j \in p .. LineEnd(f, p) : g[j] = f[j]
  BY <1>2, <1>3, <1>5, <1>7
<1> HIDE DEF g
<1>9. Reads(g, m) = Reads(f, m)
  BY <1>1, <1>6, <1>8, KeptReads
<1> QED
  BY <1>9 DEF g

\* And every message whose line begins behind what is written.
LEMMA ReplacedBehind ==
  ASSUME NEW f \in Seq(Cells), NEW n \in Numbers, NEW t \in Texts, LinesOf(f, n) # {},
         ~Splits(t), NEW m \in Numbers, LinesOf(f, m) # {},
         Min(LinesOf(f, m)) > Min(LinesOf(f, n)) + Len(t) + 1
  PROVE  Reads(Replaced(f, n, t), m) = Reads(f, m)
<1> DEFINE g == Replaced(f, n, t)
<1>1. PICK p, i, e : p = Min(LinesOf(f, m)) /\ i = Min(LinesOf(f, n)) /\ e = LineEnd(f, i)
  OBVIOUS
<1>2. /\ p \in LinesOf(f, m) /\ p \in 1 .. Len(f) /\ p \in LineStarts(f) /\ Len(f) \in Nat
      /\ i \in 1 .. Len(f) /\ Len(t) \in Nat /\ p > i + Len(t) + 1
  BY <1>1, FirstLine, StartsIn, FileFacts, TextFacts
<1>3. p - 1 \in i .. Len(f) /\ f[p - 1] = NL
  BY <1>2 DEF LineStarts
<1>4. e \in i .. p - 1
  <2>1. e \in i .. Len(f) + 1 /\ \A j \in i .. e - 1 : f[j] # NL
    BY <1>1, <1>2, EndOf
  <2>2. ~(p - 1 \in i .. e - 1)
    BY <1>3, <2>1
  <2> QED
    BY <1>2, <1>3, <2>1, <2>2
<1>5. Rewritten(f, i, e, n, t, g)
  <2>1. e <= Len(f)
    BY <1>2, <1>4
  <2> QED
    BY <1>1, <2>1, ReplacedFacts
<1>6. /\ g \in Seq(Cells) /\ Len(g) = Len(f)
      /\ \A j \in e .. Len(f) : j > i + Len(t) => g[j] = f[j]
  BY <1>2, <1>5 DEF Rewritten
<1>7. g[p - 1] = NL /\ \A j \in p .. Len(f) : g[j] = f[j]
  BY <1>2, <1>3, <1>4, <1>6
<1>8. p \in LineStarts(g)
  BY <1>2, <1>6, <1>7 DEF LineStarts
<1>9. StartsWithin(f, g)
  BY ReplacedStarts
<1> HIDE DEF g
<1>10. Line(g, p) = Line(f, p)
  BY <1>2, <1>6, <1>7, SameTail
<1>11. Reads(g, m) = Reads(f, m)
  BY <1>1, <1>8, <1>9, <1>10, KeptLine
<1> QED
  BY <1>11 DEF g

\* No line begins within the text of another one, so what a text that fits is
\* written over is its own line.
LEMMA CoveredTooLong ==
  ASSUME NEW f \in Seq(Cells), NEW n \in Numbers, NEW t \in Texts, LinesOf(f, n) # {},
         NEW p \in LineStarts(f), p \in Covered(f, n, t)
  PROVE  TooLong(f, n, t)
<1>1. PICK i, e : i = Min(LinesOf(f, n)) /\ e = LineEnd(f, i)
  OBVIOUS
<1>2. /\ i \in 1 .. Len(f) /\ e \in i + 1 .. Len(f) + 1 /\ Len(Reads(f, n)) = e - i - 1
      /\ Len(f) \in Nat /\ Len(t) \in Nat
  BY <1>1, ReadsFacts, FileFacts, TextFacts
<1>3. p \in i + 1 .. i + Len(t) + 1
  BY <1>1 DEF Covered
<1>4. p \in 1 .. Len(f) /\ f[p - 1] = NL /\ p - 1 \in i .. Len(f)
  BY <1>2, <1>3 DEF LineStarts
<1>5. ~(p - 1 \in i .. e - 1)
  BY <1>1, <1>2, <1>4, EndOf
<1>6. Len(t) > e - i - 1
  BY <1>2, <1>3, <1>4, <1>5
<1> QED
  BY <1>2, <1>6 DEF TooLong

\* A REPLACE creates no message, and changes another one only if it is written over
\* the beginning of its line.
LEMMA ReplacedOthers ==
  ASSUME NEW f \in Seq(Cells), NEW n \in Numbers, NEW t \in Texts, LinesOf(f, n) # {},
         ~Splits(t), NEW m \in Numbers, m # n
  PROVE  \/ Reads(Replaced(f, n, t), m) = Reads(f, m)
         \/ /\ TooLong(f, n, t) /\ LinesOf(f, m) # {}
            /\ Min(LinesOf(f, m)) \in Covered(f, n, t)
<1>1. CASE LinesOf(f, m) = {}
  <2>1. LinesOf(Replaced(f, n, t), m) = {}
    BY <1>1, ReplacedStarts DEF StartsWithin, LinesOf
  <2> QED
    BY <1>1, <2>1 DEF Reads
<1>2. CASE LinesOf(f, m) # {}
  <2>1. PICK p, i : p = Min(LinesOf(f, m)) /\ i = Min(LinesOf(f, n))
    OBVIOUS
  <2>2. p \in LineStarts(f) /\ p \in Nat /\ i \in Nat /\ Len(t) \in Nat
    BY <1>2, <2>1, FirstLine, StartsIn, TextFacts
  <2>3. CASE ~(p > i)
    BY <1>2, <2>1, <2>3, ReplacedBefore
  <2>4. CASE p > i + Len(t) + 1
    BY <1>2, <2>1, <2>4, ReplacedBehind
  <2>5. CASE p \in i + 1 .. i + Len(t) + 1
    <3>1. p \in Covered(f, n, t)
      BY <2>1, <2>5 DEF Covered
    <3>2. TooLong(f, n, t)
      BY <2>2, <3>1, CoveredTooLong
    <3> QED
      BY <1>2, <2>1, <3>1, <3>2
  <2> QED
    BY <2>2, <2>3, <2>4, <2>5
<1> QED
  BY <1>1, <1>2

\* A text that fits into its line leaves every other cell where it was.
LEMMA RewrittenInside ==
  ASSUME NEW f \in Seq(Cells), NEW i \in LineStarts(f), NEW e \in i + 1 .. Len(f),
         e = LineEnd(f, i),
         NEW n \in Numbers, f[i] = n, NEW t \in Texts, ~Splits(t), i + Len(t) < e,
         NEW g, Rewritten(f, i, e, n, t, g)
  PROVE  /\ Len(g) = Len(f) /\ LineStarts(g) = LineStarts(f)
         /\ \A j \in 1 .. Len(f) : j <= i \/ j >= e => g[j] = f[j]
         /\ \A j \in i .. e - 1 : g[j] # NL /\ f[j] # NL
<1>1. Len(f) \in Nat /\ Len(t) \in Nat /\ i \in 1 .. Len(f)
  BY FileFacts, TextFacts, StartsIn
<1>2. /\ g \in Seq(Cells)
      /\ Len(f) >= i + Len(t) => Len(g) = Len(f)
      /\ \A j \in 1 .. i - 1 : g[j] = f[j]
      /\ g[i] = n
      /\ \A j \in i + 1 .. i + Len(t) : g[j] = t[j - i]
      /\ \A j \in i + Len(t) + 1 .. e - 1 : g[j] = Pad
      /\ \A j \in e .. Len(f) : j > i + Len(t) => g[j] = f[j]
  BY DEF Rewritten
<1>3. Len(g) = Len(f)
  BY <1>1, <1>2
<1>4. \A j \in i .. e - 1 : f[j] # NL
  BY <1>1, EndOf
<1>5. ASSUME NEW j \in i .. e - 1
      PROVE  g[j] # NL
  <2>1. CASE j = i
    BY <1>2, <2>1, CellFacts
  <2>2. CASE j \in i + 1 .. i + Len(t)
    <3>1. j - i \in 1 .. Len(t)
      BY <1>1, <2>2
    <3>2. t[j - i] # NL
      BY <3>1, TextFacts DEF Splits
    <3> QED
      BY <1>2, <2>2, <3>2
  <2>3. CASE j \in i + Len(t) + 1 .. e - 1
    BY <1>2, <2>3, CellFacts
  <2> QED
    BY <1>1, <2>1, <2>2, <2>3
<1>6. ASSUME NEW j \in 1 .. Len(f), j <= i \/ j >= e
      PROVE  g[j] = f[j]
  <2>1. j \in 1 .. i - 1 \/ j = i \/ (j \in e .. Len(f) /\ j > i + Len(t))
    BY <1>1, <1>6
  <2> QED
    BY <1>2, <2>1
<1>7. \A j \in 1 .. Len(f) : g[j] = NL <=> f[j] = NL
  <2> TAKE j \in 1 .. Len(f)
  <2>1. j <= i \/ j >= e \/ j \in i .. e - 1
    BY <1>1
  <2> QED
    BY <1>4, <1>5, <1>6, <2>1
<1>8. \A p \in 1 .. Len(f) : p = 1 \/ p - 1 \in 1 .. Len(f)
  BY <1>1
<1>9. LineStarts(g) = LineStarts(f)
  BY <1>3, <1>7, <1>8 DEF LineStarts
<1> QED
  BY <1>3, <1>4, <1>5, <1>6, <1>9


\* A REPLACE that fits: the file keeps its lines, and READ finds the new text and
\* every other message as it was.
LEMMA ReplacedFits ==
  ASSUME NEW f \in Seq(Cells), NEW n \in Numbers, NEW t \in Texts, LinesOf(f, n) # {},
         Terminated(f), ~Splits(t), ~TooLong(f, n, t),
         NEW g, g = Replaced(f, n, t)
  PROVE  /\ g \in Seq(Cells) /\ Terminated(g) /\ Len(g) = Len(f)
         /\ LineStarts(g) = LineStarts(f) /\ \A p \in LineStarts(f) : g[p] = f[p]
         /\ NumbersIn(g) = NumbersIn(f)
         /\ \A m \in Numbers : m # n => Reads(g, m) = Reads(f, m)
         /\ Unpadded(Reads(g, n)) = t
<1>1. PICK i, e : i = Min(LinesOf(f, n)) /\ e = LineEnd(f, i)
  OBVIOUS
<1>2. i \in LineStarts(f) /\ i \in LinesOf(f, n) /\ i \in 1 .. Len(f) /\ f[i] = n
  BY <1>1, FirstLine, StartsIn
<1>3. Len(f) \in Nat /\ Len(t) \in Nat /\ e \in i .. Len(f) /\ f[e] = NL
  BY <1>1, <1>2, EndInside, FileFacts, TextFacts
<1>4. e \in i + 1 .. Len(f) /\ Rewritten(f, i, e, n, t, g)
  BY <1>1, <1>3, ReplacedFacts
<1>5. i + Len(t) < e
  <2>1. Len(Reads(f, n)) = e - i - 1
    BY <1>1, ReadsFacts
  <2>2. ~(Len(t) > e - i - 1)
    BY <2>1 DEF TooLong
  <2> QED
    BY <1>2, <1>3, <2>2
<1>6. /\ Len(g) = Len(f) /\ LineStarts(g) = LineStarts(f)
      /\ \A j \in 1 .. Len(f) : j <= i \/ j >= e => g[j] = f[j]
      /\ \A j \in i .. e - 1 : g[j] # NL /\ f[j] # NL
  BY <1>1, <1>2, <1>4, <1>5, RewrittenInside
<1>7. StartsWithin(f, g)
  BY ReplacedStarts
<1>8. g \in Seq(Cells) /\ \A p \in LineStarts(f) : g[p] = f[p]
  BY <1>6, <1>7 DEF StartsWithin
<1>9. Terminated(g)
  <2>1. f[Len(f)] = NL /\ Len(f) \in 1 .. Len(f) /\ Len(f) >= e
    BY <1>2, <1>3, FileFacts
  <2>2. g[Len(f)] = NL
    BY <1>6, <2>1
  <2> QED
    BY <1>6, <1>8, <2>2, FileFacts
<1>10. \A m \in Numbers : LinesOf(g, m) = LinesOf(f, m)
  BY <1>6, <1>8 DEF LinesOf
<1>11. NumbersIn(g) = NumbersIn(f)
  BY <1>10, NumbersInFile
<1>12. ASSUME NEW m \in Numbers, m # n
       PROVE  Reads(g, m) = Reads(f, m)
  <2>1. CASE LinesOf(f, m) = {}
    BY <1>10, <2>1 DEF Reads
  <2>2. CASE LinesOf(f, m) # {}
    <3>1. PICK p, d : p = Min(LinesOf(f, m)) /\ d = LineEnd(f, p)
      OBVIOUS
    <3>2. p \in LinesOf(f, m) /\ p \in LineStarts(f) /\ p \in 1 .. Len(f) /\ f[p] = m
      BY <2>2, <3>1, FirstLine, StartsIn
    <3>3. d \in p .. Len(f) /\ f[d] = NL /\ \A j \in p .. d - 1 : f[j] # NL
      BY <3>1, <3>2, EndInside, EndOf
    <3>4. \A j \in p .. d : j <= i \/ j >= e
      <4>1. CASE p < i
        <5>1. f[i - 1] = NL /\ i - 1 \in p .. Len(f)
          BY <1>2, <1>3, <3>2, <4>1 DEF LineStarts
        <5>2. ~(i - 1 \in p .. d - 1)
          BY <3>3, <5>1
        <5> QED
          BY <1>2, <3>2, <3>3, <5>1, <5>2
      <4>2. CASE p > i
        <5>1. f[p - 1] = NL /\ p - 1 \in i .. Len(f)
          BY <1>2, <1>3, <3>2, <4>2 DEF LineStarts
        <5>2. ~(p - 1 \in i .. e - 1)
          BY <1>6, <5>1
        <5> QED
          BY <1>2, <1>3, <3>2, <5>1, <5>2
      <4>3. p # i
        BY <1>2, <1>12, <3>2
      <4> QED
        BY <1>2, <3>2, <4>1, <4>2, <4>3
    <3>5. d <= Len(f) /\ \A j \in p .. d : g[j] = f[j]
      <4>1. \A j \in p .. d : j \in 1 .. Len(f)
        BY <1>3, <3>2, <3>3
      <4> QED
        BY <1>3, <1>6, <3>3, <3>4, <4>1
    <3>6. p \in LineStarts(g)
      BY <1>6, <3>2
    <3> QED
      BY <1>7, <2>2, <3>1, <3>5, <3>6, KeptReads
  <2> QED
    BY <2>1, <2>2
<1>13. Unpadded(Reads(g, n)) = t
  <2>1. LinesOf(g, n) # {} /\ Min(LinesOf(g, n)) = i
    BY <1>1, <1>10
  <2>2. LineEnd(g, i) = e
    <3>1. g[e] = NL /\ e <= Len(g) /\ i \in 1 .. Len(g) /\ e \in i .. Len(g) + 1
      BY <1>2, <1>3, <1>6
    <3> QED
      BY <1>6, <1>8, <3>1, EndIs
  <2>3. /\ Reads(g, n) \in Seq(Cells)
        /\ Len(Reads(g, n)) = e - i - 1
        /\ \A k \in 1 .. e - i - 1 : Reads(g, n)[k] = g[i + k]
    BY <1>8, <2>1, <2>2, ReadsFacts
  <2>4. /\ \A j \in i + 1 .. i + Len(t) : g[j] = t[j - i]
        /\ \A j \in i + Len(t) + 1 .. e - 1 : g[j] = Pad
    BY <1>4 DEF Rewritten
  <2>5. ASSUME NEW k \in 1 .. Len(t)
        PROVE  Reads(g, n)[k] = t[k]
    <3>1. k \in 1 .. e - i - 1
      BY <1>2, <1>3, <1>5
    <3>2. Reads(g, n)[k] = g[i + k]
      BY <2>3, <3>1
    <3>3. PICK j \in i + 1 .. i + Len(t) : j = i + k /\ j - i = k
      BY <1>2, <1>3
    <3>4. g[j] = t[j - i]
      BY <2>4
    <3> QED
      BY <3>2, <3>3, <3>4
  <2>6. ASSUME NEW k \in Len(t) + 1 .. e - i - 1
        PROVE  Reads(g, n)[k] = Pad
    <3>1. k \in 1 .. e - i - 1 /\ i + k \in i + Len(t) + 1 .. e - 1
      BY <1>2, <1>3
    <3>2. Reads(g, n)[k] = g[i + k]
      BY <2>3, <3>1
    <3> QED
      BY <2>4, <3>1, <3>2
  <2>7. Len(t) <= e - i - 1
    BY <1>2, <1>3, <1>5
  <2> QED
    BY <2>3, <2>5, <2>6, <2>7, UnpaddedIs
<1> QED
  BY <1>6, <1>8, <1>9, <1>11, <1>12, <1>13

\* A REPLACE that fits leaves the number that a restart finds.
LEMMA ReplacedLoaded ==
  ASSUME NEW f \in Seq(Cells), NEW n \in Numbers, NEW t \in Texts, LinesOf(f, n) # {},
         Terminated(f), ~Splits(t), ~TooLong(f, n, t), Numbered(f),
         NEW g, g = Replaced(f, n, t)
  PROVE  LoadedNumber(g) = LoadedNumber(f)
<1>1. /\ g \in Seq(Cells) /\ Len(g) = Len(f) /\ LineStarts(g) = LineStarts(f)
      /\ \A p \in LineStarts(f) : g[p] = f[p]
  BY ReplacedFits
<1>2. Numbered(g)
  BY <1>1 DEF Numbered
<1>3. CASE Len(f) < 2
  BY <1>1, <1>3 DEF LastLine, LoadedNumber
<1>4. CASE Len(f) >= 2
  <2>1. /\ LastStart(f) \in LineStarts(f) /\ \A p \in LineStarts(f) : p <= LastStart(f)
        /\ LastStart(g) \in LineStarts(f) /\ \A p \in LineStarts(f) : p <= LastStart(g)
    BY <1>1, <1>2, <1>4, LastLineStarts
  <2>2. LineStarts(f) \subseteq 1 .. Len(f)
    BY StartsIn
  <2>3. LastStart(g) = LastStart(f)
    BY <2>1, <2>2
  <2> QED
    BY <1>1, <1>2, <1>4, <2>1, <2>3, LoadedFacts
<1> QED
  BY <1>3, <1>4, FileFacts

-----------------------------------------------------------------------------
(* The type invariant *)

LEMMA ReplacedType ==
  ASSUME NEW f \in Seq(Cells), NEW n \in Numbers, NEW t \in Texts, LinesOf(f, n) # {}
  PROVE  Replaced(f, n, t) \in Seq(Cells)
<1>1. PICK i, e : i = Min(LinesOf(f, n)) /\ e = LineEnd(f, i)
  OBVIOUS
<1>2. e \in Nat /\ Len(f) \in Nat
  BY <1>1, FirstLine, EndOf, FileFacts
<1>3. CASE e <= Len(f)
  <2>1. Rewritten(f, i, e, n, t, Replaced(f, n, t))
    BY <1>1, <1>3, ReplacedFacts
  <2> QED
    BY <2>1 DEF Rewritten
<1>4. CASE e > Len(f)
  BY <1>1, <1>4, Zenon DEF Replaced
<1> QED
  BY <1>2, <1>3, <1>4

LEMMA AllocFacts ==
  ASSUME NEW c \in 0 .. IntMax - 1
  PROVE  /\ AllocNumber(c) \in Numbers
         /\ AllocNumber(c) > c => AllocNumber(c) = c + 1
BY StoreConstantsOK DEF AllocNumber, Numbers

LEMMA LoadedType ==
  ASSUME NEW f, Loadable(f)
  PROVE  LoadedNumber(f) \in {0} \cup Numbers
BY DEF Loadable, LoadedNumber

LEMMA CounterRange == {0} \cup Numbers = 0 .. IntMax - 1 /\ 0 \notin Numbers
BY StoreConstantsOK DEF Numbers

LEMMA JobFacts ==
  ASSUME TypeOK, NEW w \in Workers, pc[w] = "save"
  PROVE  job[w].num \in Numbers /\ job[w].text \in Texts
BY DEF TypeOK

LEMMA ReportType ==
  ASSUME TypeOK, NEW n \in Numbers, NEW t \in Texts, Report(n, t)
  PROVE  /\ told' \in [DOMAIN told' -> Texts] /\ DOMAIN told' = DOMAIN told \cup {n}
         /\ DOMAIN told' \subseteq Numbers
         /\ told'[n] = t /\ \A m \in DOMAIN told : m # n => told'[m] = told[m]
BY DEF TypeOK, Report

\* The counter of a first start is the highest number in the file.
LEMMA InitialFacts ==
  ASSUME NEW f \in InitialFiles
  PROVE  /\ f \in Seq(Cells) /\ Terminated(f) /\ Numbered(f)
         /\ \A n \in NumbersIn(f) : n <= LoadedNumber(f)
         /\ \A n \in NumbersIn(f) : Unpadded(Reads(f, n)) \in Texts
<1>1. /\ f \in Seq(Cells) /\ Terminated(f) /\ Numbered(f)
      /\ \A n \in NumbersIn(f) : Unpadded(Reads(f, n)) \in Texts
  BY InitialFilesOK DEF Numbered
<1>2. CASE Len(f) >= 2
  <2>1. /\ LastStart(f) \in LineStarts(f) /\ \A j \in LineStarts(f) : j <= LastStart(f)
        /\ LoadedNumber(f) = f[LastStart(f)]
    BY <1>1, <1>2, LastLineStarts, LoadedFacts
  <2>2. \A j \in LineStarts(f) : f[j] <= LoadedNumber(f)
    BY <2>1, InitialFilesOK
  <2> QED
    BY <1>1, <2>2 DEF NumbersIn
<1>3. CASE Len(f) < 2
  <2>1. Len(f) # 1
    <3>1. SUFFICES ASSUME Len(f) = 1 PROVE FALSE
      OBVIOUS
    <3>2. 1 \in LineStarts(f) /\ f[1] = NL
      BY <1>1, <3>1, FileFacts DEF LineStarts
    <3> QED
      BY <1>1, <3>2, CellFacts DEF Numbered
  <2>2. NumbersIn(f) = {}
    <3>1. Len(f) = 0
      BY <1>1, <1>3, <2>1, FileFacts
    <3>2. LineStarts(f) = {}
      <4>1. LineStarts(f) \subseteq 1 .. Len(f)
        BY <1>1, StartsIn
      <4>2. \A i \in 1 .. Len(f) : FALSE
        BY <3>1
      <4> QED
        BY <4>1, <4>2
    <3> QED
      BY <3>2 DEF NumbersIn
  <2> QED
    BY <1>1, <2>2
<1> QED
  BY <1>1, <1>2, <1>3, FileFacts

LEMMA TypeInit == Init => TypeOK
<1> SUFFICES ASSUME Init PROVE TypeOK
  OBVIOUS
<1> USE DEF Init
<1>1. file \in Seq(Cells) /\ \A n \in NumbersIn(file) : Unpadded(Reads(file, n)) \in Texts
  BY InitialFacts
<1>2. up \in BOOLEAN
  BY DEF Loadable
<1>3. msgNumber \in 0 .. IntMax - 1
  BY LoadedType, CounterRange
<1>4. pc \in [Workers -> {"idle", "save"}] /\ \A w \in Workers : pc[w] # "save"
  OBVIOUS
<1>5. job \in [Workers -> {NoJob} \cup [num : Numbers, text : Texts]]
  OBVIOUS
<1>6. told \in [DOMAIN told -> Texts] /\ DOMAIN told \subseteq Numbers
  BY <1>1, NumbersInFile
<1> QED
  BY <1>1, <1>2, <1>3, <1>4, <1>5, <1>6 DEF TypeOK

LEMMA TypeStep == TypeOK /\ [Next]_vars => TypeOK'
<1> SUFFICES ASSUME TypeOK, [Next]_vars PROVE TypeOK'
  OBVIOUS
<1>1. ASSUME NEW w \in Workers, Save(w)
      PROVE  TypeOK'
  <2>1. job[w].num \in Numbers /\ job[w].text \in Texts
    BY <1>1, JobFacts DEF Save
  <2>2. file' \in Seq(Cells)
    <3>1. file \in Seq(Cells) /\ file' = Appended(file, job[w].num, job[w].text)
      BY <1>1 DEF Save, TypeOK
    <3> QED
      BY <2>1, <3>1, AppendedFacts DEF OneMore
  <2>3. told' \in [DOMAIN told' -> Texts] /\ DOMAIN told' \subseteq Numbers
    BY <1>1, <2>1, ReportType DEF Save
  <2>4. /\ pc' \in [Workers -> {"idle", "save"}]
        /\ job' \in [Workers -> {NoJob} \cup [num : Numbers, text : Texts]]
        /\ \A v \in Workers : pc'[v] = "save" => job'[v] # NoJob
    BY <1>1 DEF Save, TypeOK
  <2>5. harm' \subseteq Harms
    BY <1>1 DEF Save, TypeOK, Harms
  <2> QED
    BY <1>1, <2>2, <2>3, <2>4, <2>5 DEF Save, TypeOK
<1>2. ASSUME NEW w \in Workers, SaveFails(w)
      PROVE  TypeOK'
  BY <1>2 DEF SaveFails, TypeOK
<1>3. ASSUME NEW w \in Workers, NEW t \in Texts, Alloc(w, t)
      PROVE  TypeOK'
  <2>1. msgNumber' \in Numbers /\ msgNumber' \in 0 .. IntMax - 1
    BY <1>3, AllocFacts, CounterRange DEF Alloc, TypeOK
  <2>2. /\ pc' \in [Workers -> {"idle", "save"}]
        /\ job' \in [Workers -> {NoJob} \cup [num : Numbers, text : Texts]]
    BY <1>3, <2>1 DEF Alloc, TypeOK
  <2>3. [num |-> msgNumber', text |-> t] # NoJob
    BY <2>1, CounterRange DEF NoJob
  <2>4. \A v \in Workers : pc'[v] = "save" => job'[v] # NoJob
    BY <1>3, <2>3 DEF Alloc, TypeOK
  <2>5. harm' \subseteq Harms
    BY <1>3 DEF Alloc, TypeOK, Harms
  <2> QED
    BY <1>3, <2>1, <2>2, <2>4, <2>5 DEF Alloc, TypeOK
<1>4. ASSUME NEW n \in Numbers, NEW t \in Texts, Replace(n, t)
      PROVE  TypeOK'
  <2>1. file' \in Seq(Cells)
    BY <1>4, ReplacedType DEF Replace, TypeOK
  <2>2. told' \in [DOMAIN told' -> Texts] /\ DOMAIN told' \subseteq Numbers
    BY <1>4, ReportType DEF Replace
  <2>3. harm' \subseteq Harms
    BY <1>4 DEF Replace, TypeOK, Harms
  <2> QED
    BY <1>4, <2>1, <2>2, <2>3 DEF Replace, TypeOK
<1>5. CASE Restart
  <2>1. up' \in BOOLEAN
    BY <1>5 DEF Restart, Loadable
  <2>2. msgNumber' \in 0 .. IntMax - 1
    BY <1>5, LoadedType, CounterRange DEF Restart
  <2>3. harm' \subseteq Harms
    BY <1>5 DEF Restart, TypeOK, Harms
  <2>4. /\ pc' \in [Workers -> {"idle", "save"}]
        /\ job' \in [Workers -> {NoJob} \cup [num : Numbers, text : Texts]]
        /\ \A v \in Workers : pc'[v] # "save"
    BY <1>5 DEF Restart
  <2> QED
    BY <1>5, <2>1, <2>2, <2>3, <2>4 DEF Restart, TypeOK
<1>6. CASE UNCHANGED vars
  BY <1>6 DEF vars, TypeOK
<1> QED
  BY <1>1, <1>2, <1>3, <1>4, <1>5, <1>6 DEF Next

\* Every message number stays below IntMax, in the counter and in the file, and
\* every worker that saves a message has one.
THEOREM TypeCorrect == Spec => []TypeOK
BY TypeInit, TypeStep, PTL DEF Spec

-----------------------------------------------------------------------------
(* A restart finds a number *)

\* Without a newline in a message, every line begins with its number.
Starts == "split" \notin harm => up /\ Numbered(file)

LEMMA StartsInit == Init => Starts
<1> SUFFICES ASSUME Init PROVE up /\ Numbered(file)
  BY DEF Starts
<1>1. file \in Seq(Cells) /\ Numbered(file)
  BY InitialFacts DEF Init
<1> QED
  BY <1>1, LoadedFacts DEF Init

LEMMA StartsStep == TypeOK /\ Starts /\ [Next]_vars => Starts'
<1> SUFFICES ASSUME TypeOK, Starts, [Next]_vars, "split" \notin harm'
             PROVE  up' /\ Numbered(file)'
  BY DEF Starts
<1>0. file \in Seq(Cells)
  BY DEF TypeOK
<1>1. ASSUME NEW w \in Workers, Save(w)
      PROVE  up' /\ Numbered(file)'
  <2>1. job[w].num \in Numbers /\ job[w].text \in Texts
    BY <1>1, JobFacts DEF Save
  <2>2. "split" \notin harm /\ ~Splits(job[w].text)
    BY <1>1 DEF Save
  <2>3. up' /\ Numbered(file) /\ file' = Appended(file, job[w].num, job[w].text)
    BY <1>1, <2>2 DEF Save, Starts
  <2>4. Numbered(file')
    BY <1>0, <2>1, <2>2, <2>3, AppendedNumbered
  <2> QED
    BY <2>3, <2>4 DEF Numbered
<1>2. ASSUME NEW w \in Workers, SaveFails(w)
      PROVE  up' /\ Numbered(file)'
  BY <1>2 DEF SaveFails, Starts, Numbered
<1>3. ASSUME NEW w \in Workers, NEW t \in Texts, Alloc(w, t)
      PROVE  up' /\ Numbered(file)'
  BY <1>3 DEF Alloc, Starts, Numbered
<1>4. ASSUME NEW n \in Numbers, NEW t \in Texts, Replace(n, t)
      PROVE  up' /\ Numbered(file)'
  <2>1. "split" \notin harm /\ ~Splits(t)
    BY <1>4 DEF Replace
  <2>2. up' /\ Numbered(file) /\ file' = Replaced(file, n, t) /\ LinesOf(file, n) # {}
    BY <1>4, <2>1 DEF Replace, Starts
  <2>3. Numbered(file')
    BY <1>0, <2>1, <2>2, ReplacedNumbered
  <2> QED
    BY <2>2, <2>3 DEF Numbered
<1>5. CASE Restart
  <2>1. Numbered(file) /\ file' = file /\ up' = Loadable(file)
    BY <1>5 DEF Restart, Starts
  <2> QED
    BY <1>0, <2>1, LoadedFacts DEF Numbered
<1>6. CASE UNCHANGED vars
  BY <1>6 DEF vars, Starts, Numbered
<1> QED
  BY <1>1, <1>2, <1>3, <1>4, <1>5, <1>6 DEF Next

\* The server starts again on its file as long as no message holds a newline,
\* whatever was written, replaced or lost: load_msg_number() never meets a last
\* line that does not begin with a number.
THEOREM StartsAgainHolds == Spec => []StartsAgain
<1>1. Starts => StartsAgain
  BY DEF Starts, StartsAgain
<1> QED
  BY <1>1, TypeInit, TypeStep, StartsInit, StartsStep, PTL DEF Spec

-----------------------------------------------------------------------------
(* The numbers after a restart *)

\* As long as messages were saved in the order of their numbers and no line was
\* damaged, the last line has the highest number.
InOrder == harm \cap {"late", "overlong", "split"} = {} =>
  /\ Terminated(file) /\ DOMAIN told \subseteq NumbersIn(file)
  /\ \A n \in NumbersIn(file) : n <= LoadedNumber(file)

LEMMA OrderInit == Init => InOrder
<1> SUFFICES ASSUME Init PROVE InOrder
  OBVIOUS
<1>1. Terminated(file) /\ \A n \in NumbersIn(file) : n <= LoadedNumber(file)
  BY InitialFacts DEF Init
<1> QED
  BY <1>1 DEF Init, InOrder

LEMMA OrderStep == TypeOK /\ Starts /\ InOrder /\ [Next]_vars => InOrder'
<1> SUFFICES ASSUME TypeOK, Starts, InOrder, [Next]_vars,
                    harm' \cap {"late", "overlong", "split"} = {}
             PROVE  /\ Terminated(file') /\ DOMAIN told' \subseteq NumbersIn(file')
                    /\ \A n \in NumbersIn(file') : n <= LoadedNumber(file')
  BY DEF InOrder, Terminated, NumbersIn, LineStarts, LoadedNumber, LastLine, Line, LineEnd, LastStart
<1>0. file \in Seq(Cells)
  BY DEF TypeOK
<1>1. harm \subseteq harm'
  BY DEF Next, Save, SaveFails, Alloc, Replace, Restart, vars
<1>2. /\ Numbered(file) /\ Terminated(file) /\ DOMAIN told \subseteq NumbersIn(file)
      /\ \A n \in NumbersIn(file) : n <= LoadedNumber(file)
  BY <1>1 DEF Starts, InOrder
<1>3. ASSUME NEW w \in Workers, Save(w)
      PROVE  /\ Terminated(file') /\ DOMAIN told' \subseteq NumbersIn(file')
             /\ \A n \in NumbersIn(file') : n <= LoadedNumber(file')
  <2>1. PICK n \in Numbers, t \in Texts : n = job[w].num /\ t = job[w].text
    BY <1>3, JobFacts DEF Save
  <2>2. /\ file' = Appended(file, n, t) /\ Report(n, t) /\ ~Splits(t)
        /\ ~(\E m \in NumbersIn(file) : m > n)
    BY <1>3, <2>1 DEF Save
  <2>3. Terminated(file') /\ NumbersIn(file') = NumbersIn(file) \cup {n}
    BY <1>0, <1>2, <2>2, AppendedNumbers
  <2>4. LoadedNumber(file') = n
    BY <1>0, <1>2, <2>2, AppendedLoaded
  <2>5. DOMAIN told' = DOMAIN told \cup {n}
    BY <2>2, ReportType
  <2>6. \A m \in NumbersIn(file) : m \in Nat /\ n \in Nat /\ ~(m > n)
    BY <2>2, NumbersInFile, CellFacts
  <2>7. \A m \in NumbersIn(file) \cup {n} : m <= n
    BY <2>6, CellFacts
  <2>8. \A m \in NumbersIn(file') : m <= LoadedNumber(file')
    BY <2>3, <2>4, <2>7, Zenon
  <2>9. DOMAIN told' \subseteq NumbersIn(file')
    BY <1>2, <2>3, <2>5
  <2> QED
    BY <2>3, <2>8, <2>9
<1>4. ASSUME NEW n \in Numbers, NEW t \in Texts, Replace(n, t)
      PROVE  /\ Terminated(file') /\ DOMAIN told' \subseteq NumbersIn(file')
             /\ \A m \in NumbersIn(file') : m <= LoadedNumber(file')
  <2>1. /\ file' = Replaced(file, n, t) /\ Report(n, t) /\ LinesOf(file, n) # {}
        /\ ~Splits(t) /\ ~TooLong(file, n, t)
    BY <1>4 DEF Replace
  <2>2. Terminated(file') /\ NumbersIn(file') = NumbersIn(file)
    BY <1>0, <1>2, <2>1, ReplacedFits
  <2>3. LoadedNumber(file') = LoadedNumber(file)
    BY <1>0, <1>2, <2>1, ReplacedLoaded
  <2>4. DOMAIN told' = DOMAIN told \cup {n}
    BY <2>1, ReportType
  <2>5. n \in NumbersIn(file)
    BY <2>1, NumbersInFile
  <2> QED
    BY <1>2, <2>2, <2>3, <2>4, <2>5
<1>5. CASE UNCHANGED <<file, told>>
  BY <1>2, <1>5
<1>6. \/ \E w \in Workers : Save(w)
      \/ \E n \in Numbers, t \in Texts : Replace(n, t)
      \/ UNCHANGED <<file, told>>
  BY DEF Next, SaveFails, Alloc, Restart, vars
<1> QED
  BY <1>3, <1>4, <1>5, <1>6

LEMMA GrowStep == TypeOK /\ Starts /\ InOrder /\ NumbersGrow /\ [Next]_vars => NumbersGrow'
<1> SUFFICES ASSUME TypeOK, Starts, InOrder, NumbersGrow, [Next]_vars,
                    "behind" \in harm', harm' \cap {"late", "overlong", "split"} = {}
             PROVE  FALSE
  BY DEF NumbersGrow
<1>1. harm \subseteq harm'
  BY DEF Next, Save, SaveFails, Alloc, Replace, Restart, vars
<1>2. "behind" \notin harm
  BY <1>1 DEF NumbersGrow
<1>3. Restart
  BY <1>2 DEF Next, Save, SaveFails, Alloc, Replace, vars
<1>4. /\ DOMAIN told \subseteq NumbersIn(file)
      /\ \A n \in NumbersIn(file) : n <= LoadedNumber(file)
  BY <1>1 DEF InOrder
<1>5. PICK n \in DOMAIN told : up' /\ n > LoadedNumber(file)
  BY <1>2, <1>3 DEF Restart
<1>6. n \in Nat /\ LoadedNumber(file) \in Nat
  <2>1. n \in Numbers
    BY DEF TypeOK
  <2>2. Loadable(file)
    BY <1>3, <1>5 DEF Restart
  <2> QED
    BY <2>1, <2>2, LoadedType, CellFacts
<1> QED
  BY <1>4, <1>5, <1>6

\* A restart never takes up the numbers behind one that was reported, as long as
\* messages were saved in order and no line was damaged.
THEOREM NumbersGrowHolds == Spec => []NumbersGrow
<1>1. Init => NumbersGrow
  BY DEF Init, NumbersGrow
<1> QED
  BY <1>1, TypeInit, TypeStep, StartsInit, StartsStep, OrderInit, OrderStep, GrowStep, PTL
  DEF Spec

-----------------------------------------------------------------------------
(* READ finds what was reported *)

\* Until an accident, the file holds the reported messages and no others.
Found == Intact =>
  /\ Terminated(file) /\ DOMAIN told = NumbersIn(file)
  /\ \A n \in NumbersIn(file) : Unpadded(Reads(file, n)) = told[n]

\* Until then, no number in the file is ahead of the counter, and the workers that
\* are about to save have numbers of their own that are not in the file.
Fresh == Intact =>
  /\ \A n \in NumbersIn(file) : n <= msgNumber
  /\ \A w \in Workers : pc[w] = "save" =>
       /\ job[w].num <= msgNumber /\ job[w].num \notin NumbersIn(file)
       /\ \A v \in Workers \ {w} : pc[v] = "save" => job[v].num # job[w].num

LEMMA IntactBefore ==
  ASSUME [Next]_vars, Intact'
  PROVE  Intact /\ "behind" \notin harm' /\ "split" \notin harm' /\ "overlong" \notin harm'
         /\ "wrap" \notin harm'
<1>1. harm \subseteq harm'
  BY DEF Next, Save, SaveFails, Alloc, Replace, Restart, vars
<1> QED
  BY <1>1 DEF Intact

LEMMA KeptInit == Init => Found /\ Fresh
<1> SUFFICES ASSUME Init PROVE Found /\ Fresh
  OBVIOUS
<1>1. /\ file \in Seq(Cells) /\ Terminated(file) /\ Numbered(file)
      /\ \A n \in NumbersIn(file) : n <= LoadedNumber(file)
  BY InitialFacts DEF Init
<1>2. up
  BY <1>1, LoadedFacts DEF Init
<1>3. msgNumber = LoadedNumber(file)
  BY <1>2 DEF Init
<1>4. told = [n \in NumbersIn(file) |-> Unpadded(Reads(file, n))]
  BY DEF Init
<1>5. \A w \in Workers : pc[w] # "save"
  BY DEF Init
<1> QED
  BY <1>1, <1>3, <1>4, <1>5 DEF Found, Fresh

LEMMA FoundStep == TypeOK /\ Starts /\ Found /\ Fresh /\ [Next]_vars => Found'
<1> SUFFICES ASSUME TypeOK, Starts, Found, Fresh, [Next]_vars, Intact'
             PROVE  /\ Terminated(file') /\ DOMAIN told' = NumbersIn(file')
                    /\ \A n \in NumbersIn(file') : Unpadded(Reads(file', n)) = told'[n]
  BY DEF Found, Terminated, NumbersIn, LineStarts, Unpadded, Reads, LinesOf, Line, LineEnd
<1>0. file \in Seq(Cells)
  BY DEF TypeOK
<1>1. /\ Intact /\ Numbered(file) /\ Terminated(file) /\ DOMAIN told = NumbersIn(file)
      /\ \A n \in NumbersIn(file) : Unpadded(Reads(file, n)) = told[n]
  BY IntactBefore DEF Found, Starts, Intact
<1>2. ASSUME NEW w \in Workers, Save(w)
      PROVE  /\ Terminated(file') /\ DOMAIN told' = NumbersIn(file')
             /\ \A n \in NumbersIn(file') : Unpadded(Reads(file', n)) = told'[n]
  <2>1. PICK n \in Numbers, t \in Texts : n = job[w].num /\ t = job[w].text
    BY <1>2, JobFacts DEF Save
  <2>2. file' = Appended(file, n, t) /\ Report(n, t) /\ ~Splits(t)
    BY <1>2, <2>1, IntactBefore DEF Save
  <2>3. n \notin NumbersIn(file)
    BY <1>1, <1>2, <2>1 DEF Fresh, Save
  <2>4. Terminated(file') /\ NumbersIn(file') = NumbersIn(file) \cup {n}
    BY <1>0, <1>1, <2>2, AppendedNumbers
  <2>5. /\ DOMAIN told' = DOMAIN told \cup {n}
        /\ told'[n] = t /\ \A m \in DOMAIN told : m # n => told'[m] = told[m]
    BY <2>2, ReportType
  <2>6. Unpadded(Reads(file', n)) = t
    BY <1>0, <1>1, <2>2, <2>3, AppendedReads
  <2>7. \A m \in Numbers : m # n => Reads(file', m) = Reads(file, m)
    BY <1>0, <1>1, <2>2, AppendedKeeps
  <2>8. ASSUME NEW m \in NumbersIn(file)
        PROVE  Unpadded(Reads(file', m)) = told'[m]
    BY <1>1, <2>3, <2>5, <2>7, NumbersInFile
  <2> QED
    BY <1>1, <2>4, <2>5, <2>6, <2>8
<1>3. ASSUME NEW n \in Numbers, NEW t \in Texts, Replace(n, t)
      PROVE  /\ Terminated(file') /\ DOMAIN told' = NumbersIn(file')
             /\ \A m \in NumbersIn(file') : Unpadded(Reads(file', m)) = told'[m]
  <2>1. /\ file' = Replaced(file, n, t) /\ Report(n, t) /\ LinesOf(file, n) # {}
        /\ ~Splits(t) /\ ~TooLong(file, n, t)
    BY <1>3, IntactBefore DEF Replace
  <2>2. /\ Terminated(file') /\ NumbersIn(file') = NumbersIn(file)
        /\ \A m \in Numbers : m # n => Reads(file', m) = Reads(file, m)
        /\ Unpadded(Reads(file', n)) = t
    BY <1>0, <1>1, <2>1, ReplacedFits
  <2>3. /\ DOMAIN told' = DOMAIN told \cup {n}
        /\ told'[n] = t /\ \A m \in DOMAIN told : m # n => told'[m] = told[m]
    BY <2>1, ReportType
  <2>4. n \in NumbersIn(file)
    BY <2>1, NumbersInFile
  <2>5. ASSUME NEW m \in NumbersIn(file), m # n
        PROVE  Unpadded(Reads(file', m)) = told'[m]
    BY <1>1, <2>2, <2>3, <2>5, NumbersInFile
  <2> QED
    BY <1>1, <2>2, <2>3, <2>4, <2>5
<1>4. CASE UNCHANGED <<file, told>>
  BY <1>1, <1>4
<1>5. \/ \E w \in Workers : Save(w)
      \/ \E n \in Numbers, t \in Texts : Replace(n, t)
      \/ UNCHANGED <<file, told>>
  BY DEF Next, SaveFails, Alloc, Restart, vars
<1> QED
  BY <1>2, <1>3, <1>4, <1>5

LEMMA FreshStep == TypeOK /\ Starts /\ Found /\ Fresh /\ [Next]_vars => Fresh'
<1> SUFFICES ASSUME TypeOK, Starts, Found, Fresh, [Next]_vars, Intact'
             PROVE  /\ \A n \in NumbersIn(file') : n <= msgNumber'
                    /\ \A w \in Workers : pc'[w] = "save" =>
                         /\ job'[w].num <= msgNumber' /\ job'[w].num \notin NumbersIn(file')
                         /\ \A v \in Workers \ {w} : pc'[v] = "save" => job'[v].num # job'[w].num
  BY DEF Fresh, NumbersIn, LineStarts
<1> DEFINE Goal ==
      /\ \A n \in NumbersIn(file') : n <= msgNumber'
      /\ \A w \in Workers : pc'[w] = "save" =>
           /\ job'[w].num <= msgNumber' /\ job'[w].num \notin NumbersIn(file')
           /\ \A v \in Workers \ {w} : pc'[v] = "save" => job'[v].num # job'[w].num
<1>0. file \in Seq(Cells) /\ msgNumber \in 0 .. IntMax - 1 /\ msgNumber \in Nat
  BY CounterRange, CellFacts DEF TypeOK
<1>1. /\ Intact /\ Numbered(file) /\ Terminated(file) /\ DOMAIN told = NumbersIn(file)
      /\ \A n \in NumbersIn(file) : n <= msgNumber
      /\ \A w \in Workers : pc[w] = "save" =>
           /\ job[w].num <= msgNumber /\ job[w].num \notin NumbersIn(file)
           /\ \A v \in Workers \ {w} : pc[v] = "save" => job[v].num # job[w].num
  BY IntactBefore DEF Found, Fresh, Starts, Intact
<1>2. ASSUME NEW w \in Workers, Save(w)
      PROVE  Goal
  <2>1. PICK n \in Numbers, t \in Texts : n = job[w].num /\ t = job[w].text
    BY <1>2, JobFacts DEF Save
  <2>2. file' = Appended(file, n, t) /\ msgNumber' = msgNumber /\ pc[w] = "save"
    BY <1>2, <2>1 DEF Save
  <2>8. ~Splits(t)
    BY <1>2, <2>1, IntactBefore DEF Save
  <2>3. NumbersIn(file') = NumbersIn(file) \cup {n}
    BY <1>0, <1>1, <2>2, <2>8, AppendedNumbers
  <2>4. n <= msgNumber /\ \A v \in Workers \ {w} : pc[v] = "save" => job[v].num # n
    BY <1>1, <2>1, <2>2
  <2>5. pc'[w] # "save" /\ \A v \in Workers \ {w} : pc'[v] = pc[v] /\ job'[v] = job[v]
    BY <1>2 DEF Save, TypeOK
  <2>6. \A m \in NumbersIn(file') : m <= msgNumber'
    BY <1>1, <2>2, <2>3, <2>4
  <2>7. ASSUME NEW u \in Workers, pc'[u] = "save"
        PROVE  /\ job'[u].num <= msgNumber' /\ job'[u].num \notin NumbersIn(file')
               /\ \A v \in Workers \ {u} : pc'[v] = "save" => job'[v].num # job'[u].num
    <3>1. u # w /\ pc[u] = "save" /\ job'[u] = job[u]
      BY <2>5, <2>7
    <3>2. job[u].num <= msgNumber /\ job[u].num \notin NumbersIn(file) /\ job[u].num # n
      BY <1>1, <2>4, <3>1
    <3>3. \A v \in Workers \ {u} : pc'[v] = "save" => job'[v].num # job'[u].num
      BY <1>1, <2>5, <3>1
    <3> QED
      BY <2>2, <2>3, <3>1, <3>2, <3>3
  <2> QED
    BY <2>6, <2>7
<1>3. ASSUME NEW w \in Workers, SaveFails(w)
      PROVE  Goal
  <2>1. file' = file /\ msgNumber' = msgNumber
    BY <1>3 DEF SaveFails
  <2>2. pc'[w] # "save" /\ \A v \in Workers \ {w} : pc'[v] = pc[v] /\ job'[v] = job[v]
    BY <1>3 DEF SaveFails, TypeOK
  <2> QED
    BY <1>1, <2>1, <2>2
<1>4. ASSUME NEW w \in Workers, NEW t \in Texts, Alloc(w, t)
      PROVE  Goal
  <2>1. msgNumber' = AllocNumber(msgNumber) /\ ~(msgNumber' <= msgNumber)
    BY <1>4, IntactBefore DEF Alloc
  <2>2. msgNumber' \in Nat /\ msgNumber' > msgNumber
    <3>1. msgNumber' \in Numbers
      BY <1>0, <2>1, AllocFacts
    <3>2. msgNumber' \in Nat /\ ~(msgNumber' <= msgNumber)
      BY <2>1, <3>1, CellFacts
    <3> QED
      BY <1>0, <3>2
  <2>3. /\ pc'[w] = "save" /\ job'[w].num = msgNumber' /\ file' = file
        /\ \A v \in Workers \ {w} : pc'[v] = pc[v] /\ job'[v] = job[v]
    BY <1>4 DEF Alloc, TypeOK
  <2>4. ASSUME NEW m \in NumbersIn(file)
        PROVE  m \in Nat /\ m < msgNumber'
    <3>1. m \in Nat /\ m <= msgNumber
      BY <1>1, NumbersInFile, CellFacts
    <3> QED
      BY <1>0, <2>2, <3>1
  <2>5. ASSUME NEW v \in Workers, pc[v] = "save"
        PROVE  job[v].num \in Nat /\ job[v].num < msgNumber'
    <3>1. PICK m \in Nat : m = job[v].num
      BY <2>5, JobFacts, CellFacts
    <3>2. m <= msgNumber
      BY <1>1, <2>5, <3>1
    <3>3. m < msgNumber'
      BY <1>0, <2>2, <3>2
    <3> QED
      BY <3>1, <3>3
  <2>6. ASSUME NEW u \in Workers, pc'[u] = "save"
        PROVE  /\ job'[u].num <= msgNumber' /\ job'[u].num \notin NumbersIn(file')
               /\ \A v \in Workers \ {u} : pc'[v] = "save" => job'[v].num # job'[u].num
    <3>1. CASE u = w
      BY <2>2, <2>3, <2>4, <2>5, <3>1
    <3>2. CASE u # w
      BY <1>1, <2>2, <2>3, <2>5, <2>6, <3>2
    <3> QED
      BY <3>1, <3>2
  <2>7. \A m \in NumbersIn(file') : m <= msgNumber'
    BY <2>2, <2>3, <2>4
  <2> QED
    BY <2>6, <2>7
<1>5. ASSUME NEW n \in Numbers, NEW t \in Texts, Replace(n, t)
      PROVE  Goal
  <2>1. /\ file' = Replaced(file, n, t) /\ LinesOf(file, n) # {}
        /\ ~Splits(t) /\ ~TooLong(file, n, t) /\ UNCHANGED <<msgNumber, pc, job>>
    BY <1>5, IntactBefore DEF Replace
  <2>2. NumbersIn(file') = NumbersIn(file)
    BY <1>0, <1>1, <2>1, ReplacedFits
  <2> QED
    BY <1>1, <2>1, <2>2
<1>6. CASE Restart
  <2>1. file' = file /\ up' /\ \A w \in Workers : pc'[w] # "save"
    BY <1>0, <1>1, <1>6, LoadedFacts DEF Restart
  <2>2. \A n \in DOMAIN told : ~(n > msgNumber')
    BY <1>6, <2>1, IntactBefore DEF Restart
  <2>3. msgNumber' \in Nat /\ \A n \in DOMAIN told : n \in Nat
    BY TypeStep, CounterRange, CellFacts DEF TypeOK
  <2> QED
    BY <1>1, <2>1, <2>2, <2>3
<1>7. CASE UNCHANGED vars
  BY <1>1, <1>7 DEF vars
<1> QED
  BY <1>2, <1>3, <1>4, <1>5, <1>6, <1>7 DEF Next

\* Until an accident, READ returns what was reported last, whatever restarts,
\* failed saves and commands of other users lie in between.
THEOREM AnswersTrueHolds == Spec => []AnswersTrue
<1>1. Found => AnswersTrue
  BY DEF Found, AnswersTrue
<1> QED
  BY <1>1, TypeInit, TypeStep, StartsInit, StartsStep, KeptInit, FoundStep, FreshStep, PTL
  DEF Spec

-----------------------------------------------------------------------------
(* Other messages, and the bulletin board *)

\* A REPLACE without a newline creates no message and changes another one only by
\* being written over the beginning of its line, which only one that is too long is;
\* a WRITE behind a complete line changes none, and creates another one only with a
\* newline; whatever happened to the file before.
THEOREM OthersKeptHolds == Spec => OthersKept
<1> DEFINE Step ==
      /\ \A n \in Numbers, t \in Texts : Replace(n, t) /\ ~Splits(t) =>
           \A m \in Numbers \ {n} :
             \/ Reads(file', m) = Reads(file, m)
             \/ /\ TooLong(file, n, t) /\ LinesOf(file, m) # {}
                /\ Min(LinesOf(file, m)) \in Covered(file, n, t)
      /\ \A w \in Workers : Save(w) /\ Terminated(file) =>
           \A m \in Numbers \ {job[w].num} :
             \/ Reads(file', m) = Reads(file, m)
             \/ LinesOf(file, m) = {} /\ Splits(job[w].text)
<1>1. TypeOK => Step
  <2> SUFFICES ASSUME TypeOK PROVE Step
    OBVIOUS
  <2>0. file \in Seq(Cells)
    BY DEF TypeOK
  <2>1. ASSUME NEW n \in Numbers, NEW t \in Texts, Replace(n, t), ~Splits(t),
               NEW m \in Numbers \ {n}
        PROVE  \/ Reads(file', m) = Reads(file, m)
               \/ /\ TooLong(file, n, t) /\ LinesOf(file, m) # {}
                  /\ Min(LinesOf(file, m)) \in Covered(file, n, t)
    <3>1. file' = Replaced(file, n, t) /\ LinesOf(file, n) # {} /\ m \in Numbers /\ m # n
      BY <2>1 DEF Replace
    <3> QED
      BY <2>0, <2>1, <3>1, ReplacedOthers
  <2>2. ASSUME NEW w \in Workers, Save(w), Terminated(file), NEW m \in Numbers \ {job[w].num}
        PROVE  \/ Reads(file', m) = Reads(file, m)
               \/ LinesOf(file, m) = {} /\ Splits(job[w].text)
    <3>1. PICK n \in Numbers, t \in Texts : n = job[w].num /\ t = job[w].text
      BY <2>2, JobFacts DEF Save
    <3>2. file' = Appended(file, n, t) /\ m # n /\ m \in Numbers
      BY <2>2, <3>1 DEF Save
    <3> QED
      BY <2>0, <2>2, <3>1, <3>2, AppendedKeeps
  <2> QED
    BY <2>1, <2>2
<1>2. OthersKept <=> [][Step]_vars
  BY DEF OthersKept
<1> QED
  BY <1>1, <1>2, TypeCorrect, PTL

LEMMA BoardIs == TypeOK /\ Found /\ Intact => BoardOf(file) = told
BY DEF TypeOK, Found, BoardOf

LEMMA BoardIsNext == TypeOK' /\ Found' /\ Intact' => BoardOf(file)' = told'
BY DEF TypeOK, Found, BoardOf, NumbersIn, LineStarts, Unpadded, Reads, LinesOf, Line, LineEnd

LEMMA BoardStep ==
  TypeOK /\ TypeOK' /\ Starts /\ Found /\ Found' /\ Fresh /\ [Next]_vars
    => [Board!Next]_(Board!boardVars)
<1> SUFFICES ASSUME TypeOK, TypeOK', Starts, Found, Found', Fresh, [Next]_vars, Intact'
             PROVE  \/ \E n \in Numbers, t \in Texts : Board!Post(n, t) \/ Board!Edit(n, t)
                    \/ UNCHANGED <<BoardOf(file), Intact>>
  BY DEF Board!Next, Board!Spoil, Board!boardVars
<1>1. Intact
  BY IntactBefore
<1>2. BoardOf(file) = told
  BY <1>1, BoardIs
<1>3. BoardOf(file)' = told'
  BY BoardIsNext
<1>4. Intact' = Intact
  BY <1>1 DEF Intact
<1>5. ASSUME NEW w \in Workers, Save(w)
      PROVE  \E n \in Numbers, t \in Texts : Board!Post(n, t)
  <2>1. PICK n \in Numbers, t \in Texts : n = job[w].num /\ t = job[w].text
    BY <1>5, JobFacts DEF Save
  <2>2. Report(n, t) /\ n \notin NumbersIn(file) /\ NumbersIn(file) = DOMAIN told
    BY <1>1, <1>5, <2>1 DEF Save, Fresh, Found
  <2>3. Board!Post(n, t)
    BY <1>1, <1>2, <1>3, <1>4, <2>2 DEF Board!Post, Report
  <2> QED
    BY <2>3
<1>6. ASSUME NEW n \in Numbers, NEW t \in Texts, Replace(n, t)
      PROVE  Board!Edit(n, t)
  <2>1. Report(n, t) /\ n \in DOMAIN told
    BY <1>1, <1>6, NumbersInFile DEF Replace, Found
  <2>2. told' = [told EXCEPT ![n] = t]
    <3>1. told \in [DOMAIN told -> Texts]
      BY DEF TypeOK
    <3>2. DOMAIN told \cup {n} = DOMAIN told
      BY <2>1
    <3>3. told' = [m \in DOMAIN told |-> IF m = n THEN t ELSE told[m]]
      BY <2>1, <3>2 DEF Report
    <3> QED
      BY <3>1, <3>3
  <2> QED
    BY <1>1, <1>2, <1>3, <1>4, <2>1, <2>2 DEF Board!Edit
<1>7. CASE UNCHANGED <<file, told>>
  BY <1>2, <1>3, <1>4, <1>7
<1>8. \/ \E w \in Workers : Save(w)
      \/ \E n \in Numbers, t \in Texts : Replace(n, t)
      \/ UNCHANGED <<file, told>>
  BY DEF Next, SaveFails, Alloc, Restart, vars
<1> QED
  BY <1>5, <1>6, <1>7, <1>8

LEMMA BoardInit == Init => Board!Init
<1> SUFFICES ASSUME Init PROVE Board!Init
  OBVIOUS
<1>1. Intact = TRUE
  BY DEF Init, Intact
<1> QED
  BY <1>1 DEF Init, Board!Init

\* Until an accident the file implements the bulletin board: a WRITE adds a message
\* under a number that is not in use, a REPLACE changes its own message only, and
\* a restart loses none.
THEOREM BoardImplemented == Spec => Implements
BY TypeInit, TypeStep, StartsInit, StartsStep, KeptInit, FoundStep, FreshStep,
   BoardInit, BoardStep, PTL DEF Spec, Implements, Board!Spec
=============================================================================
