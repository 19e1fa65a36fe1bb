---------------------------- MODULE BootupProofs ----------------------------
(***************************************************************************)
(* Which settings a start ends up with, and what sys_bootup() promises to  *)
(* the threads it starts, for any command lines, configuration files and   *)
(* number of peers.                                                        *)
(***************************************************************************)
EXTENDS Bootup, FiniteSetTheorems, SequenceTheorems, WellFoundedInduction, TLAPS

-----------------------------------------------------------------------------
(* The getopt() loop: induction over its turns, by the first that goes wrong *)

LEMMA FirstOf ==
  ASSUME NEW T \in SUBSET Nat, T # {}
  PROVE  \E x \in T : \A y \in T : x <= y
<1>1. PICK R : R = {ss \in Nat \X Nat : ss[1] < ss[2]}
  OBVIOUS
<1>2. IsWellFoundedOn(R, Nat)
  BY <1>1, NatLessThanWellFounded, Zenon DEF OpToRel
<1>3. PICK x \in T : \A y \in T : ~(<<y, x>> \in R)
  BY <1>2, WFMin, Zenon
<1>4. \A y \in T : x \in Nat /\ y \in Nat /\ ~(y < x)
  BY <1>1, <1>3
<1> QED
  BY <1>4

LEMMA LastOf ==
  ASSUME NEW n \in Nat, NEW T \in SUBSET (1 .. n), T # {}
  PROVE  \E x \in T : \A y \in T : y <= x
<1> DEFINE U == {k \in Nat : \E x \in T : k = n - x}
<1>1. \A x \in T : x \in Nat /\ n - x \in U
  OBVIOUS
<1>2. U \in SUBSET Nat /\ U # {}
  BY <1>1
<1>3. PICK k \in U : \A y \in U : k <= y
  <2> HIDE DEF U
  <2> QED
    BY <1>2, FirstOf
<1>4. PICK x \in T : k = n - x
  OBVIOUS
<1>5. \A y \in T : k <= n - y
  BY <1>1, <1>3
<1> QED
  BY <1>1, <1>4, <1>5

\* The recursion over the options defines something for every command line.
LEMMA TurnsDefined ==
  ASSUME NEW opts \in Seq(Options)
  PROVE  Turns(opts) = [n \in 0 .. Len(opts) |->
           IF n = 0 THEN NoOptions ELSE Parse(Turns(opts)[n - 1], opts[n])]
<1> DEFINE Good(m, g) == g = [n \in 0 .. m |->
             IF n = 0 THEN NoOptions ELSE Parse(g[n - 1], opts[n])]
           Bad == {m \in Nat : ~\E g : Good(m, g)}
<1>1. ASSUME Bad # {} PROVE FALSE
  <2>1. Bad \in SUBSET Nat
    OBVIOUS
  <2>2. PICK m \in Bad : \A k \in Bad : m <= k
    <3> HIDE DEF Bad
    <3> QED
      BY <1>1, <2>1, FirstOf
  <2>3. m # 0
    <3>1. Good(0, [n \in 0 .. 0 |-> NoOptions])
      OBVIOUS
    <3> HIDE DEF Good
    <3> QED
      BY <2>2, <3>1
  <2>4. m - 1 \in Nat /\ m - 1 \notin Bad
    <3>1. m \in Nat
      OBVIOUS
    <3> HIDE DEF Bad
    <3> QED
      BY <2>2, <2>3, <3>1
  <2>5. PICK g : Good(m - 1, g)
    <3> HIDE DEF Good
    <3> QED
      BY <2>4
  <2> DEFINE h == [n \in 0 .. m |-> IF n = m THEN Parse(g[m - 1], opts[m]) ELSE g[n]]
  <2>6. Good(m, h)
    <3>1. \A n \in 0 .. m :
            h[n] = IF n = 0 THEN NoOptions ELSE Parse(h[n - 1], opts[n])
      <4>1. ASSUME NEW n \in 0 .. m, n # m, n # 0 PROVE h[n] = Parse(h[n - 1], opts[n])
        BY <2>4, <2>5, <4>1
      <4>2. h[m] = Parse(h[m - 1], opts[m])
        BY <2>3, <2>4
      <4>3. h[0] = NoOptions
        BY <2>3, <2>4, <2>5
      <4> QED
        BY <4>1, <4>2, <4>3
    <3>2. h = [n \in 0 .. m |-> h[n]]
      OBVIOUS
    <3> HIDE DEF h
    <3> QED
      BY <3>1, <3>2
  <2> HIDE DEF Good, h
  <2> QED
    BY <2>2, <2>6
<1>2. PICK g : Good(Len(opts), g)
  <2>1. Len(opts) \in Nat /\ Len(opts) \notin Bad
    BY <1>1, LenProperties
  <2> HIDE DEF Good
  <2> QED
    BY <2>1
<1>3. Good(Len(opts), Turns(opts))
  BY <1>2 DEF Turns
<1> QED
  BY <1>3

-----------------------------------------------------------------------------
(* What the options leave *)

\* What load_option() knows of the options: bounds, and a file for -c.
Known == [flags : SUBSET Letters, bbFile : Texts, thMax : 0 .. MaxThreads,
          bbPort : 0 .. MaxPort, syncPort : 0 .. MaxPort, debugLevel : 0 .. MaxLevel,
          cfgFile : Texts]

\* The settings that one option sets are its own, or those of before.
Sets(p, x, q) ==
  /\ q.flags = p.flags \cup {x.opt}
  /\ q.bbFile = IF x.opt = "b" THEN x.text ELSE p.bbFile
  /\ q.cfgFile = IF x.opt = "c" THEN x.text ELSE p.cfgFile
  /\ x.opt = "t" /\ Valid(x.num, MaxThreads) => q.thMax = x.num
  /\ x.opt # "t" => q.thMax = p.thMax
  /\ x.opt = "p" /\ Valid(x.num, MaxPort) => q.bbPort = x.num
  /\ x.opt # "p" => q.bbPort = p.bbPort
  /\ x.opt = "s" /\ Valid(x.num, MaxPort) => q.syncPort = x.num
  /\ x.opt # "s" => q.syncPort = p.syncPort
  /\ x.opt = "D" /\ x.num \in 0 .. MaxLevel => q.debugLevel = x.num
  /\ x.opt \notin {"d", "D"} => q.debugLevel = p.debugLevel

\* No later one of the first n options is the same as the i-th.
LastUpTo(opts, i, n) == \A j \in (i + 1) .. n : opts[j].opt # opts[i].opt

\* After n options each setting is that of the last option for it.
Wins(opts, n, p) ==
  /\ p \in Known
  /\ p.flags = {opts[i].opt : i \in 1 .. n}
  /\ "c" \in p.flags => p.cfgFile \in Names
  /\ \A i \in 1 .. n : LastUpTo(opts, i, n) =>
       /\ opts[i].opt = "b" => p.bbFile = opts[i].text
       /\ opts[i].opt = "c" => p.cfgFile = opts[i].text
       /\ opts[i].opt = "t" /\ Valid(opts[i].num, MaxThreads) => p.thMax = opts[i].num
       /\ opts[i].opt = "p" /\ Valid(opts[i].num, MaxPort) => p.bbPort = opts[i].num
       /\ opts[i].opt = "s" /\ Valid(opts[i].num, MaxPort) => p.syncPort = opts[i].num
       /\ opts[i].opt = "D" /\ opts[i].num \in 0 .. MaxLevel /\ "d" \notin p.flags
            => p.debugLevel = opts[i].num

LEMMA NoText == "" \in Texts /\ \A name \in Names : name \in Texts
BY BootupConstantsOK, Zenon

LEMMA NothingKnown ==
  \A e \in Texts : [flags |-> {}, bbFile |-> e, thMax |-> 0, bbPort |-> 0, syncPort |-> 0,
                    debugLevel |-> 0, cfgFile |-> e] \in Known
BY DEF Known, MaxThreads, MaxPort, MaxLevel

LEMMA RangeKept ==
  ASSUME NEW n \in Int, NEW limit \in Nat, NEW old \in 0 .. limit
  PROVE  /\ InRange(n, limit, old) \in 0 .. limit
         /\ Valid(n, limit) => InRange(n, limit, old) = n
BY DEF InRange, Valid

LEMMA ParseSets ==
  ASSUME NEW p \in Known, NEW x \in Options
  PROVE  Parse(p, x) \in Known /\ Sets(p, x, Parse(p, x))
<1> DEFINE q == [p EXCEPT !.flags = @ \cup {x.opt}]
<1>1. /\ x.opt \in Letters /\ x.num \in Int /\ x.text \in Texts
      /\ MaxThreads \in Nat /\ MaxPort \in Nat
  BY DEF Options, MaxThreads, MaxPort
<1>2. q \in Known /\ q.flags = p.flags \cup {x.opt} /\ q.bbFile = p.bbFile
      /\ q.cfgFile = p.cfgFile /\ q.thMax = p.thMax /\ q.syncPort = p.syncPort
      /\ q.bbPort = p.bbPort /\ q.debugLevel = p.debugLevel
  BY <1>1 DEF Known
<1> HIDE DEF q
<1>3. CASE x.opt = "b"
  <2>1. Parse(p, x) = [q EXCEPT !.bbFile = x.text]
    BY <1>3 DEF Parse, q
  <2> QED
    BY <1>1, <1>2, <1>3, <2>1 DEF Known, Sets
<1>4. CASE x.opt = "t"
  <2>1. Parse(p, x) = [q EXCEPT !.thMax = InRange(x.num, MaxThreads, q.thMax)]
    BY <1>4 DEF Parse, q
  <2>2. /\ InRange(x.num, MaxThreads, q.thMax) \in 0 .. MaxThreads
        /\ Valid(x.num, MaxThreads) => InRange(x.num, MaxThreads, q.thMax) = x.num
    BY <1>1, <1>2, RangeKept DEF Known
  <2> QED
    BY <1>2, <1>4, <2>1, <2>2 DEF Known, Sets
<1>5. CASE x.opt = "p"
  <2>1. Parse(p, x) = [q EXCEPT !.bbPort = InRange(x.num, MaxPort, q.bbPort)]
    BY <1>5 DEF Parse, q
  <2>2. /\ InRange(x.num, MaxPort, q.bbPort) \in 0 .. MaxPort
        /\ Valid(x.num, MaxPort) => InRange(x.num, MaxPort, q.bbPort) = x.num
    BY <1>1, <1>2, RangeKept DEF Known
  <2> QED
    BY <1>2, <1>5, <2>1, <2>2 DEF Known, Sets
<1>6. CASE x.opt = "s"
  <2>1. Parse(p, x) = [q EXCEPT !.syncPort = InRange(x.num, MaxPort, q.syncPort)]
    BY <1>6 DEF Parse, q
  <2>2. /\ InRange(x.num, MaxPort, q.syncPort) \in 0 .. MaxPort
        /\ Valid(x.num, MaxPort) => InRange(x.num, MaxPort, q.syncPort) = x.num
    BY <1>1, <1>2, RangeKept DEF Known
  <2> QED
    BY <1>2, <1>6, <2>1, <2>2 DEF Known, Sets
<1>7. CASE x.opt = "d"
  <2>1. Parse(p, x) = [q EXCEPT !.debugLevel = 1]
    BY <1>7 DEF Parse, q
  <2> QED
    BY <1>2, <1>7, <2>1 DEF Known, Sets, MaxLevel
<1>8. CASE x.opt = "D"
  <2>1. Parse(p, x) = [q EXCEPT !.debugLevel =
                         IF x.num \in 0 .. MaxLevel THEN x.num ELSE q.debugLevel]
    BY <1>8 DEF Parse, q
  <2> QED
    BY <1>2, <1>8, <2>1 DEF Known, Sets
<1>9. CASE x.opt = "c"
  <2>1. Parse(p, x) = [q EXCEPT !.cfgFile = x.text]
    BY <1>9 DEF Parse, q
  <2> QED
    BY <1>1, <1>2, <1>9, <2>1 DEF Known, Sets
<1>10. CASE x.opt \notin {"b", "t", "p", "s", "d", "D", "c"}
  <2>1. Parse(p, x) = q
    BY <1>10 DEF Parse, q
  <2> QED
    BY <1>2, <1>10, <2>1 DEF Sets
<1> QED
  BY <1>3, <1>4, <1>5, <1>6, <1>7, <1>8, <1>9, <1>10

\* One turn: what was last before is last still, unless the new option is the same.
LEMMA TurnWins ==
  ASSUME NEW opts \in Seq(Options), NEW n \in 1 .. Len(opts), NEW p, Wins(opts, n - 1, p)
  PROVE  Wins(opts, n, Parse(p, opts[n]))
<1> DEFINE q == Parse(p, opts[n])
<1>1. /\ Len(opts) \in Nat /\ n \in Nat /\ n - 1 \in Nat /\ opts[n] \in Options /\ p \in Known
      /\ \A i \in 1 .. n : i \in Nat
  BY LenProperties, ElementOfSeq DEF Wins
<1>2. q \in Known /\ Sets(p, opts[n], q)
  BY <1>1, ParseSets
<1> HIDE DEF q
<1>3. q.flags = {opts[i].opt : i \in 1 .. n}
  <2>1. 1 .. n = (1 .. (n - 1)) \cup {n}
    BY <1>1
  <2>2. p.flags = {opts[i].opt : i \in 1 .. (n - 1)}
    BY DEF Wins
  <2> QED
    BY <1>2, <2>1, <2>2 DEF Sets
<1>4. "c" \in q.flags => q.cfgFile \in Names
  BY <1>1, <1>2 DEF Wins, Sets, Options
<1>5. ASSUME NEW i \in 1 .. n, LastUpTo(opts, i, n)
      PROVE  /\ opts[i].opt = "b" => q.bbFile = opts[i].text
             /\ opts[i].opt = "c" => q.cfgFile = opts[i].text
             /\ opts[i].opt = "t" /\ Valid(opts[i].num, MaxThreads) => q.thMax = opts[i].num
             /\ opts[i].opt = "p" /\ Valid(opts[i].num, MaxPort) => q.bbPort = opts[i].num
             /\ opts[i].opt = "s" /\ Valid(opts[i].num, MaxPort) => q.syncPort = opts[i].num
             /\ opts[i].opt = "D" /\ opts[i].num \in 0 .. MaxLevel /\ "d" \notin q.flags
                  => q.debugLevel = opts[i].num
  <2>1. CASE i = n
    BY <1>2, <2>1 DEF Sets
  <2>2. CASE i # n
    <3>1. i \in 1 .. (n - 1) /\ n \in (i + 1) .. n
      BY <1>1, <2>2
    <3>2. opts[n].opt # opts[i].opt
      BY <1>5, <3>1 DEF LastUpTo
    <3>3. LastUpTo(opts, i, n - 1)
      BY <1>1, <1>5 DEF LastUpTo
    <3> QED
      BY <1>2, <3>1, <3>2, <3>3 DEF Sets, Wins
  <2> QED
    BY <2>1, <2>2
<1> QED
  BY <1>2, <1>3, <1>4, <1>5 DEF Wins, q

\* After the loop each setting is that of the last option for it.
LEMMA ParsedWins ==
  ASSUME NEW opts \in Seq(Options)
  PROVE  Wins(opts, Len(opts), Parsed(opts))
<1> DEFINE T == {n \in 0 .. Len(opts) : ~Wins(opts, n, Turns(opts)[n])}
<1>1. Len(opts) \in Nat
  BY LenProperties
<1>2. ASSUME T # {} PROVE FALSE
  <2>1. T \in SUBSET Nat
    BY <1>1
  <2>2. PICK n \in T : \A k \in T : n <= k
    <3> HIDE DEF T
    <3> QED
      BY <1>2, <2>1, FirstOf
  <2>3. CASE n = 0
    <3>1. Turns(opts)[0] = NoOptions
      BY <1>1, TurnsDefined
    <3>2. Wins(opts, 0, NoOptions)
      <4>1. NoOptions \in Known
        BY NoText, NothingKnown, Zenon DEF NoOptions
      <4>2. NoOptions.flags = {}
        BY DEF NoOptions
      <4>3. 1 .. 0 = {}
        OBVIOUS
      <4> QED
        BY <4>1, <4>2, <4>3 DEF Wins
    <3> QED
      BY <2>2, <2>3, <3>1, <3>2
  <2>4. CASE n # 0
    <3>1. n \in 1 .. Len(opts) /\ n - 1 \in 0 .. Len(opts) /\ ~(n <= n - 1)
      BY <1>1, <2>4
    <3>2. Wins(opts, n - 1, Turns(opts)[n - 1])
      BY <2>2, <3>1
    <3>3. Turns(opts)[n] = Parse(Turns(opts)[n - 1], opts[n])
      BY <2>4, <3>1, TurnsDefined
    <3> QED
      BY <2>2, <3>1, <3>2, <3>3, TurnWins
  <2> QED
    BY <2>3, <2>4
<1> QED
  BY <1>1, <1>2 DEF Parsed

-----------------------------------------------------------------------------
(* The settings of a start *)

LEMMA PortsCounted == ASSUME NEW words, NEW n \in Nat PROVE Ports(words, n) \in Nat
<1> DEFINE T == {i \in 1 .. n : HasPort(words[i])}
<1>1. IsFiniteSet(1 .. n)
  BY FS_Interval
<1>2. IsFiniteSet(T)
  BY <1>1, FS_Subset
<1> QED
  BY <1>2, FS_CardinalityType DEF Ports

\* The last occurrence of an option that is given.
LEMMA LastFound ==
  ASSUME NEW opts \in Seq(Options), NEW opt, Has(opts, opt)
  PROVE  \E i \in 1 .. Len(opts) :
           opts[i].opt = opt /\ LastUpTo(opts, i, Len(opts)) /\ Last(opts, opt) = opts[i]
<1> DEFINE S == {i \in DOMAIN opts : opts[i].opt = opt}
<1>1. Len(opts) \in Nat /\ DOMAIN opts = 1 .. Len(opts)
  BY LenProperties
<1>2. S \in SUBSET (1 .. Len(opts)) /\ S # {}
  BY <1>1 DEF Has
<1>3. PICK i \in S : \A j \in S : j <= i
  <2> HIDE DEF S
  <2> QED
    BY <1>1, <1>2, LastOf
<1>4. \A k \in S : (\A j \in S : j <= k) => k = i
  BY <1>1, <1>3
<1>5. (CHOOSE k \in S : \A j \in S : j <= k) = i
  <2> HIDE DEF S
  <2> QED
    BY <1>3, <1>4
<1>6. Last(opts, opt) = opts[i]
  BY <1>5 DEF Last
<1>7. LastUpTo(opts, i, Len(opts))
  BY <1>1, <1>3 DEF LastUpTo
<1> QED
  BY <1>1, <1>3, <1>6, <1>7

\* What the loop leaves, in the words of OptionsWin.
LEMMA GivenWins ==
  ASSUME NEW opts \in Seq(Options), NEW p, p = Parsed(opts)
  PROVE  /\ p \in Known
         /\ \A opt : opt \in p.flags <=> Has(opts, opt)
         /\ Has(opts, "b") => p.bbFile = Last(opts, "b").text
         /\ Has(opts, "c") => p.cfgFile = Last(opts, "c").text /\ p.cfgFile \in Names
         /\ Has(opts, "t") /\ Valid(Last(opts, "t").num, MaxThreads)
              => p.thMax = Last(opts, "t").num
         /\ Has(opts, "p") /\ Valid(Last(opts, "p").num, MaxPort)
              => p.bbPort = Last(opts, "p").num
         /\ Has(opts, "s") /\ Valid(Last(opts, "s").num, MaxPort)
              => p.syncPort = Last(opts, "s").num
         /\ Has(opts, "D") /\ ~Has(opts, "d") /\ Last(opts, "D").num \in 0 .. MaxLevel
              => p.debugLevel = Last(opts, "D").num
<1>1. Wins(opts, Len(opts), p)
  BY ParsedWins
<1>2. Len(opts) \in Nat /\ DOMAIN opts = 1 .. Len(opts)
  BY LenProperties
<1>3. \A opt : opt \in p.flags <=> Has(opts, opt)
  BY <1>1, <1>2 DEF Wins, Has
<1>4. ASSUME NEW opt, Has(opts, opt)
      PROVE  /\ opt = "b" => p.bbFile = Last(opts, opt).text
             /\ opt = "c" => p.cfgFile = Last(opts, opt).text
             /\ opt = "t" /\ Valid(Last(opts, opt).num, MaxThreads)
                  => p.thMax = Last(opts, opt).num
             /\ opt = "p" /\ Valid(Last(opts, opt).num, MaxPort)
                  => p.bbPort = Last(opts, opt).num
             /\ opt = "s" /\ Valid(Last(opts, opt).num, MaxPort)
                  => p.syncPort = Last(opts, opt).num
             /\ opt = "D" /\ ~Has(opts, "d") /\ Last(opts, opt).num \in 0 .. MaxLevel
                  => p.debugLevel = Last(opts, opt).num
  BY <1>1, <1>3, <1>4, LastFound DEF Wins
<1> QED
  BY <1>1, <1>3, <1>4 DEF Wins

\* The file that load_option() loads.
FileOf(p) == IF "c" \in p.flags THEN p.cfgFile ELSE Default

LEMMA FileKnown ==
  ASSUME NEW opts \in Seq(Options)
  PROVE  FileOf(Parsed(opts)) \in Names
BY GivenWins DEF FileOf, Names

LEMMA LoadWins ==
  ASSUME NEW line, line.opts \in Seq(Options), line.peers \in Seq(Words), Load(line)
  PROVE  OptionsWin'
<1> DEFINE opts == line.opts
           p == Parsed(opts)
           f == disk[FileOf(p)]
           c == LoadConfig(FileOf(p))
           on == f.debug \in {"true", "1"}
           off == f.daemon \in {"false", "0"}
<1>1. cfg' = Overwritten(c, p, line.peers) /\ started' = [line |-> line, disk |-> disk]
  BY DEF Load, LoadOption, FileOf
<1>2. started'.line.opts = opts /\ started'.disk = disk
  BY <1>1
<1>3. /\ \A opt : opt \in p.flags <=> Has(opts, opt)
      /\ Has(opts, "b") => p.bbFile = Last(opts, "b").text
      /\ Has(opts, "c") => p.cfgFile = Last(opts, "c").text
      /\ Has(opts, "t") /\ Valid(Last(opts, "t").num, MaxThreads)
           => p.thMax = Last(opts, "t").num
      /\ Has(opts, "p") /\ Valid(Last(opts, "p").num, MaxPort)
           => p.bbPort = Last(opts, "p").num
      /\ Has(opts, "s") /\ Valid(Last(opts, "s").num, MaxPort)
           => p.syncPort = Last(opts, "s").num
      /\ Has(opts, "D") /\ ~Has(opts, "d") /\ Last(opts, "D").num \in 0 .. MaxLevel
           => p.debugLevel = Last(opts, "D").num
  <2> HIDE DEF p
  <2> QED
    BY GivenWins DEF p
<1>4. (\A opt : Given(opt)' <=> Has(opts, opt)) /\ (\A opt : LastGiven(opt)' = Last(opts, opt))
  BY <1>2 DEF Given, LastGiven
<1>5. File' = f
  <2> HIDE DEF p, opts
  <2> QED
    BY <1>2, <1>3, <1>4 DEF File, FileOf
<1>6. /\ c.thMax = InRange(f.thMax, MaxThreads, 20)
      /\ c.bbPort = InRange(f.bbPort, MaxPort, 9000)
      /\ c.syncPort = InRange(f.syncPort, MaxPort, 10000)
      /\ c.bbFile = f.bbFile /\ c.cfgFile = FileOf(p)
      /\ c.peers = f.peers /\ c.syncEnalbe = (f.peers # <<>>)
      /\ c.daemon = ~off
      /\ c.debug = on
      /\ c.debugLevel = IF on THEN 1 ELSE 0
      /\ DOMAIN c = {"thMax", "bbPort", "syncPort", "bbFile", "peers", "syncEnalbe", "daemon",
                     "debug", "debugLevel", "cfgFile"}
  <2> HIDE DEF f
  <2> QED
    BY DEF LoadConfig, f
<1> HIDE DEF c, p, f, opts
<1>7. /\ cfg'.thMax = IF "t" \in p.flags THEN p.thMax ELSE c.thMax
      /\ cfg'.bbPort = IF "p" \in p.flags THEN p.bbPort ELSE c.bbPort
      /\ cfg'.syncPort = IF "s" \in p.flags THEN p.syncPort ELSE c.syncPort
      /\ cfg'.bbFile = IF "b" \in p.flags THEN p.bbFile ELSE c.bbFile
      /\ IF "f" \in p.flags THEN cfg'.daemon = FALSE ELSE cfg'.daemon = c.daemon
      /\ IF "d" \in p.flags THEN cfg'.debug = TRUE ELSE cfg'.debug = c.debug
      /\ "D" \notin p.flags => cfg'.debugLevel =
           IF "d" \in p.flags /\ c.debugLevel < 1 THEN 1 ELSE c.debugLevel
      /\ "D" \in p.flags => cfg'.debugLevel = p.debugLevel
      /\ cfg'.cfgFile = c.cfgFile /\ cfg'.syncEnalbe = c.syncEnalbe
      /\ line.peers = <<>> => cfg'.peers = c.peers
      /\ line.peers # <<>> =>
           cfg'.peers = [i \in 1 .. Ports(line.peers, Len(line.peers)) |-> "host:port"]
  BY <1>1, <1>6 DEF Overwritten
<1> HIDE DEF on, off
<1>8. /\ cfg'.debug = (Has(opts, "d") \/ on)
      /\ cfg'.daemon = (~Has(opts, "f") /\ ~off)
  <2>1. c.daemon = ~off /\ c.debug = on
    BY <1>6
  <2>3. on \in BOOLEAN /\ off \in BOOLEAN /\ \A opt : Has(opts, opt) \in BOOLEAN
    BY DEF Has, on, off
  <2>2. /\ Has(opts, "f") => cfg'.daemon = FALSE
        /\ ~Has(opts, "f") => cfg'.daemon = c.daemon
        /\ Has(opts, "d") => cfg'.debug = TRUE
        /\ ~Has(opts, "d") => cfg'.debug = c.debug
    BY <1>3, <1>7, Zenon
  <2> HIDE DEF on, off
  <2> QED
    BY <2>1, <2>2, <2>3, Zenon
<1>9. /\ (Has(opts, "d") \/ on) /\ ~Has(opts, "D") => cfg'.debugLevel = 1
      /\ ~(Has(opts, "d") \/ on) /\ ~Has(opts, "D") => cfg'.debugLevel = 0
      /\ Has(opts, "D") /\ ~Has(opts, "d") /\ Last(opts, "D").num \in 0 .. MaxLevel
           => cfg'.debugLevel = Last(opts, "D").num
  BY <1>3, <1>6, <1>7
<1>10. BBFileWins'
  BY <1>3, <1>4, <1>5, <1>6, <1>7 DEF BBFileWins
<1>11. NumberWins("t", cfg.thMax, MaxThreads, File.thMax, 20)'
  BY <1>3, <1>4, <1>5, <1>6, <1>7 DEF NumberWins
<1>12. NumberWins("p", cfg.bbPort, MaxPort, File.bbPort, 9000)'
  BY <1>3, <1>4, <1>5, <1>6, <1>7 DEF NumberWins
<1>13. NumberWins("s", cfg.syncPort, MaxPort, File.syncPort, 10000)'
  BY <1>3, <1>4, <1>5, <1>6, <1>7 DEF NumberWins
<1>14. (cfg.daemon = (~Given("f") /\ File.daemon \notin {"false", "0"}))'
  BY <1>4, <1>5, <1>8, Zenon DEF off
<1>15. (cfg.debug = (Given("d") \/ File.debug \in {"true", "1"}))'
  BY <1>4, <1>5, <1>8, Zenon DEF on
<1>16. LevelWins'
  <2>1. (Given("D") \/ cfg.debugLevel = IF cfg.debug THEN 1 ELSE 0)'
    BY <1>4, <1>8, <1>9
  <2>2. (Given("D") /\ ~Given("d") /\ LastGiven("D").num \in 0 .. MaxLevel
           => cfg.debugLevel = LastGiven("D").num)'
    BY <1>4, <1>9
  <2> QED
    BY <2>1, <2>2 DEF LevelWins
<1>17. FlagsWin'
  BY <1>14, <1>15, Zenon DEF FlagsWin
<1>18. PeersWin'
  <2>1. started'.line.peers = line.peers
    BY <1>1
  <2>2. line.peers = <<>> => cfg'.peers = f.peers
    BY <1>6, <1>7
  <2>3. ASSUME line.peers # <<>>
        PROVE  /\ Len(cfg'.peers) =
                    Cardinality({i \in 1 .. Len(line.peers) : HasPort(line.peers[i])})
               /\ \A i \in 1 .. Len(cfg'.peers) : HasPort(cfg'.peers[i])
    <3> DEFINE n == Ports(line.peers, Len(line.peers))
    <3>1. n \in Nat
      BY PortsCounted, LenProperties
    <3>2. cfg'.peers = [i \in 1 .. n |-> "host:port"]
      BY <1>7, <2>3
    <3>3. n = Cardinality({i \in 1 .. Len(line.peers) : HasPort(line.peers[i])})
      BY DEF Ports
    <3> HIDE DEF n
    <3>4. Len(cfg'.peers) = n /\ \A i \in 1 .. n : cfg'.peers[i] = "host:port"
      BY <3>1, <3>2
    <3> QED
      BY <3>3, <3>4 DEF HasPort
  <2>4. cfg'.syncEnalbe = (f.peers # <<>>)
    BY <1>6, <1>7
  <2> QED
    BY <1>5, <2>1, <2>2, <2>3, <2>4, Zenon DEF PeersWin
<1>19. (cfg.cfgFile = IF Given("c") THEN LastGiven("c").text ELSE Default)'
  BY <1>3, <1>4, <1>6, <1>7 DEF FileOf
<1> QED
  BY <1>10, <1>11, <1>12, <1>13, <1>16, <1>17, <1>18, <1>19 DEF OptionsWin

LEMMA SameStart ==
  ASSUME OptionsWin, cfg' = cfg, state' = state, File' = File,
         started'.line.peers = started.line.peers,
         \A opt : Given(opt)' <=> Given(opt), \A opt : LastGiven(opt)' = LastGiven(opt)
  PROVE  OptionsWin'
<1>1. BBFileWins' <=> BBFileWins
  BY DEF BBFileWins
<1>2. FlagsWin' <=> FlagsWin
  BY DEF FlagsWin
<1>4. LevelWins' <=> LevelWins
  BY DEF LevelWins
<1>5. PeersWin' <=> PeersWin
  BY DEF PeersWin
<1>3. /\ NumberWins("t", cfg.thMax, MaxThreads, File.thMax, 20)'
           <=> NumberWins("t", cfg.thMax, MaxThreads, File.thMax, 20)
      /\ NumberWins("p", cfg.bbPort, MaxPort, File.bbPort, 9000)'
           <=> NumberWins("p", cfg.bbPort, MaxPort, File.bbPort, 9000)
      /\ NumberWins("s", cfg.syncPort, MaxPort, File.syncPort, 10000)'
           <=> NumberWins("s", cfg.syncPort, MaxPort, File.syncPort, 10000)
  BY DEF NumberWins
<1> QED
  BY <1>1, <1>2, <1>3, <1>4, <1>5 DEF OptionsWin

LEMMA ForegroundOK == Foreground.opts \in Seq(Options) /\ Foreground.peers = <<>>
<1> DEFINE x == [opt |-> "f", num |-> 0, text |-> ""]
<1>1. x \in Options
  <2>1. \A e \in Texts : [opt |-> "f", num |-> 0, text |-> e] \in Options
    BY DEF Options, Letters
  <2> QED
    BY <2>1, NoText, Zenon
<1>2. Foreground.opts = <<x>> /\ Foreground.peers = <<>>
  BY DEF Foreground
<1> HIDE DEF x
<1> QED
  BY <1>1, <1>2

\* For all command lines, files, edits and restarts: file names, thread pool, ports,
\* peers and the flags of -f and -d are those of the last option, if this is in order,
\* else those of the file in force, else the defaults; the level is that of the last -D
\* unless -d is given too; the server synchronises if the file in force names peers.
THEOREM OptionsWinHolds == Spec => []OptionsWin
<1>1. Init => OptionsWin
  <2>1. Init => state = "off"
    BY Zenon DEF Init
  <2> QED
    BY <2>1 DEF OptionsWin
<1>2. ASSUME OptionsWin, [Next]_vars PROVE OptionsWin'
  <2>1. ASSUME UNCHANGED <<cfg, started>>, state' = state PROVE OptionsWin'
    <3>1. (\A opt : Given(opt)' <=> Given(opt)) /\ (\A opt : LastGiven(opt)' = LastGiven(opt))
      BY <2>1 DEF Given, LastGiven
    <3>2. File' = File
      BY <2>1, <3>1 DEF File
    <3> QED
      BY <1>2, <2>1, <3>1, <3>2, SameStart
  <2>2. ASSUME NEW line \in Lines, Start(line) PROVE OptionsWin'
    BY <2>2, BootupConstantsOK, LoadWins DEF Start
  <2>3. CASE HangUp
    <3>1. Foreground.opts \in Seq(Options) /\ Foreground.peers \in Seq(Words)
      BY ForegroundOK
    <3> QED
      BY <2>3, <3>1, LoadWins DEF HangUp
  <2>4. CASE BootStep
    BY <2>1, <2>4 DEF BootStep
  <2>5. ASSUME NEW command, Serve(command) PROVE OptionsWin'
    BY <2>1, <2>5 DEF Serve
  <2>6. ASSUME NEW name, NEW f, Edit(name, f) PROVE OptionsWin'
    BY <2>1, <2>6 DEF Edit
  <2>7. CASE UNCHANGED vars
    BY <2>1, <2>7 DEF vars
  <2> QED
    BY <1>2, <2>2, <2>3, <2>4, <2>5, <2>6, <2>7 DEF Next
<1> QED
  BY <1>1, <1>2, PTL DEF Spec

-----------------------------------------------------------------------------
(* The order of the steps *)

\* Nothing is used before the connections are served, which is the sixth step, and
\* nobody finds a peer in the list before the fifth has filled it from cfg.peers.
Booted ==
  /\ boot \in 0 .. 8
  /\ uses \subseteq {"clientList", "queue", "semaphores", "serverList", "masterTimer", "slaveTimer"}
  /\ uses # {} => boot >= 6
  /\ servers # <<>> => boot >= 5 /\ cfg.peers # <<>>
  /\ "serverList" \in uses => cfg.peers # <<>>

LEMMA StepsAre ==
  /\ Len(Steps) = 8 /\ Steps[1] = "clientList" /\ Steps[2] = "queue" /\ Steps[3] = "pool"
  /\ Steps[4] = "semaphores" /\ Steps[5] = "serverList" /\ Steps[6] = "connections"
  /\ Steps[7] = "masterTimer" /\ Steps[8] = "slaveTimer"
BY DEF Steps

LEMMA ServersNamed == \A words : words = <<>> => ServersOf(words) = <<>>
BY DEF ServersOf

LEMMA BootStepBooted == ASSUME Booted, BootStep PROVE Booted'
<1>1. boot \in 0 .. 7 /\ boot' = boot + 1 /\ UNCHANGED <<cfg, uses>>
  BY StepsAre DEF Booted, BootStep
<1>2. boot' = 5 => Steps[boot'] = "serverList"
  BY StepsAre
<1>3. servers' # <<>> => boot' >= 5 /\ cfg.peers # <<>>
  <2>1. CASE boot' = 5
    BY <1>1, <1>2, <2>1, ServersNamed DEF Booted, BootStep
  <2>2. CASE boot' # 5
    <3>1. Steps[boot'] # "serverList"
      BY <1>1, <2>2, StepsAre
    <3>2. servers' = servers
      BY <3>1 DEF BootStep
    <3> QED
      BY <1>1, <3>2 DEF Booted
  <2> QED
    BY <2>1, <2>2
<1> QED
  BY <1>1, <1>3 DEF Booted

\* Whoever serves a connection does so after the sixth step.
LEMMA ServeBooted ==
  ASSUME Booted, NEW command \in {"READ", "WRITE", "PRECOMMIT", "COMMIT"}, Serve(command)
  PROVE  Booted'
<1>1. boot >= 6
  <2>1. PICK i \in 1 .. boot : Steps[i] = "connections"
    BY DEF Serve, Runs
  <2>2. boot \in 0 .. 8
    BY DEF Booted
  <2>3. i = 6
    BY <2>1, <2>2, StepsAre
  <2> QED
    BY <2>1, <2>2, <2>3
<1>2. UNCHANGED <<boot, servers, cfg>> /\ uses' = Needs(command) \cup {"clientList", "queue"}
  BY DEF Serve
<1>3. /\ Needs(command) \subseteq {"semaphores", "serverList", "masterTimer", "slaveTimer"}
      /\ "serverList" \in Needs(command) => servers # <<>>
  <2>1. CASE command = "READ"
    BY <2>1 DEF Needs
  <2>2. CASE command = "WRITE"
    BY <2>2 DEF Needs
  <2>3. CASE command = "PRECOMMIT"
    BY <2>3 DEF Needs
  <2>4. CASE command = "COMMIT"
    BY <2>4 DEF Needs
  <2> QED
    BY <2>1, <2>2, <2>3, <2>4
<1> QED
  BY <1>1, <1>2, <1>3 DEF Booted

LEMMA BootedStays == ASSUME Booted, [Next]_vars PROVE Booted'
<1>1. ASSUME NEW line, Load(line) PROVE Booted'
  <2>1. boot' = 0 /\ servers' = <<>> /\ uses' = {}
    BY <1>1 DEF Load
  <2> QED
    BY <2>1 DEF Booted
<1>2. ASSUME NEW line \in Lines, Start(line) PROVE Booted'
  BY <1>1, <1>2 DEF Start
<1>3. ASSUME NEW name \in Names, NEW f \in Contents, Edit(name, f) PROVE Booted'
  BY <1>3 DEF Edit, Booted
<1>4. CASE HangUp
  BY <1>1, <1>4 DEF HangUp
<1>5. CASE UNCHANGED vars
  BY <1>5 DEF Booted, vars
<1> QED
  BY <1>2, <1>3, <1>4, <1>5, BootStepBooted, ServeBooted DEF Next

LEMMA BootedReady == ASSUME Booted PROVE ReadyWhenUsed
<1>1. CASE uses = {}
  BY <1>1 DEF ReadyWhenUsed
<1>2. CASE uses # {}
  <2>1. boot \in 6 .. 8
    BY <1>2 DEF Booted
  <2>2. {"clientList", "queue", "semaphores", "serverList"} \subseteq {Steps[i] : i \in 1 .. boot}
    BY <2>1, StepsAre
  <2>3. {"clientList", "queue", "semaphores"} \subseteq Created
    BY <2>2 DEF Created
  <2>4. "serverList" \in uses => "serverList" \in Created
    BY <2>2 DEF Created, Booted
  <2> QED
    BY <2>3, <2>4 DEF Booted, ReadyWhenUsed
<1> QED
  BY <1>1, <1>2

\* For every command line, configuration file, edit and restart: what a thread uses has
\* been created, except the timers. The pool may run long before the semaphores and the
\* list of peers exist; but only the connections give it work, and they are served later.
THEOREM ReadyWhenUsedHolds == Spec => []ReadyWhenUsed
<1>1. Init => Booted
  <2>1. Init => boot = 0 /\ servers = <<>> /\ uses = {}
    BY DEF Init
  <2> QED
    BY <2>1 DEF Booted
<1>2. Booted /\ [Next]_vars => Booted'
  BY BootedStays
<1>3. Booted => ReadyWhenUsed
  BY BootedReady
<1> QED
  BY <1>1, <1>2, <1>3, PTL DEF Spec

-----------------------------------------------------------------------------
(* Types *)

\* The settings, as TypeOK has them.
CfgOK(c) ==
  /\ c.thMax \in 0 .. MaxThreads /\ c.bbPort \in 0 .. MaxPort /\ c.syncPort \in 0 .. MaxPort
  /\ c.peers \in Seq(Words) /\ c.debugLevel \in 0 .. MaxLevel /\ c.cfgFile \in Names
  /\ c.syncEnalbe \in BOOLEAN /\ c.daemon \in BOOLEAN /\ c.debug \in BOOLEAN

LEMMA ServersType ==
  ASSUME NEW words \in Seq(Words)
  PROVE  ServersOf(words) \in Seq({"host", "wrongName"})
<1> DEFINE n == Ports(words, Len(words))
           At(k) == CHOOSE i \in DOMAIN words : HasPort(words[i]) /\ Ports(words, i) = k
           name(k) == IF At(k) = (IF k = 1 THEN 1 ELSE At(k - 1) + 1) THEN "host" ELSE "wrongName"
<1>1. n \in Nat
  BY PortsCounted, LenProperties
<1>2. ServersOf(words) = <<>> \/ ServersOf(words) = [k \in 1 .. n |-> name(k)]
  BY DEF ServersOf
<1>3. \A k : name(k) \in {"host", "wrongName"}
  BY Zenon
<1> HIDE DEF n, name
<1>4. [k \in 1 .. n |-> name(k)] \in Seq({"host", "wrongName"})
  BY <1>1, <1>3
<1>5. <<>> \in Seq({"host", "wrongName"})
  OBVIOUS
<1> QED
  BY <1>2, <1>4, <1>5

LEMMA LoadConfigOK ==
  ASSUME disk \in [Names -> Contents], NEW name \in Names
  PROVE  /\ CfgOK(LoadConfig(name))
         /\ DOMAIN LoadConfig(name) = {"thMax", "bbPort", "syncPort", "bbFile", "peers",
              "syncEnalbe", "daemon", "debug", "debugLevel", "cfgFile"}
<1> DEFINE f == disk[name]
           c == LoadConfig(name)
<1>1. f.thMax \in Int /\ f.bbPort \in Int /\ f.syncPort \in Int /\ f.peers \in Seq(Words)
  BY BootupConstantsOK
<1>2. /\ InRange(f.thMax, MaxThreads, 20) \in 0 .. MaxThreads
      /\ InRange(f.bbPort, MaxPort, 9000) \in 0 .. MaxPort
      /\ InRange(f.syncPort, MaxPort, 10000) \in 0 .. MaxPort
  <2>1. /\ MaxThreads \in Nat /\ MaxPort \in Nat
        /\ 20 \in 0 .. MaxThreads /\ 9000 \in 0 .. MaxPort /\ 10000 \in 0 .. MaxPort
    BY DEF MaxThreads, MaxPort
  <2> HIDE DEF f
  <2> QED
    BY <1>1, <2>1 DEF InRange, Valid
<1> HIDE DEF f
<1>3. /\ c.thMax = InRange(f.thMax, MaxThreads, 20)
      /\ c.bbPort = InRange(f.bbPort, MaxPort, 9000)
      /\ c.syncPort = InRange(f.syncPort, MaxPort, 10000)
      /\ c.peers = f.peers /\ c.syncEnalbe = (f.peers # <<>>)
      /\ c.daemon = (f.daemon \notin {"false", "0"}) /\ c.debug = (f.debug \in {"true", "1"})
      /\ c.debugLevel = (IF f.debug \in {"true", "1"} THEN 1 ELSE 0) /\ c.cfgFile = name
      /\ DOMAIN c = {"thMax", "bbPort", "syncPort", "bbFile", "peers", "syncEnalbe", "daemon",
                     "debug", "debugLevel", "cfgFile"}
  BY DEF LoadConfig, f
<1>4. c.debugLevel \in 0 .. MaxLevel
  BY <1>3 DEF MaxLevel
<1>5. c.syncEnalbe \in BOOLEAN /\ c.daemon \in BOOLEAN /\ c.debug \in BOOLEAN
  BY <1>3
<1> HIDE DEF c
<1>6. /\ c.thMax \in 0 .. MaxThreads /\ c.bbPort \in 0 .. MaxPort /\ c.syncPort \in 0 .. MaxPort
      /\ c.peers \in Seq(Words) /\ c.cfgFile \in Names
  BY <1>1, <1>2, <1>3
<1> QED
  BY <1>3, <1>4, <1>5, <1>6 DEF CfgOK, c

LEMMA OverwrittenOK ==
  ASSUME NEW c, CfgOK(c), NEW p \in Known, NEW peers \in Seq(Words),
         DOMAIN c = {"thMax", "bbPort", "syncPort", "bbFile", "peers", "syncEnalbe", "daemon",
                     "debug", "debugLevel", "cfgFile"}
  PROVE  CfgOK(Overwritten(c, p, peers))
<1> DEFINE d == Overwritten(c, p, peers)
           hosts == [i \in 1 .. Ports(peers, Len(peers)) |-> "host:port"]
<1>1. /\ d.thMax = (IF "t" \in p.flags THEN p.thMax ELSE c.thMax)
      /\ d.bbPort = (IF "p" \in p.flags THEN p.bbPort ELSE c.bbPort)
      /\ d.syncPort = (IF "s" \in p.flags THEN p.syncPort ELSE c.syncPort)
      /\ d.peers = (IF peers = <<>> THEN c.peers ELSE hosts)
      /\ d.debugLevel = IF "D" \in p.flags THEN p.debugLevel
                        ELSE IF "d" \in p.flags /\ c.debugLevel < 1 THEN 1 ELSE c.debugLevel
      /\ d.cfgFile = c.cfgFile /\ d.syncEnalbe = c.syncEnalbe
      /\ d.daemon = (IF "f" \in p.flags THEN FALSE ELSE c.daemon)
      /\ d.debug = (IF "d" \in p.flags THEN TRUE ELSE c.debug)
  BY DEF Overwritten
<1>2. hosts \in Seq(Words)
  <2>1. Ports(peers, Len(peers)) \in Nat
    BY PortsCounted, LenProperties
  <2>2. "host:port" \in Words
    BY Zenon DEF Words
  <2> QED
    BY <2>1, <2>2
<1> HIDE DEF d, hosts
<1>3. d.thMax \in 0 .. MaxThreads /\ d.bbPort \in 0 .. MaxPort /\ d.syncPort \in 0 .. MaxPort
  BY <1>1 DEF CfgOK, Known
<1>4. d.peers \in Seq(Words) /\ d.cfgFile \in Names
  BY <1>1, <1>2 DEF CfgOK
<1>5. d.debugLevel \in 0 .. MaxLevel
  BY <1>1 DEF CfgOK, Known, MaxLevel
<1>6. d.syncEnalbe \in BOOLEAN /\ d.daemon \in BOOLEAN /\ d.debug \in BOOLEAN
  BY <1>1 DEF CfgOK
<1> QED
  BY <1>3, <1>4, <1>5, <1>6 DEF CfgOK, d

LEMMA LoadType ==
  ASSUME NEW line, line.opts \in Seq(Options), line.peers \in Seq(Words),
         disk \in [Names -> Contents], Load(line)
  PROVE  CfgOK(cfg') /\ boot' = 0 /\ state' \in {"exited", "runs"} /\ servers' = <<>>
<1> DEFINE p == Parsed(line.opts)
<1>1. p \in Known /\ FileOf(p) \in Names
  BY GivenWins, FileKnown
<1>2. cfg' = Overwritten(LoadConfig(FileOf(p)), p, line.peers)
  BY DEF Load, LoadOption, FileOf
<1> HIDE DEF p
<1>3. CfgOK(cfg')
  BY <1>1, <1>2, LoadConfigOK, OverwrittenOK
<1> QED
  BY <1>3 DEF Load

LEMMA SameType ==
  ASSUME disk' \in [Names -> Contents], CfgOK(cfg'), boot' \in 0 .. Len(Steps),
         state' \in {"off", "runs", "exited"}, servers' \in Seq({"host", "wrongName"})
  PROVE  TypeOK'
BY DEF TypeOK, CfgOK

LEMMA LoadedOK ==
  ASSUME NEW line, line.opts \in Seq(Options), line.peers \in Seq(Words),
         disk \in [Names -> Contents], disk' = disk, Load(line)
  PROVE  TypeOK'
<1>1. CfgOK(cfg') /\ boot' = 0 /\ state' \in {"exited", "runs"} /\ servers' = <<>>
  BY LoadType
<1>2. 0 \in 0 .. Len(Steps) /\ <<>> \in Seq({"host", "wrongName"})
  BY StepsAre
<1> QED
  BY <1>1, <1>2, SameType

\* Before the first start there is no bbfile.
LEMMA NoFileOK ==
  ASSUME NEW c, CfgOK(c), NEW text PROVE CfgOK([c EXCEPT !.bbFile = text])
BY DEF CfgOK

\* For all command lines, files, edits and restarts: the settings keep their bounds.
\* Numbers out of range, in a file or an option, do not reach the threads or sockets.
THEOREM TypeCorrect == Spec => []TypeOK
<1>0. <<>> \in Seq({"host", "wrongName"}) /\ Len(Steps) = 8
  BY StepsAre
<1>1. Init => TypeOK
  <2> SUFFICES ASSUME Init PROVE TypeOK
    OBVIOUS
  <2>1. CfgOK(LoadConfig(Default))
    BY LoadConfigOK DEF Init, Names
  <2>2. CfgOK(cfg)
    BY <2>1, Zenon, NoFileOK DEF Init
  <2>3. disk \in [Names -> Contents] /\ boot = 0 /\ state = "off" /\ servers = <<>>
    BY Zenon DEF Init
  <2> QED
    BY <1>0, <2>2, <2>3 DEF TypeOK, CfgOK
<1>2. ASSUME TypeOK, [Next]_vars PROVE TypeOK'
  <2>0. /\ disk \in [Names -> Contents] /\ CfgOK(cfg) /\ boot \in 0 .. Len(Steps)
        /\ state \in {"off", "runs", "exited"} /\ servers \in Seq({"host", "wrongName"})
    BY <1>2 DEF TypeOK, CfgOK
  <2>1. ASSUME NEW line \in Lines, Start(line) PROVE TypeOK'
    <3>1. line.opts \in Seq(Options) /\ line.peers \in Seq(Words) /\ Load(line) /\ disk' = disk
      BY <2>1, BootupConstantsOK DEF Start
    <3> QED
      BY <2>0, <3>1, LoadedOK
  <2>2. CASE HangUp
    <3>1. Foreground.peers \in Seq(Words) /\ Load(Foreground) /\ disk' = disk
      BY <2>2, ForegroundOK DEF HangUp
    <3> QED
      BY <2>0, <3>1, ForegroundOK, LoadedOK
  <2>3. CASE BootStep
    <3>1. servers' \in Seq({"host", "wrongName"})
      <4>1. ServersOf(cfg.peers) \in Seq({"host", "wrongName"})
        BY <2>0, ServersType DEF CfgOK
      <4> QED
        BY <2>0, <2>3, <4>1 DEF BootStep
    <3>2. boot' \in 0 .. Len(Steps) /\ UNCHANGED <<disk, cfg, state>>
      BY <1>0, <2>0, <2>3 DEF BootStep
    <3> QED
      BY <2>0, <3>1, <3>2, SameType
  <2>4. ASSUME NEW command, Serve(command) PROVE TypeOK'
    BY <2>0, <2>4, SameType DEF Serve
  <2>5. ASSUME NEW name \in Names, NEW f \in Contents, Edit(name, f) PROVE TypeOK'
    <3>1. disk' \in [Names -> Contents] /\ UNCHANGED <<cfg, boot, state, servers>>
      BY <2>0, <2>5 DEF Edit
    <3> QED
      BY <2>0, <3>1, SameType
  <2>6. CASE UNCHANGED vars
    BY <2>0, <2>6, SameType DEF vars
  <2> QED
    BY <1>2, <2>1, <2>2, <2>3, <2>4, <2>5, <2>6 DEF Next
<1> QED
  BY <1>1, <1>2, PTL DEF Spec

=============================================================================
