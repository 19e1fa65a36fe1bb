------------------------------ MODULE MCBootup -------------------------------
(* An instance of Bootup for TLC. *)
EXTENDS Bootup, TLC

Conf(t, b, p, d) == [NoFile EXCEPT !.thMax = t, !.bbFile = b, !.peers = p, !.debug = d,
                                   !.daemon = IF d = "true" THEN "0" ELSE ""]

\* No file, one whose PEERS names no server, a complete one, and one with a
\* number out of range and a word among its peers.
TheContents == {
  NoFile, Conf(Absent, "file a", <<"word">>, ""),
  Conf(4, "file b", <<"host:port", "host:port">>, "true"),
  Conf(2000, "file b", <<"word", "host:port">>, "false")}

TheTexts == {"", "file c", "bbserv.conf", "other.conf"}

Flag(o)    == [opt |-> o, num |-> 0, text |-> ""]
Num(o, n)  == [opt |-> o, num |-> n, text |-> ""]
Text(o, t) == [opt |-> o, num |-> 0, text |-> t]

\* Up to two options, in both orders; the peers that may follow.
TheOptions == {Text("b", "file c"), Text("c", "other.conf"), Num("t", 8), Num("t", 0),
               Num("p", 700), Num("s", 701), Num("s", 70000), Flag("f"), Flag("d"),
               Num("D", 3), Num("D", 9)}

ThePeers == {<<"host:port">>, <<"word">>, <<"host:port", "word">>}

TheLines ==
  [opts : {<<>>} \cup {<<x>> : x \in TheOptions}
          \cup {<<x, y>> : x \in TheOptions, y \in TheOptions},
   peers : {<<>>}]
  \cup [opts : {<<>>, <<Text("c", "other.conf")>>}, peers : ThePeers]
=============================================================================
