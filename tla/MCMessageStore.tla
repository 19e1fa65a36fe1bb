--------------------------- MODULE MCMessageStore ---------------------------
(* An instance of MessageStore for TLC. *)
EXTENDS MessageStore, TLC

CONSTANTS a, b

\* Two lengths, so that a replacement is too short, fits or is too long, and a
\* message that holds a newline and a number behind it.
TheTexts == {<<a>>, <<b, b, b>>, <<a, NL, 3, b>>}
TheChars == {a, b}

\* A new server, and one that has two messages.
TheFiles == {<<>>, <<1, a, NL, 2, b, b, b, NL>>}
=============================================================================
