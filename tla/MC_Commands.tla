---------------------------- MODULE MC_Commands ----------------------------
(* Model-checking instance of the command reader: a few words and lines.   *)
EXTENDS Commands

CONSTANTS null, garbage

\* "#ff0000", "#12345g", "#fff", "ff0000", "2", "2x", "70000".
Red    == [hash |-> TRUE,  len |-> 7, hex |-> TRUE,  isNum |-> FALSE, num |-> 0]
BadHex == [hash |-> TRUE,  len |-> 7, hex |-> FALSE, isNum |-> FALSE, num |-> 0]
Short  == [hash |-> TRUE,  len |-> 4, hex |-> TRUE,  isNum |-> FALSE, num |-> 0]
NoHash == [hash |-> FALSE, len |-> 6, hex |-> TRUE,  isNum |-> FALSE, num |-> 0]
Two    == [hash |-> FALSE, len |-> 1, hex |-> TRUE,  isNum |-> TRUE,  num |-> 2]
TwoX   == [hash |-> FALSE, len |-> 2, hex |-> FALSE, isNum |-> FALSE, num |-> 0]

Ln(t, a, args, nl) == [colon |-> TRUE, target |-> t, action |-> a, args |-> args, nl |-> nl]

\* Newline-terminated lines: well formed, wrong argc, bad colour or number,
\* unknown action, no target, no action.
TerminatedLines ==
    { Ln("p", "CREATE", <<Red>>, TRUE), Ln("p", "CREATE", <<Short>>, TRUE),
      Ln("p", "CREATE", <<NoHash>>, TRUE), Ln("p", "CREATE", <<>>, TRUE),
      Ln("p", "REMOVE", <<>>, TRUE), Ln("p", "REMOVE", <<Red>>, TRUE),
      Ln("p", "RECT", <<Red, Two, Two, Two, Two>>, TRUE),
      Ln("p", "RECT", <<Red, Two, TwoX, Two, Two>>, TRUE),
      Ln("p", "CIRCLE", <<Red, Two, Two, Two>>, TRUE),
      Ln("p", "CIRCLE", <<Red, Two, Two>>, TRUE),
      Ln("p", "FILL", <<>>, TRUE), Ln("", "REMOVE", <<>>, TRUE),
      Ln("p", "", <<>>, TRUE),
      [colon |-> FALSE, target |-> "", action |-> "", args |-> <<>>, nl |-> TRUE] }

\* The well-formed lines and "p: CREATE #12345g", a colour with a non-hex digit.
ColourLines == TerminatedLines \cup {Ln("p", "CREATE", <<BadHex>>, TRUE)}

\* A line whose action word ends the buffer: EOF or a cut long line.
UnterminatedLines == TerminatedLines \cup {Ln("p", "REMOVE", <<>>, FALSE)}
=============================================================================
