--------------------------- MODULE MCIrcManager ---------------------------
(* Values of the constants of IrcManager for the runs.                     *)
EXTENDS IrcManager

\* A PING, a line with a code and PING inside, and one with a percent sign.
MCLines == { <<"PING", " :", "k">>, <<"|", "C", "S", "PING">> }
MCPercent == { <<"1", "%", "A", "B">> }
MCFewLines == { <<"PING", " :", "k">> }

MCInputs == {<<c>> : c \in {"a", "ESC", "CR", "BS", "[", "A"}} \union {<<"a", "a">>}
MoreInputs == {<<c>> : c \in {"a", "ESC", "CR", "LF", "BS", "CTRL-Y", "[", "O", "3", "~"}}
              \union {<<"ESC", "[", "A">>, <<"a", "a">>}
NoLines == {}
NoInputs == {}
MCFewInputs == {<<"a">>, <<"ESC">>, <<"CR">>}
============================================================================
