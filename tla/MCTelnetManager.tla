--------------------------- MODULE MCTelnetManager ---------------------------
(* TelnetManager for TLC.  AllOptions: every option the parser knows, and    *)
(* one it refuses, of which the server may repeat a DO, a DONT or a WILL.    *)
EXTENDS TelnetManager

AllOptions == {TELOPT_BINARY, TELOPT_ECHO, TELOPT_SGA, TELOPT_TTYPE,
               TELOPT_NAWS, 36}
=============================================================================
