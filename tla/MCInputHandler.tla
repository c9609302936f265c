--------------------------- MODULE MCInputHandler ---------------------------
(* Values of the constants of InputHandler for the runs.                   *)
EXTENDS InputHandler

Press(sym, shift) == [sym |-> sym, shift |-> shift, ctrl |-> FALSE, alt |-> FALSE, num |-> FALSE]

\* Every key with a table entry, two of the keypad, and two with CTRL.
MCKeys ==
    {Press(k, FALSE) : k \in DOMAIN ANSIKeyMap \union DOMAIN Arrow
                              \union {"ESCAPE", "RETURN", "TAB", "KP_1"}}
    \union {Press(k, TRUE) : k \in {"UP", "TAB"}}
    \union {[Press("KP_1", FALSE) EXCEPT !.num = TRUE]}
    \union {[Press(k, FALSE) EXCEPT !.ctrl = TRUE] : k \in {"c", "F1"}}
    \union {[Press("-", TRUE) EXCEPT !.ctrl = TRUE]}

MCFewKeys == {Press("UP", FALSE)}
MCKeyMaps == {"ANSI", "VT100", "LINUX", "SCO", "unknown"}
MCClippings == {<<"a", "CR", "LF", "LF", "TAB">>, <<"LF">>}

\* A screen of 4 columns and 3 rows; cells of 4 x 4, 4.5 x 5.33 and 7 x 6 pixels.
MCPoints == {<<0, 0>>, <<7, 3>>, <<9, 10>>, <<15, 11>>, <<17, 15>>}
MCSizes == {<<16, 12>>, <<18, 16>>}
MCDesktop == <<28, 18>>

\* The tables of the key maps as they are.
ASSUME KeyTables == \A name \in KeyMapNames : KeysAreToldApart(name)
=============================================================================
