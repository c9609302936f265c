-------------------------- MODULE MCSequenceParser --------------------------
(* Values of the constants of SequenceParser for the runs.                 *)
EXTENDS SequenceParser

Cmd(final, numbers) == [final |-> final, numbers |-> numbers]
Plain(finals) == {Cmd(f, <<>>) : f \in finals}

\* Every command, with a number and with an empty field where it takes one, on
\* a screen of 3 rows.
AllCommands ==
    Plain({"A", "B", "C", "D", "E", "F", "G", "H", "d", "s", "u", "r", "P", "b",
           "J", "K", "h", "l", "n", "IND", "RI", "NEL"})
    \union {Cmd(f, <<2>>) : f \in {"A", "B", "C", "D", "E", "G", "H", "P", "b", "J", "K"}}
    \union {Cmd("H", <<3, 2>>), Cmd("H", <<-1, 2>>), Cmd("r", <<1, 2>>),
            Cmd("r", <<2, 3>>), Cmd("J", <<0>>), Cmd("J", <<1>>), Cmd("K", <<1>>),
            Cmd("d", <<3>>), Cmd("F", <<0>>)}
    \union {Cmd(f, <<-1>>) : f \in {"A", "B", "C", "D", "E", "F", "G", "d", "P", "b"}}
    \union {Cmd("H", <<-1, -1>>), Cmd("r", <<-1, 2>>), Cmd("r", <<2, -1>>)}

\* No action tells one glyph from another.
GlyphsAlike == Permutations(Glyphs)
=============================================================================
