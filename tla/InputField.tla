----------------------------- MODULE InputField -----------------------------
(***************************************************************************)
(* A line that the user types in a field of the screen: CommonIO takes the *)
(* input apart (parseInput) and edits the line (getLine), SessionIO says   *)
(* what happened to it (getInputField).                                    *)
(*                                                                         *)
(* The members of CommonIO are one record io, because every call changes   *)
(* several of them; the operators take it and return the one the code      *)
(* leaves behind.  m_escape_sequence is not part of it: parseInput sets it *)
(* before each ESC it returns, and it is read then only.  Left out are     *)
(* m_column_position, which nothing reads, the leadoff of a field and      *)
(* hidden fields, which nobody asks for.                                   *)
(***************************************************************************)
EXTENDS Naturals, Sequences, SequencesExt

CONSTANT FieldLength    \* length of the field

ASSUME FieldAssumption == FieldLength \in Nat

NewIO ==
    [m_string_buffer |-> <<>>, m_is_escape_sequence |-> FALSE, m_line_buffer |-> <<>>,
     m_is_new_getline |-> TRUE]

-----------------------------------------------------------------------------
(* parseInput: one character at a time; an escape sequence is collected in *)
(* m_string_buffer, the ESC itself overwritten by the bracket after it.    *)

Collected == {"0", "1", "2", "3", "4", "5", "6", "7", "8", "9", ";"}
Closing ==
    {"a", "b", "c", "d", "e", "A", "B", "C", "D", "E", "F", "G", "H", "I", "K", "M", "N",
     "P", "Q", "R", "S", "T", "U", "V", "W", "X", "Y", "Z", "~", "$", "^"}

Parsed(io, input, sequence) == [io |-> io, input |-> input, m_escape_sequence |-> sequence]
Waits(io) == Parsed(io, <<>>, <<>>)

\* The sequence is complete: ESC is returned, and what follows it is known.
Complete(io, sequence) ==
    Parsed([io EXCEPT !.m_string_buffer = <<>>], <<"ESC">>, sequence)

Collect(io, c) == Waits([io EXCEPT !.m_string_buffer = Append(@, c)])

\* A character after an ESC.  After eight of them everything is forgotten.
ContinueSequence(io, c) ==
    LET so == io.m_string_buffer IN
    CASE Len(so) >= 8 -> Waits([io EXCEPT !.m_string_buffer = <<>>])
      [] Len(so) < 8 /\ c \in {"[", "O"} /\ so[1] = "ESC" ->
            Waits([io EXCEPT !.m_string_buffer = <<c>>])
      [] Len(so) < 8 /\ c = "[" /\ so = <<"[">>      -> Collect(io, c)
      [] Len(so) < 8 /\ c = "[" /\ so = <<"[", "O">> -> Complete(io, Append(so, c))
      [] Len(so) < 8 /\ c = "O" /\ so = <<"[", "[">> -> Complete(io, Append(so, c))
      [] Len(so) < 8 /\ c = "O" /\ so # <<"[", "[">> /\ so[1] # "ESC" -> Collect(io, c)
      [] Len(so) < 8 /\ c = "LF"                     -> Parsed(io, <<"LF">>, <<>>)
      [] Len(so) < 8 /\ c \in Collected              -> Collect(io, c)
      [] Len(so) < 8 /\ c \in Closing                -> Complete(io, Append(so, c))
      [] OTHER                                       -> Complete(io, so)

\* An ESC waits to be told from the start of a sequence.
EscWaits(io) == io.m_is_escape_sequence /\ Len(io.m_string_buffer) = 1

\* A string that is not one character is not for this function, but an ESC
\* that waits is returned when anything with an ESC in front comes.
parseInput(io, typed) ==
    LET done == [io EXCEPT !.m_is_escape_sequence = FALSE]
        escAgain == (typed = <<>> \/ typed[1] = "ESC") /\ EscWaits(io)
    IN  CASE escAgain                    -> Complete(done, <<>>)
          [] ~escAgain /\ Len(typed) # 1 -> Waits(io)
          [] ~escAgain /\ typed = <<"ESC">> ->
                Waits([io EXCEPT !.m_is_escape_sequence = TRUE,
                                 !.m_string_buffer = <<"ESC">>])
          [] OTHER ->
                IF io.m_string_buffer # <<>> THEN ContinueSequence(done, typed[1])
                ELSE Parsed(done, IF typed = <<"CR">> THEN <<"LF">> ELSE typed, <<>>)

-----------------------------------------------------------------------------
(* getLine and getInputField: [io, result, line].  result is "empty" when  *)
(* there is nothing to do, "erase", "clear", "enter", "wait", or the       *)
(* character that was added.                                               *)

Outcomes == {"empty", "erase", "clear", "enter", "wait"}
Outcome(io, result) == [io |-> io, result |-> result]

\* m_sequence_map, the entries that mean DEL; any other entry is ignored, and
\* a sequence without an entry is taken for ESC.
DelSequences == {<<"[", "3", "~">>, <<"[", "3", "$">>}
Known(sequence) ==
    \/ sequence \in DelSequences
    \/ \E c \in {"A", "B", "C", "D"} :
          sequence \in {<<"[", c>>, <<"O", c>>, <<"[", "1", ";", "2", c>>}
    \/ \E c \in {"Z", "@", "H", "K", "F", "V", "U", "L", "I", "G", "a", "b", "c", "d", "e"} :
          sequence = <<"[", c>>
    \/ \E c \in {"E", "F", "H", "a", "b", "c", "d", "e"} : sequence = <<"O", c>>
    \/ \E c \in {"P", "Q", "R", "S", "T", "U", "V", "W", "X", "Y", "Z", "["} :
          sequence = <<"[", "O", c>>
    \/ \E c \in {"A", "B", "C", "D", "E", "M", "N", "O", "P", "Q", "R", "S", "T", "U", "V",
                 "W", "X"} : sequence = <<"[", "[", c>>
    \/ \E c \in {"1", "2", "4", "5", "6", "7", "8"} : sequence = <<"[", c, "~">>
    \/ \E c \in {"2", "5", "6", "7", "8"} : sequence = <<"[", c, "$">>
    \/ \E c \in {"2", "3", "5", "6", "7", "8"} : sequence = <<"[", c, "^">>
    \/ \E c \in {"7", "8", "9"} : sequence = <<"[", "[", "1", c, "~">>
    \/ \E c \in {"0", "1", "3", "4"} : sequence = <<"[", "[", "2", c, "~">>

EraseLast(io) ==
    IF io.m_line_buffer = <<>> THEN Outcome(io, "empty")
    ELSE Outcome([io EXCEPT !.m_line_buffer = Front(@)], "erase")

AddCharacter(io, c) ==
    IF Len(io.m_line_buffer) + 1 <= FieldLength
    THEN Outcome([io EXCEPT !.m_line_buffer = Append(@, c)], c)
    ELSE Outcome(io, "empty")

\* Faulty: the line stays for the next field.
EndNothing(io, result) == Outcome(io, result)

\* ENTER ends the line, ESC drops it: either way the next call starts anew.
EndLine(io, result) == Outcome([io EXCEPT !.m_is_new_getline = TRUE], result)

EscapeKey(io, sequence) ==
    CASE sequence \in DelSequences -> EraseLast(io)
      [] sequence \notin DelSequences /\ Known(sequence) -> Outcome(io, "empty")
      [] OTHER -> EndLine(io, "wait")

getLine(io, typed) ==
    LET fresh == IF io.m_is_new_getline
                 THEN [io EXCEPT !.m_is_new_getline = FALSE, !.m_line_buffer = <<>>] ELSE io
        got == parseInput(fresh, typed)
    IN  CASE got.input = <<>>               -> Outcome(got.io, "wait")
          [] got.input = <<"LF">>           -> EndLine(got.io, "enter")
          [] got.input = <<"ESC">>          -> EscapeKey(got.io, got.m_escape_sequence)
          [] got.input = <<"CTRL-Y">>       ->
                IF got.io.m_line_buffer = <<>> THEN Outcome(got.io, "empty")
                ELSE Outcome([got.io EXCEPT !.m_line_buffer = <<>>], "clear")
          [] got.input \in {<<"BS">>, <<"DEL">>} -> EraseLast(got.io)
          [] OTHER                          -> AddCharacter(got.io, got.input[1])

\* An ESC is told as "aborted" only when a NUL was typed, which no key sends:
\* otherwise it is nothing, like the part of a sequence.
getInputField(io, typed) == getLine(io, typed)
=============================================================================
