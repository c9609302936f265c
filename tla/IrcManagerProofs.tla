--------------------------- MODULE IrcManagerProofs ---------------------------
(* Proofs about the prompt of an IRC session, the lines it is sent, and what *)
(* stands for the codes of a line on the screen.                             *)
EXTENDS IrcManager, DataInduction, TLAPS

-----------------------------------------------------------------------------
(* The prompt.                                                             *)

Key == (UNION {ToSet(typed) : typed \in Inputs}) \ Outcomes
IO ==
    [m_string_buffer : Seq(Key \union {"ESC"}), m_is_escape_sequence : BOOLEAN,
     m_line_buffer : Seq(Key), m_is_new_getline : BOOLEAN]

IOTypeOK(i) ==
    /\ i \in IO
    /\ i.m_is_escape_sequence => i.m_string_buffer = <<"ESC">>
    /\ Len(i.m_string_buffer) <= 8
    /\ Len(i.m_line_buffer) <= FieldLength

\* The line that ENTER would end.
LineOf(i) == IF i.m_is_new_getline THEN <<>> ELSE i.m_line_buffer

LEMMA KeysTyped ==
    ASSUME NEW typed \in Inputs
    PROVE  typed \in Seq(Key)
<1>1. typed \in Seq(ToSet(typed) \ Outcomes)
  BY IrcAssumption
<1>2. ToSet(typed) \ Outcomes \subseteq Key
  <2> SUFFICES ASSUME NEW k, k \in ToSet(typed), k \notin Outcomes PROVE k \in Key
    OBVIOUS
  <2>1. k \in UNION {ToSet(t) : t \in Inputs}
    OBVIOUS
  <2> QED
    BY <2>1 DEF Key
<1> QED
  BY <1>1, <1>2

LEMMA NewIOTyped == IOTypeOK(NewIO) /\ LineOf(NewIO) = <<>>
<1>1. <<>> \in Seq(Key) /\ <<>> \in Seq(Key \union {"ESC"}) /\ Len(<<>>) = 0
  OBVIOUS
<1>2. 0 <= 8 /\ 0 <= FieldLength
  BY FieldAssumption
<1> QED
  BY <1>1, <1>2 DEF NewIO, IOTypeOK, IO, LineOf

\* parseInput leaves the line alone, and returns nothing, a key, or what
\* stands for ENTER and ESC.
Keeps(i, p) ==
    /\ IOTypeOK(p.io)
    /\ p.io.m_line_buffer = i.m_line_buffer
    /\ p.io.m_is_new_getline = i.m_is_new_getline
    /\ \/ p.input = <<>> \/ p.input = <<"LF">> \/ p.input = <<"ESC">>
       \/ \E k \in Key : p.input = <<k>>

LEMMA WaitsKeeps ==
    ASSUME NEW i, IOTypeOK(i)
    PROVE  Keeps(i, Waits(i))
BY DEF Keeps, Waits, Parsed

LEMMA CompleteKeeps ==
    ASSUME NEW i, IOTypeOK(i), ~i.m_is_escape_sequence, NEW sequence
    PROVE  Keeps(i, Complete(i, sequence))
<1> DEFINE j == [i EXCEPT !.m_string_buffer = <<>>]
<1>1. i \in IO
  BY DEF IOTypeOK
<1>2. /\ j \in IO /\ j.m_string_buffer = <<>> /\ j.m_line_buffer = i.m_line_buffer
      /\ j.m_is_new_getline = i.m_is_new_getline /\ ~j.m_is_escape_sequence
  <2>1. <<>> \in Seq(Key \union {"ESC"})
    OBVIOUS
  <2> QED
    BY <1>1, <2>1 DEF IO
<1>3. Len(<<>>) <= 8
  OBVIOUS
<1> HIDE DEF j
<1>4. IOTypeOK(j)
  BY <1>2, <1>3 DEF IOTypeOK
<1> QED
  BY <1>2, <1>4 DEF Keeps, Complete, Parsed, j

LEMMA CollectKeeps ==
    ASSUME NEW i, IOTypeOK(i), ~i.m_is_escape_sequence, Len(i.m_string_buffer) < 8,
           NEW c \in Key
    PROVE  Keeps(i, Collect(i, c))
<1> DEFINE s == i.m_string_buffer
           j == [i EXCEPT !.m_string_buffer = Append(@, c)]
<1>1. i \in IO /\ s \in Seq(Key \union {"ESC"})
  BY DEF IOTypeOK, IO
<1>2. Append(s, c) \in Seq(Key \union {"ESC"}) /\ Len(Append(s, c)) = Len(s) + 1 /\ Len(s) \in Nat
  BY <1>1
<1>3. /\ j \in IO /\ j.m_string_buffer = Append(s, c) /\ j.m_line_buffer = i.m_line_buffer
      /\ j.m_is_new_getline = i.m_is_new_getline /\ ~j.m_is_escape_sequence
  BY <1>1, <1>2 DEF IO
<1>4. Len(Append(s, c)) <= 8
  BY <1>2
<1> HIDE DEF j, s
<1>5. IOTypeOK(j)
  BY <1>3, <1>4 DEF IOTypeOK
<1> QED
  BY <1>3, <1>5, WaitsKeeps DEF Keeps, Collect, Waits, Parsed, j

LEMMA SetBufferKeeps ==
    ASSUME NEW i, IOTypeOK(i), ~i.m_is_escape_sequence,
           NEW t \in Seq(Key \union {"ESC"}), Len(t) <= 8
    PROVE  Keeps(i, Waits([i EXCEPT !.m_string_buffer = t]))
<1> DEFINE j == [i EXCEPT !.m_string_buffer = t]
<1>1. i \in IO
  BY DEF IOTypeOK
<1>2. /\ j \in IO /\ j.m_string_buffer = t /\ j.m_line_buffer = i.m_line_buffer
      /\ j.m_is_new_getline = i.m_is_new_getline /\ ~j.m_is_escape_sequence
  BY <1>1 DEF IO
<1> HIDE DEF j
<1>3. IOTypeOK(j)
  BY <1>2 DEF IOTypeOK
<1> QED
  BY <1>2, <1>3 DEF Keeps, Waits, Parsed, j

LEMMA ContinueKeeps ==
    ASSUME NEW i, IOTypeOK(i), ~i.m_is_escape_sequence, NEW c \in Key
    PROVE  Keeps(i, ContinueSequence(i, c))
<1> DEFINE so == i.m_string_buffer
<1>1. so \in Seq(Key \union {"ESC"}) /\ Len(so) <= 8 /\ Len(so) \in Nat
  BY DEF IOTypeOK, IO
<1>2. \A sequence : Keeps(i, Complete(i, sequence))
  BY CompleteKeeps
<1>3. Keeps(i, Waits([i EXCEPT !.m_string_buffer = <<>>]))
  <2>1. <<>> \in Seq(Key \union {"ESC"}) /\ Len(<<>>) <= 8
    OBVIOUS
  <2> QED
    BY <2>1, SetBufferKeeps
<1>4. Keeps(i, Waits([i EXCEPT !.m_string_buffer = <<c>>]))
  <2>1. PICK t : t = <<c>>
    OBVIOUS
  <2>2. t \in Seq(Key \union {"ESC"}) /\ Len(t) <= 8
    BY <2>1
  <2> QED
    BY <2>1, <2>2, SetBufferKeeps
<1>5. Len(so) < 8 => Keeps(i, Collect(i, c))
  BY CollectKeeps
<1>6. Keeps(i, Parsed(i, <<"LF">>, <<>>))
  BY DEF Keeps, Parsed
<1>7. \/ ContinueSequence(i, c) = Waits([i EXCEPT !.m_string_buffer = <<>>])
      \/ ContinueSequence(i, c) = Waits([i EXCEPT !.m_string_buffer = <<c>>])
      \/ Len(so) < 8 /\ ContinueSequence(i, c) = Collect(i, c)
      \/ ContinueSequence(i, c) = Parsed(i, <<"LF">>, <<>>)
      \/ \E sequence : ContinueSequence(i, c) = Complete(i, sequence)
  <2> DEFINE short == Len(so) < 8
             A == c \in {"[", "O"} /\ so[1] = "ESC"
             B == c = "[" /\ so = <<"[">>
             C == c = "[" /\ so = <<"[", "O">>
             D == c = "O" /\ so = <<"[", "[">>
             E == c = "O" /\ so # <<"[", "[">> /\ so[1] # "ESC"
             F == c = "LF"
             G == c \in Collected
             H == c \in Closing
  <2>1. ContinueSequence(i, c) =
          CASE Len(so) >= 8 -> Waits([i EXCEPT !.m_string_buffer = <<>>])
            [] short /\ A -> Waits([i EXCEPT !.m_string_buffer = <<c>>])
            [] short /\ B -> Collect(i, c)
            [] short /\ C -> Complete(i, Append(so, c))
            [] short /\ D -> Complete(i, Append(so, c))
            [] short /\ E -> Collect(i, c)
            [] short /\ F -> Parsed(i, <<"LF">>, <<>>)
            [] short /\ G -> Collect(i, c)
            [] short /\ H -> Complete(i, Append(so, c))
            [] OTHER       -> Complete(i, so)
    BY DEF ContinueSequence
  <2> HIDE DEF so, short, A, B, C, D, E, F, G, H
  <2>2. short => Len(so) < 8
    BY DEF short
  <2> QED
    BY <2>1, <2>2
<1> QED
  BY <1>2, <1>3, <1>4, <1>5, <1>6, <1>7

LEMMA ParseKeeps ==
    ASSUME NEW i, IOTypeOK(i), NEW typed \in Seq(Key)
    PROVE  Keeps(i, parseInput(i, typed))
<1> DEFINE done == [i EXCEPT !.m_is_escape_sequence = FALSE]
           escAgain == (typed = <<>> \/ typed[1] = "ESC") /\ EscWaits(i)
           p == parseInput(i, typed)
<1>1. i \in IO
  BY DEF IOTypeOK
<1>2. /\ done \in IO /\ done.m_string_buffer = i.m_string_buffer
      /\ done.m_line_buffer = i.m_line_buffer
      /\ done.m_is_new_getline = i.m_is_new_getline /\ ~done.m_is_escape_sequence
  BY <1>1 DEF IO
<1> HIDE DEF done
<1>3. IOTypeOK(done)
  BY <1>2 DEF IOTypeOK
<1>4. \A q : Keeps(done, q) => Keeps(i, q)
  BY <1>2 DEF Keeps
<1>5. CASE escAgain
  <2>1. p = Complete(done, <<>>)
    BY <1>5 DEF parseInput, done
  <2> QED
    BY <1>2, <1>3, <1>4, <2>1, CompleteKeeps
<1>6. CASE ~escAgain /\ Len(typed) # 1
  <2>1. p = Waits(i)
    BY <1>6 DEF parseInput
  <2> QED
    BY <2>1, WaitsKeeps
<1>7. CASE ~escAgain /\ Len(typed) = 1 /\ typed = <<"ESC">>
  <2> DEFINE j == [i EXCEPT !.m_is_escape_sequence = TRUE, !.m_string_buffer = <<"ESC">>]
  <2>1. p = Waits(j)
    BY <1>7 DEF parseInput
  <2>2. <<"ESC">> \in Seq(Key \union {"ESC"}) /\ Len(<<"ESC">>) <= 8
    OBVIOUS
  <2>3. /\ j \in IO /\ j.m_string_buffer = <<"ESC">> /\ j.m_line_buffer = i.m_line_buffer
        /\ j.m_is_new_getline = i.m_is_new_getline
    BY <1>1, <2>2 DEF IO
  <2> HIDE DEF j
  <2>4. IOTypeOK(j)
    BY <2>2, <2>3 DEF IOTypeOK
  <2> QED
    BY <2>1, <2>3, <2>4 DEF Keeps, Waits, Parsed
<1>8. CASE ~escAgain /\ Len(typed) = 1 /\ typed # <<"ESC">>
  <2>1. typed[1] \in Key /\ typed = <<typed[1]>>
    BY <1>8
  <2>2. p = IF i.m_string_buffer # <<>> THEN ContinueSequence(done, typed[1])
            ELSE Parsed(done, IF typed = <<"CR">> THEN <<"LF">> ELSE typed, <<>>)
    BY <1>8 DEF parseInput, done
  <2>3. CASE i.m_string_buffer # <<>>
    BY <1>2, <1>3, <1>4, <2>1, <2>2, <2>3, ContinueKeeps
  <2>4. CASE i.m_string_buffer = <<>>
    <3>1. p = Parsed(done, IF typed = <<"CR">> THEN <<"LF">> ELSE typed, <<>>)
      BY <2>2, <2>4
    <3>2. p.io = done /\ p.input = IF typed = <<"CR">> THEN <<"LF">> ELSE typed
      BY <3>1 DEF Parsed
    <3> QED
      BY <1>2, <1>3, <2>1, <3>2 DEF Keeps
  <2> QED
    BY <2>3, <2>4
<1> QED
  BY <1>5, <1>6, <1>7, <1>8

\* What a call of getInputField does to the line before it.
Edited(before, e) ==
    LET now == e.io IN
    /\ IOTypeOK(now)
    /\ e.result \in Outcomes \union Key
    /\ e.result = "empty" => ~now.m_is_new_getline /\ now.m_line_buffer = before
    /\ e.result = "erase" =>
          before # <<>> /\ ~now.m_is_new_getline /\ now.m_line_buffer = Front(before)
    /\ e.result = "clear" =>
          before # <<>> /\ ~now.m_is_new_getline /\ now.m_line_buffer = <<>>
    /\ e.result = "enter" => now.m_is_new_getline /\ now.m_line_buffer = before
    /\ e.result = "wait" => now.m_is_new_getline \/ now.m_line_buffer = before
    /\ e.result \notin Outcomes =>
          ~now.m_is_new_getline /\ now.m_line_buffer = Append(before, e.result)

LEMMA LineSet ==
    ASSUME NEW i, IOTypeOK(i), NEW line \in Seq(Key), Len(line) <= FieldLength
    PROVE  /\ IOTypeOK([i EXCEPT !.m_line_buffer = line])
           /\ [i EXCEPT !.m_line_buffer = line].m_line_buffer = line
           /\ [i EXCEPT !.m_line_buffer = line].m_is_new_getline = i.m_is_new_getline
<1> DEFINE j == [i EXCEPT !.m_line_buffer = line]
<1>1. i \in IO
  BY DEF IOTypeOK
<1>2. /\ j \in IO /\ j.m_line_buffer = line /\ j.m_string_buffer = i.m_string_buffer
      /\ j.m_is_new_getline = i.m_is_new_getline
      /\ j.m_is_escape_sequence = i.m_is_escape_sequence
  BY <1>1 DEF IO
<1> HIDE DEF j
<1>3. IOTypeOK(j)
  BY <1>2 DEF IOTypeOK
<1> QED
  BY <1>2, <1>3 DEF j

LEMMA EndLineEdits ==
    ASSUME NEW i, IOTypeOK(i), NEW result \in {"enter", "wait"}
    PROVE  Edited(i.m_line_buffer, EndLine(i, result))
<1> DEFINE j == [i EXCEPT !.m_is_new_getline = TRUE]
<1>1. i \in IO
  BY DEF IOTypeOK
<1>2. /\ j \in IO /\ j.m_line_buffer = i.m_line_buffer
      /\ j.m_string_buffer = i.m_string_buffer /\ j.m_is_new_getline
      /\ j.m_is_escape_sequence = i.m_is_escape_sequence
  BY <1>1 DEF IO
<1> HIDE DEF j
<1>3. IOTypeOK(j)
  BY <1>2 DEF IOTypeOK
<1>4. EndLine(i, result).io = j /\ EndLine(i, result).result = result
  BY DEF EndLine, Outcome, j
<1> QED
  BY <1>2, <1>3, <1>4 DEF Edited, Outcomes

LEMMA EraseLastEdits ==
    ASSUME NEW i, IOTypeOK(i), ~i.m_is_new_getline
    PROVE  Edited(i.m_line_buffer, EraseLast(i))
<1> DEFINE line == i.m_line_buffer
<1>1. line \in Seq(Key) /\ Len(line) <= FieldLength
  BY DEF IOTypeOK, IO
<1>2. CASE line = <<>>
  <2>1. EraseLast(i).io = i /\ EraseLast(i).result = "empty"
    BY <1>2 DEF EraseLast, Outcome
  <2> QED
    BY <2>1 DEF Edited, Outcomes
<1>3. CASE line # <<>>
  <2>1. PICK front : front = Front(line)
    OBVIOUS
  <2>2. front \in Seq(Key) /\ Len(front) <= FieldLength
    <3>1. Len(line) \in Nat /\ Len(line) # 0
      BY <1>1, <1>3
    <3>2. front = SubSeq(line, 1, Len(line) - 1)
      BY <2>1 DEF Front
    <3> QED
      BY <1>1, <3>1, <3>2, FieldAssumption
  <2>3. EraseLast(i).io = [i EXCEPT !.m_line_buffer = front]
    BY <1>3, <2>1 DEF EraseLast, Outcome
  <2>4. EraseLast(i).result = "erase"
    BY <1>3 DEF EraseLast, Outcome
  <2>5. /\ IOTypeOK(EraseLast(i).io) /\ EraseLast(i).io.m_line_buffer = front
        /\ ~EraseLast(i).io.m_is_new_getline
    BY <2>2, <2>3, LineSet
  <2> QED
    BY <1>3, <2>1, <2>4, <2>5 DEF Edited, Outcomes
<1> QED
  BY <1>2, <1>3

LEMMA AddCharacterEdits ==
    ASSUME NEW i, IOTypeOK(i), ~i.m_is_new_getline, NEW c \in Key
    PROVE  Edited(i.m_line_buffer, AddCharacter(i, c))
<1> DEFINE line == i.m_line_buffer
<1>1. line \in Seq(Key) /\ Len(line) <= FieldLength
  BY DEF IOTypeOK, IO
<1>2. c \notin Outcomes
  BY DEF Key
<1>3. CASE Len(line) + 1 <= FieldLength
  <2>1. PICK longer : longer = Append(line, c)
    OBVIOUS
  <2>2. longer \in Seq(Key) /\ Len(longer) <= FieldLength
    BY <1>1, <1>3, <2>1
  <2>3. AddCharacter(i, c).io = [i EXCEPT !.m_line_buffer = longer]
    BY <1>3, <2>1 DEF AddCharacter, Outcome
  <2>4. AddCharacter(i, c).result = c
    BY <1>3 DEF AddCharacter, Outcome
  <2>5. /\ IOTypeOK(AddCharacter(i, c).io) /\ AddCharacter(i, c).io.m_line_buffer = longer
        /\ ~AddCharacter(i, c).io.m_is_new_getline
    BY <2>2, <2>3, LineSet
  <2> QED
    BY <1>2, <2>1, <2>4, <2>5 DEF Edited, Outcomes
<1>4. CASE ~(Len(line) + 1 <= FieldLength)
  <2>1. AddCharacter(i, c).io = i /\ AddCharacter(i, c).result = "empty"
    BY <1>4 DEF AddCharacter, Outcome
  <2> QED
    BY <2>1 DEF Edited, Outcomes
<1> QED
  BY <1>3, <1>4

LEMMA EscapeKeyEdits ==
    ASSUME NEW i, IOTypeOK(i), ~i.m_is_new_getline, NEW sequence
    PROVE  Edited(i.m_line_buffer, EscapeKey(i, sequence))
<1>1. CASE sequence \in DelSequences
  BY <1>1, EraseLastEdits DEF EscapeKey
<1>2. CASE sequence \notin DelSequences /\ Known(sequence)
  <2>1. EscapeKey(i, sequence).io = i /\ EscapeKey(i, sequence).result = "empty"
    BY <1>2 DEF EscapeKey, Outcome
  <2> QED
    BY <2>1 DEF Edited, Outcomes
<1>3. CASE sequence \notin DelSequences /\ ~Known(sequence)
  <2>1. EscapeKey(i, sequence) = EndLine(i, "wait")
    BY <1>3 DEF EscapeKey
  <2> QED
    BY <2>1, EndLineEdits
<1> QED
  BY <1>1, <1>2, <1>3

LEMMA GetLineEdits ==
    ASSUME NEW i, IOTypeOK(i), NEW typed \in Inputs
    PROVE  Edited(LineOf(i), getInputField(i, typed))
<1> DEFINE fresh == IF i.m_is_new_getline
                    THEN [i EXCEPT !.m_is_new_getline = FALSE, !.m_line_buffer = <<>>]
                    ELSE i
           got == parseInput(fresh, typed)
           e == getLine(i, typed)
<1>1. /\ IOTypeOK(fresh) /\ ~fresh.m_is_new_getline
      /\ fresh.m_line_buffer = LineOf(i)
  <2>1. CASE ~i.m_is_new_getline
    BY <2>1 DEF LineOf
  <2>2. CASE i.m_is_new_getline
    <3>1. i \in IO /\ <<>> \in Seq(Key) /\ Len(<<>>) = 0
      BY DEF IOTypeOK
    <3> DEFINE j == [i EXCEPT !.m_is_new_getline = FALSE, !.m_line_buffer = <<>>]
    <3>2. /\ j \in IO /\ j.m_line_buffer = <<>>
          /\ j.m_string_buffer = i.m_string_buffer /\ ~j.m_is_new_getline
          /\ j.m_is_escape_sequence = i.m_is_escape_sequence
      BY <3>1 DEF IO
    <3>3. fresh = j
      BY <2>2
    <3> HIDE DEF j, fresh
    <3>4. IOTypeOK(j)
      <4>1. 0 <= FieldLength
        BY FieldAssumption
      <4> QED
        BY <3>1, <3>2, <4>1 DEF IOTypeOK
    <3> QED
      BY <2>2, <3>2, <3>3, <3>4 DEF LineOf
  <2> QED
    BY <2>1, <2>2
<1> HIDE DEF fresh
<1>2. /\ IOTypeOK(got.io) /\ ~got.io.m_is_new_getline
      /\ got.io.m_line_buffer = LineOf(i)
      /\ \/ got.input = <<>> \/ got.input = <<"LF">> \/ got.input = <<"ESC">>
         \/ \E k \in Key : got.input = <<k>>
  <2>1. typed \in Seq(Key)
    BY KeysTyped
  <2> QED
    BY <1>1, <2>1, ParseKeeps DEF Keeps
<1>3. e = CASE got.input = <<>>               -> Outcome(got.io, "wait")
          [] got.input = <<"LF">>           -> EndLine(got.io, "enter")
          [] got.input = <<"ESC">>          -> EscapeKey(got.io, got.m_escape_sequence)
          [] got.input = <<"CTRL-Y">>       ->
                IF got.io.m_line_buffer = <<>> THEN Outcome(got.io, "empty")
                ELSE Outcome([got.io EXCEPT !.m_line_buffer = <<>>], "clear")
          [] got.input \in {<<"BS">>, <<"DEL">>} -> EraseLast(got.io)
          [] OTHER                          -> AddCharacter(got.io, got.input[1])
  BY DEF getLine, fresh
<1> HIDE DEF got, e
<1>4. CASE got.input = <<>>
  <2>1. e = Outcome(got.io, "wait")
    BY <1>3, <1>4
  <2>2. e.io = got.io /\ e.result = "wait"
    BY <2>1 DEF Outcome
  <2> QED
    BY <1>2, <2>2 DEF Edited, Outcomes, getInputField, e
<1>5. CASE got.input = <<"LF">>
  <2>1. e = EndLine(got.io, "enter")
    BY <1>3, <1>5
  <2> QED
    BY <1>2, <2>1, EndLineEdits DEF getInputField, e
<1>6. CASE got.input = <<"ESC">>
  <2>1. e = EscapeKey(got.io, got.m_escape_sequence)
    BY <1>3, <1>6
  <2>2. Edited(got.io.m_line_buffer, EscapeKey(got.io, got.m_escape_sequence))
    BY <1>2, EscapeKeyEdits
  <2> QED
    BY <1>2, <2>1, <2>2 DEF getInputField, e
<1>7. CASE got.input = <<"CTRL-Y">>
  <2>1. e = IF got.io.m_line_buffer = <<>> THEN Outcome(got.io, "empty")
            ELSE Outcome([got.io EXCEPT !.m_line_buffer = <<>>], "clear")
    BY <1>3, <1>7
  <2>2. CASE got.io.m_line_buffer = <<>>
    <3>1. e.io = got.io /\ e.result = "empty"
      BY <2>1, <2>2 DEF Outcome
    <3> QED
      BY <1>2, <3>1 DEF Edited, Outcomes, getInputField, e
  <2>3. CASE got.io.m_line_buffer # <<>>
    <3>1. PICK none : none = <<>>
      OBVIOUS
    <3>2. none \in Seq(Key) /\ Len(none) <= FieldLength
      BY <3>1, FieldAssumption
    <3>3. e.io = [got.io EXCEPT !.m_line_buffer = none] /\ e.result = "clear"
      BY <2>1, <2>3, <3>1 DEF Outcome
    <3>4. IOTypeOK(e.io) /\ e.io.m_line_buffer = none /\ ~e.io.m_is_new_getline
      BY <1>2, <3>2, <3>3, LineSet
    <3> QED
      BY <1>2, <2>3, <3>1, <3>3, <3>4 DEF Edited, Outcomes, getInputField, e
  <2> QED
    BY <2>2, <2>3
<1>8. CASE got.input \in {<<"BS">>, <<"DEL">>}
  <2>1. e = EraseLast(got.io)
    BY <1>3, <1>8
  <2> QED
    BY <1>2, <2>1, EraseLastEdits DEF getInputField, e
<1>9. CASE got.input \notin {<<>>, <<"LF">>, <<"ESC">>, <<"CTRL-Y">>, <<"BS">>, <<"DEL">>}
  <2>1. PICK k \in Key : got.input = <<k>>
    BY <1>2, <1>9
  <2>2. e = AddCharacter(got.io, k)
    <3>1. e = AddCharacter(got.io, got.input[1])
      BY <1>3, <1>9
    <3> QED
      BY <2>1, <3>1
  <2> QED
    BY <1>2, <2>2, AddCharacterEdits DEF getInputField, e
<1> QED
  BY <1>4, <1>5, <1>6, <1>7, <1>8, <1>9

PromptInv ==
    /\ asked \in Seq(Lines)
    /\ terminated \in BOOLEAN /\ cut \in BOOLEAN /\ abandoned \in BOOLEAN
    /\ IOTypeOK(io)
    /\ PromptShowsLine

LEMMA PromptInvInit ==
    ASSUME Init
    PROVE  PromptInv
<1>1. asked \in Seq(Lines)
  BY DEF Init
<1>2. IOTypeOK(io)
  BY NewIOTyped DEF Init
<1>3. PromptShowsLine
  BY NewIOTyped DEF Init, PromptShowsLine, LineOf
<1> QED
  BY <1>1, <1>2, <1>3 DEF Init, PromptInv

\* What Input does, e being what has happened to the line.
InputWith(e) ==
    LET sends == e.result = "enter" /\ e.io.m_line_buffer # <<>>
    IN  /\ io' = e.io
        /\ prompt' = IF sends THEN <<>> ELSE Echo(e.result)
        /\ abandoned' = IF sends THEN FALSE
                        ELSE \/ abandoned
                             \/ /\ e.io.m_is_new_getline /\ e.result = "wait"
                                /\ prompt # <<>>

LEMMA InputKeepsPrompt ==
    ASSUME PromptInv, NEW e, Edited(LineOf(io), e), InputWith(e)
    PROVE  abandoned' \in BOOLEAN /\ IOTypeOK(io)' /\ PromptShowsLine'
<1> DEFINE before == LineOf(io)
           after == e.io.m_line_buffer
           sends == e.result = "enter" /\ after # <<>>
<1>1. IOTypeOK(io)'
  BY DEF InputWith, Edited, IOTypeOK, IO
<1>2. abandoned' \in BOOLEAN
  BY DEF InputWith, PromptInv
<1>3. ~abandoned => prompt = before
  BY DEF PromptInv, PromptShowsLine, LineOf
<1>4. before \in Seq(Key)
  BY DEF PromptInv, IOTypeOK, IO, LineOf
<1>5. PromptShowsLine' = (abandoned' \/ prompt' = LineOf(e.io))
  BY DEF PromptShowsLine, InputWith, LineOf
<1> SUFFICES ASSUME ~abandoned' PROVE prompt' = LineOf(e.io)
  BY <1>1, <1>2, <1>5
<1>6. CASE sends
  BY <1>6 DEF InputWith, Edited, LineOf
<1>7. CASE ~sends
  <2>1. prompt = before /\ prompt' = Echo(e.result)
    BY <1>3, <1>7 DEF InputWith
  <2>2. CASE e.result = "empty"
    BY <2>1, <2>2 DEF Echo, Edited, LineOf
  <2>3. CASE e.result = "erase"
    <3>1. Echo(e.result) = Front(prompt)
      BY <2>3 DEF Echo
    <3> QED
      BY <2>1, <2>3, <3>1 DEF Edited, LineOf
  <2>4. CASE e.result = "clear"
    <3>1. Echo(e.result) = SubSeq(prompt, 1, Len(prompt) - Len(io.m_line_buffer))
      BY <2>4 DEF Echo
    <3>2. before # <<>> /\ LineOf(e.io) = <<>>
      BY <2>4 DEF Edited, LineOf
    <3>3. io.m_line_buffer = prompt
      BY <2>1, <3>2 DEF LineOf
    <3>4. Len(prompt) - Len(io.m_line_buffer) = 0
      BY <1>4, <2>1, <3>3
    <3>5. SubSeq(prompt, 1, 0) = <<>>
      BY <1>4, <2>1
    <3> QED
      BY <2>1, <3>1, <3>2, <3>4, <3>5
  <2>5. CASE e.result = "enter"
    <3>1. Echo(e.result) = prompt
      BY <2>5 DEF Echo
    <3>2. before = <<>> /\ LineOf(e.io) = <<>>
      BY <1>7, <2>5 DEF Edited, LineOf
    <3> QED
      BY <2>1, <3>1, <3>2
  <2>6. CASE e.result = "wait"
    <3>1. Echo(e.result) = prompt
      BY <2>6 DEF Echo
    <3>2. e.io.m_is_new_getline => prompt = <<>>
      BY <1>7, <2>6 DEF InputWith
    <3> QED
      BY <2>1, <2>6, <3>1, <3>2 DEF Edited, LineOf
  <2>7. CASE e.result \notin Outcomes
    <3>1. Echo(e.result) = Append(prompt, e.result)
      BY <2>7 DEF Echo, Outcomes
    <3> QED
      BY <2>1, <2>7, <3>1 DEF Edited, LineOf
  <2> QED
    BY <2>2, <2>3, <2>4, <2>5, <2>6, <2>7 DEF Outcomes
<1> QED
  BY <1>6, <1>7

LEMMA PromptInvStep ==
    ASSUME PromptInv, [Next]_ircVars
    PROVE  PromptInv'
<1> USE DEF PromptInv
<1>1. CASE Server
  <2>1. PICK line \in Lines : asked' = Append(asked, line)
    BY <1>1 DEF Server
  <2>2. asked' \in Seq(Lines)
    BY <2>1
  <2>3. UNCHANGED <<terminated, cut, io, prompt, abandoned>>
    BY <1>1 DEF Server, promptVars
  <2> QED
    BY <2>2, <2>3 DEF PromptShowsLine
<1>2. CASE Read
  <2>1. UNCHANGED <<asked, io, prompt, abandoned>>
    BY <1>2 DEF Read, promptVars
  <2>2. terminated' \in BOOLEAN /\ cut' \in BOOLEAN
    BY <1>2 DEF Read, handleLineRead
  <2> QED
    BY <2>1, <2>2 DEF PromptShowsLine
<1>3. CASE Input
  <2>1. PICK typed \in Inputs : InputWith(getInputField(io, typed))
    BY <1>3 DEF Input, InputWith
  <2>2. UNCHANGED <<asked, terminated, cut>>
    BY <1>3 DEF Input, lineVars
  <2>3. PICK e : e = getInputField(io, typed)
    OBVIOUS
  <2>4. Edited(LineOf(io), e) /\ InputWith(e)
    BY <2>1, <2>3, GetLineEdits
  <2>5. abandoned' \in BOOLEAN /\ IOTypeOK(io)' /\ PromptShowsLine'
    BY <2>4, InputKeepsPrompt
  <2> QED
    BY <2>2, <2>5
<1>4. CASE UNCHANGED ircVars
  BY <1>4 DEF ircVars, lineVars, promptVars, PromptShowsLine
<1> QED
  BY <1>1, <1>2, <1>3, <1>4 DEF Next

LEMMA PromptInvHolds == Spec => []PromptInv
<1>1. Init => PromptInv
  BY PromptInvInit
<1>2. PromptInv /\ [Next]_ircVars => PromptInv'
  BY PromptInvStep
<1> QED
  BY <1>1, <1>2, PTL DEF Spec

\* The state is of its type: a half of an escape sequence has at most eight
\* characters and the line fits the field, whatever is typed and in whatever
\* pieces it comes.
THEOREM TypeCorrect == Spec => []TypeOK
<1>1. PromptInv => TypeOK
  BY DEF PromptInv, IOTypeOK, TypeOK
<1> QED
  BY <1>1, PromptInvHolds, PTL

\* Whatever the user types and the server sends, the prompt shows what ENTER
\* would send, unless ESC has dropped a line that it shows.
THEOREM PromptIsTheLine == Spec => []PromptShowsLine
<1>1. PromptInv => PromptShowsLine
  BY DEF PromptInv
<1> QED
  BY <1>1, PromptInvHolds, PTL

-----------------------------------------------------------------------------
(* Tokens dropped.                                                         *)

Drop(gone) == [c \in Token |-> IF c \in gone THEN <<>> ELSE <<c>>]

LEMMA DropMaps ==
    ASSUME NEW gone
    PROVE  Maps(Drop(gone), Token, Seq(Token \ gone))
<1>1. ASSUME NEW c \in Token PROVE (IF c \in gone THEN <<>> ELSE <<c>>) \in Seq(Token \ gone)
  <2>1. <<>> \in Seq(Token \ gone)
    OBVIOUS
  <2>2. c \notin gone => <<c>> \in Seq(Token \ gone)
    OBVIOUS
  <2> QED
    BY <2>1, <2>2
<1> QED
  BY <1>1 DEF Maps, Drop

LEMMA WithoutIs ==
    ASSUME NEW gone, NEW data \in Seq(Token)
    PROVE  Without(gone, data) = FlatMap(Drop(gone), data)
<1>1. \A i \in DOMAIN data : data[i] \in Token
  OBVIOUS
<1>2. Image(Drop(gone), data) =
        [i \in DOMAIN data |-> IF data[i] \in gone THEN <<>> ELSE <<data[i]>>]
  BY <1>1 DEF Image, Drop
<1> QED
  BY <1>2 DEF Without, FlatMap

LEMMA WithoutType ==
    ASSUME NEW gone, NEW data \in Seq(Token)
    PROVE  Without(gone, data) \in Seq(Token \ gone) /\ Without(gone, data) \in Seq(Token)
<1>1. PICK w : w = Without(gone, data)
  OBVIOUS
<1>2. w \in Seq(Token \ gone)
  BY <1>1, WithoutIs, DropMaps, FlatMapType
<1>3. w \in Seq(Token)
  BY <1>2
<1> QED
  BY <1>1, <1>2, <1>3

LEMMA WithoutEmpty ==
    ASSUME NEW gone
    PROVE  Without(gone, <<>>) = <<>>
<1>1. PICK none : none = <<>>
  OBVIOUS
<1>2. none \in Seq(Token)
  BY <1>1
<1>3. Without(gone, none) = FlatMap(Drop(gone), none)
  BY <1>2, WithoutIs
<1>4. FlatMap(Drop(gone), <<>>) = <<>>
  BY DropMaps, FlatMapEmpty
<1> QED
  BY <1>1, <1>3, <1>4

LEMMA WithoutConcat ==
    ASSUME NEW gone, NEW a \in Seq(Token), NEW b \in Seq(Token)
    PROVE  Without(gone, a \o b) = Without(gone, a) \o Without(gone, b)
<1>1. PICK s : s = a \o b
  OBVIOUS
<1>2. s \in Seq(Token)
  BY <1>1
<1>3. /\ Without(gone, s) = FlatMap(Drop(gone), s)
      /\ Without(gone, a) = FlatMap(Drop(gone), a)
      /\ Without(gone, b) = FlatMap(Drop(gone), b)
  BY <1>2, WithoutIs
<1>4. FlatMap(Drop(gone), a \o b) = FlatMap(Drop(gone), a) \o FlatMap(Drop(gone), b)
  <2>1. PICK S : S = Token \ gone
    OBVIOUS
  <2>2. PICK f : f = Drop(gone)
    OBVIOUS
  <2>3. Maps(f, Token, Seq(S))
    BY <2>1, <2>2, DropMaps
  <2>4. FlatMap(f, a \o b) = FlatMap(f, a) \o FlatMap(f, b)
    BY <2>3, FlatMapConcat
  <2> QED
    BY <2>2, <2>4
<1> QED
  BY <1>1, <1>3, <1>4

LEMMA WithoutAppend ==
    ASSUME NEW gone, NEW a \in Seq(Token), NEW x \in Token
    PROVE  Without(gone, Append(a, x)) =
               IF x \in gone THEN Without(gone, a) ELSE Append(Without(gone, a), x)
<1>1. PICK s : s = Append(a, x)
  OBVIOUS
<1>2. s \in Seq(Token)
  BY <1>1
<1>3. PICK w : w = Without(gone, a)
  OBVIOUS
<1>4. w \in Seq(Token)
  BY <1>3, WithoutType
<1>5. /\ Without(gone, s) = FlatMap(Drop(gone), s)
      /\ Without(gone, a) = FlatMap(Drop(gone), a)
  BY <1>2, WithoutIs
<1>6. FlatMap(Drop(gone), Append(a, x)) = FlatMap(Drop(gone), a) \o Drop(gone)[x]
  <2>1. PICK S : S = Token \ gone
    OBVIOUS
  <2>2. PICK f : f = Drop(gone)
    OBVIOUS
  <2>3. Maps(f, Token, Seq(S))
    BY <2>1, <2>2, DropMaps
  <2>4. FlatMap(f, Append(a, x)) = FlatMap(f, a) \o f[x]
    BY <2>3, FlatMapAppend
  <2> QED
    BY <2>2, <2>4
<1>7. Without(gone, s) = w \o Drop(gone)[x]
  BY <1>1, <1>3, <1>5, <1>6
<1>8. CASE x \in gone
  <2>1. Drop(gone)[x] = <<>>
    BY <1>8 DEF Drop
  <2>2. w \o <<>> = w
    BY <1>4, ConcatEmpty
  <2> QED
    BY <1>1, <1>3, <1>7, <1>8, <2>1, <2>2
<1>9. CASE x \notin gone
  <2>1. Drop(gone)[x] = <<x>>
    BY <1>9 DEF Drop
  <2>2. w \o <<x>> = Append(w, x)
    BY <1>4, ConcatOne
  <2> QED
    BY <1>1, <1>3, <1>7, <1>9, <2>1, <2>2
<1> QED
  BY <1>8, <1>9

(* What has none of them stays as it is.                                   *)
LEMMA WithoutNone ==
    ASSUME NEW gone, NEW data \in Seq(Token \ gone)
    PROVE  Without(gone, data) = data
<1> DEFINE T == {d \in Seq(Token \ gone) : Without(gone, d) = d}
<1>1. <<>> \in T
  BY WithoutEmpty
<1>2. ASSUME NEW s \in Seq(Token \ gone), NEW x \in Token \ gone, s \in T
      PROVE  Append(s, x) \in T
  <2>1. s \in Seq(Token) /\ x \in Token /\ x \notin gone
    OBVIOUS
  <2>2. Without(gone, Append(s, x)) = Append(Without(gone, s), x)
    BY <2>1, WithoutAppend
  <2>3. Append(s, x) \in Seq(Token \ gone)
    OBVIOUS
  <2> QED
    BY <1>2, <2>2, <2>3
<1> HIDE DEF T
<1>3. Seq(Token \ gone) \subseteq T
  BY <1>1, <1>2, SeqSet
<1> QED
  BY <1>3 DEF T

(* The ends of a read's LFs do not count for what is lost.                 *)
LEMMA NoEndsOfNoLF ==
    ASSUME NEW data \in Seq(Token)
    PROVE  NoEnds(NoLF(data)) = NoEnds(data)
<1> DEFINE T == {d \in Seq(Token) : NoEnds(NoLF(d)) = NoEnds(d)}
<1>1. <<>> \in T
  BY WithoutEmpty DEF NoEnds, NoLF
<1>2. ASSUME NEW s \in Seq(Token), NEW x \in Token, s \in T
      PROVE  Append(s, x) \in T
  <2>1. PICK w : w = NoLF(s)
    OBVIOUS
  <2>2. w \in Seq(Token) /\ NoEnds(w) = NoEnds(s)
    BY <1>2, <2>1, WithoutType DEF NoLF
  <2>3. NoLF(Append(s, x)) = IF x \in {"LF"} THEN w ELSE Append(w, x)
    BY <2>1, WithoutAppend DEF NoLF
  <2>4. /\ NoEnds(Append(s, x)) =
             IF x \in {"CR", "LF"} THEN NoEnds(s) ELSE Append(NoEnds(s), x)
        /\ NoEnds(Append(w, x)) =
             IF x \in {"CR", "LF"} THEN NoEnds(w) ELSE Append(NoEnds(w), x)
    BY <2>2, WithoutAppend DEF NoEnds
  <2>5. NoEnds(NoLF(Append(s, x))) = NoEnds(Append(s, x))
    BY <2>2, <2>3, <2>4
  <2>6. Append(s, x) \in Seq(Token)
    OBVIOUS
  <2> QED
    BY <2>5, <2>6
<1> HIDE DEF T
<1>3. Seq(Token) \subseteq T
  BY <1>1, <1>2, SeqSet
<1> QED
  BY <1>3 DEF T

(* Without an LF, the ends are the CRs.                                    *)
LEMMA NoEndsIsNoCR ==
    ASSUME NEW data \in Seq(Token \ {"LF"})
    PROVE  NoEnds(data) = Without({"CR"}, data)
<1>1. \A i \in DOMAIN data : data[i] \in {"CR", "LF"} <=> data[i] \in {"CR"}
  OBVIOUS
<1>2. [i \in DOMAIN data |-> IF data[i] \in {"CR", "LF"} THEN <<>> ELSE <<data[i]>>]
       = [i \in DOMAIN data |-> IF data[i] \in {"CR"} THEN <<>> ELSE <<data[i]>>]
  BY <1>1
<1> QED
  BY <1>2 DEF NoEnds, Without

-----------------------------------------------------------------------------
(* SplitAll, one token at a time.                                          *)

SplitAdd(lines, c) ==
    IF c = "CR" THEN Append(lines, <<>>) ELSE Append(Front(lines), Append(Last(lines), c))
Pieces == Seq(Seq(Token)) \ {<<>>}

\* The values SplitAll goes through.
SplitRun(v, data) ==
    /\ v[0] = <<<<>>>>
    /\ \A i \in 1 .. Len(data) : v[i] = SplitAdd(v[i - 1], data[i])

LEMMA NotEmptyAppended ==
    ASSUME NEW S, NEW s \in Seq(S), NEW x \in S
    PROVE  Append(s, x) \in Seq(S) /\ Append(s, x) # <<>>
<1>1. PICK t : t = Append(s, x)
  OBVIOUS
<1>2. t \in Seq(S) /\ Len(t) = Len(s) + 1 /\ Len(s) \in Nat
  BY <1>1
<1>3. t # <<>>
  BY <1>2
<1> QED
  BY <1>1, <1>2, <1>3

LEMMA SplitAddType ==
    ASSUME NEW lines \in Pieces, NEW c \in Token
    PROVE  SplitAdd(lines, c) \in Pieces
<1>1. lines \in Seq(Seq(Token)) /\ lines # <<>>
  BY DEF Pieces
<1>2. CASE c = "CR"
  <2>1. PICK none : none = <<>>
    OBVIOUS
  <2>2. none \in Seq(Token)
    BY <2>1
  <2>3. Append(lines, none) \in Pieces
    BY <1>1, <2>2, NotEmptyAppended DEF Pieces
  <2> QED
    BY <1>2, <2>1, <2>3 DEF SplitAdd
<1>3. CASE c # "CR"
  <2>1. PICK f : f = Front(lines)
    OBVIOUS
  <2>2. PICK l : l = Last(lines)
    OBVIOUS
  <2>3. f \in Seq(Seq(Token)) /\ l \in Seq(Token)
    BY <1>1, <2>1, <2>2, FrontLast
  <2>4. PICK m : m = Append(l, c)
    OBVIOUS
  <2>5. m \in Seq(Token)
    BY <2>3, <2>4
  <2>6. Append(f, m) \in Pieces
    BY <2>3, <2>5, NotEmptyAppended DEF Pieces
  <2> QED
    BY <1>3, <2>1, <2>2, <2>4, <2>6 DEF SplitAdd
<1> QED
  BY <1>2, <1>3

LEMMA SplitRuns ==
    ASSUME NEW data \in Seq(Token)
    PROVE  \E v : /\ SplitRun(v, data) /\ SplitAll(data) = v[Len(data)]
                  /\ \A i \in 0 .. Len(data) : v[i] \in Pieces
<1> DEFINE n == Len(data)
           Eq(it) == it = [t \in SUBSET (1 .. n) |->
                             IF t = {} THEN <<<<>>>>
                             ELSE SplitAdd(it[t \ {Max(t)}], data[Max(t)])]
           g == CHOOSE it : Eq(it)
           S == Pieces
           F == [p \in S \X (1 .. n) |-> SplitAdd(p[1], data[p[2]])]
           base == <<<<>>>>
<1>1. n \in Nat /\ DOMAIN data = 1 .. n /\ \A i \in 1 .. n : data[i] \in Token
  OBVIOUS
<1>2. SplitAll(data) = g[1 .. n]
  BY <1>1 DEF SplitAll, FoldLeft, MapThenFoldSet, SplitAdd
<1>3. F \in [S \X (1 .. n) -> S] /\ base \in S
  <2>1. ASSUME NEW p \in S \X (1 .. n) PROVE SplitAdd(p[1], data[p[2]]) \in S
    <3>1. p[1] \in S /\ data[p[2]] \in Token
      BY <1>1
    <3> HIDE DEF n
    <3> QED
      BY <3>1, SplitAddType
  <2>2. base \in S
    <3>1. <<>> \in Seq(Token) /\ <<<<>>>> # <<>>
      OBVIOUS
    <3>2. <<<<>>>> \in Seq(Seq(Token))
      BY <3>1
    <3> QED
      BY <3>1, <3>2 DEF Pieces
  <2> QED
    BY <2>1, <2>2
<1>4. \E it : Eq(it)
  <2> HIDE DEF F, S, n, base
  <2>1. PICK it \in [SUBSET (1 .. n) -> S] : FoldsUpTo(it, n, base, F)
    BY <1>1, <1>3, FoldExists DEF FoldableTo
  <2>2. ASSUME NEW t \in SUBSET (1 .. n)
        PROVE  it[t] = IF t = {} THEN base ELSE SplitAdd(it[t \ {Max(t)}], data[Max(t)])
    <3>1. CASE t = {}
      BY <2>1, <3>1 DEF FoldsUpTo
    <3>2. CASE t # {}
      <4>1. Max(t) \in t
        BY <1>1, <3>2, MaxOfSet
      <4>2. it[t] = F[<<it[t \ {Max(t)}], Max(t)>>]
        BY <2>1, <3>2 DEF FoldsUpTo
      <4>3. it[t \ {Max(t)}] \in S /\ Max(t) \in 1 .. n
        BY <2>1, <4>1
      <4> DEFINE r == it[t \ {Max(t)}]
                 m == Max(t)
      <4> HIDE DEF r, m
      <4>4. <<r, m>> \in S \X (1 .. n)
        BY <4>3 DEF r, m
      <4>5. F[<<r, m>>] = SplitAdd(r, data[m])
        BY <4>4 DEF F
      <4> QED
        BY <3>2, <4>2, <4>5 DEF r, m
    <3> QED
      BY <3>1, <3>2
  <2>3. Eq(it)
    BY <2>1, <2>2 DEF base
  <2> QED
    BY <2>3
<1>5. Eq(g)
  <2> HIDE DEF Eq
  <2> QED
    BY <1>4
<1>6. ASSUME NEW t \in SUBSET (1 .. n)
      PROVE  g[t] = IF t = {} THEN base ELSE SplitAdd(g[t \ {Max(t)}], data[Max(t)])
  <2> HIDE DEF g, n
  <2> QED
    BY <1>5
<1> HIDE DEF g, F, S, base
<1>7. g[1 .. 0] = base
  <2>1. 1 .. 0 = {} /\ {} \in SUBSET (1 .. n)
    OBVIOUS
  <2> HIDE DEF n
  <2>2. g[{}] = base
    BY <1>6, <2>1
  <2> QED
    BY <2>1, <2>2
<1>8. ASSUME NEW i \in Nat, i + 1 <= n
      PROVE  g[1 .. i + 1] = SplitAdd(g[1 .. i], data[i + 1])
  <2> DEFINE t == 1 .. i + 1
  <2>1. t \in SUBSET (1 .. n) /\ t # {} /\ i + 1 \in t /\ t \ {i + 1} = 1 .. i
    <3>1. i + 1 <= n /\ n \in Nat /\ i \in Nat
      BY <1>1, <1>8
    <3> HIDE DEF n
    <3>2. t \in SUBSET (1 .. n)
      BY <3>1
    <3>3. i + 1 \in t /\ t \ {i + 1} = 1 .. i
      BY <3>1
    <3> QED
      BY <3>2, <3>3
  <2>2. Max(t) = i + 1
    <3>1. i + 1 \in Nat /\ t \in SUBSET (1 .. i + 1) /\ \A j \in t : j <= i + 1
      OBVIOUS
    <3> HIDE DEF t
    <3> QED
      BY <2>1, <3>1, MaxIs
  <2> HIDE DEF t, n
  <2>3. g[t] = SplitAdd(g[t \ {Max(t)}], data[Max(t)])
    BY <1>6, <2>1
  <2>4. t \ {Max(t)} = 1 .. i
    BY <2>1, <2>2
  <2> QED
    BY <2>2, <2>3, <2>4 DEF t
<1> DEFINE T == {i \in Nat : i <= n => g[1 .. i] \in S}
<1>9. 0 \in T
  BY <1>3, <1>7
<1>10. ASSUME NEW i \in Nat, i \in T PROVE i + 1 \in T
  <2> SUFFICES ASSUME i + 1 <= n PROVE g[1 .. i + 1] \in S
    OBVIOUS
  <2>1. g[1 .. i] \in S /\ data[i + 1] \in Token
    BY <1>1, <1>10
  <2>2. SplitAdd(g[1 .. i], data[i + 1]) \in S
    BY <2>1, SplitAddType DEF S
  <2> QED
    BY <1>8, <2>2
<1> HIDE DEF T
<1>11. Nat \subseteq T
  BY <1>9, <1>10, NatSet
<1> DEFINE v == [i \in 0 .. n |-> g[1 .. i]]
<1>12. \A i \in 0 .. n : v[i] = g[1 .. i] /\ v[i] \in S
  <2> HIDE DEF n
  <2> QED
    BY <1>1, <1>11 DEF T
<1>13. v[0] = base
  BY <1>1, <1>7, <1>12
<1>14. ASSUME NEW i \in 1 .. n PROVE v[i] = SplitAdd(v[i - 1], data[i])
  <2>1. i - 1 \in Nat /\ (i - 1) + 1 = i /\ i <= n /\ i \in 0 .. n /\ i - 1 \in 0 .. n
    BY <1>1
  <2> HIDE DEF n, v
  <2>2. g[1 .. i] = SplitAdd(g[1 .. i - 1], data[i])
    BY <1>8, <2>1
  <2> QED
    BY <1>12, <2>1, <2>2
<1>15. SplitAll(data) = v[n]
  BY <1>1, <1>2, <1>12
<1> HIDE DEF v
<1>16. SplitRun(v, data)
  BY <1>13, <1>14 DEF SplitRun, base
<1> QED
  BY <1>12, <1>15, <1>16 DEF S

(* A run on the front of the data is the front of the run.                 *)
LEMMA SplitRunOnce ==
    ASSUME NEW data \in Seq(Token), NEW c \in Token, NEW v, SplitRun(v, data),
           NEW w, SplitRun(w, Append(data, c))
    PROVE  w[Len(data) + 1] = SplitAdd(v[Len(data)], c)
<1> DEFINE n == Len(data)
           T == {i \in Nat : i <= n => w[i] = v[i]}
<1>1. PICK more : more = Append(data, c)
  OBVIOUS
<1>2. n \in Nat /\ Len(more) = n + 1 /\ (\A i \in 1 .. n : more[i] = data[i]) /\ more[n + 1] = c
  BY <1>1
<1>3. SplitRun(w, more)
  BY <1>1
<1> HIDE DEF n
<1>4. /\ w[0] = <<<<>>>> /\ v[0] = <<<<>>>>
      /\ \A i \in 1 .. n + 1 : w[i] = SplitAdd(w[i - 1], more[i])
      /\ \A i \in 1 .. n : v[i] = SplitAdd(v[i - 1], data[i])
  BY <1>2, <1>3 DEF SplitRun, n
<1>5. 0 \in T
  BY <1>4
<1>6. ASSUME NEW i \in Nat, i \in T PROVE i + 1 \in T
  <2> SUFFICES ASSUME i + 1 <= n PROVE w[i + 1] = v[i + 1]
    OBVIOUS
  <2>1. i + 1 \in 1 .. n /\ i + 1 \in 1 .. n + 1 /\ (i + 1) - 1 = i /\ w[i] = v[i]
    BY <1>2, <1>6
  <2>2. more[i + 1] = data[i + 1]
    BY <1>2, <2>1
  <2>3. w[i + 1] = SplitAdd(w[i], more[i + 1]) /\ v[i + 1] = SplitAdd(v[i], data[i + 1])
    BY <1>4, <2>1
  <2> QED
    BY <2>1, <2>2, <2>3
<1> HIDE DEF T
<1>7. n \in T
  BY <1>2, <1>5, <1>6, NatSet
<1>8. w[n] = v[n]
  BY <1>2, <1>7 DEF T
<1>9. w[n + 1] = SplitAdd(w[n], more[n + 1])
  <2>1. n + 1 \in 1 .. n + 1 /\ (n + 1) - 1 = n
    BY <1>2
  <2> QED
    BY <1>4, <2>1
<1> QED
  BY <1>2, <1>8, <1>9 DEF n

LEMMA SplitAllType ==
    ASSUME NEW data \in Seq(Token)
    PROVE  SplitAll(data) \in Pieces
<1>1. PICK v : /\ SplitAll(data) = v[Len(data)]
               /\ \A i \in 0 .. Len(data) : v[i] \in Pieces
  BY SplitRuns
<1>2. Len(data) \in 0 .. Len(data)
  OBVIOUS
<1> QED
  BY <1>1, <1>2

LEMMA SplitAllEmpty == SplitAll(<<>>) = <<<<>>>>
<1>1. PICK none : none = <<>>
  OBVIOUS
<1>2. none \in Seq(Token) /\ Len(none) = 0
  BY <1>1
<1>3. PICK v : SplitRun(v, none) /\ SplitAll(none) = v[Len(none)]
  BY <1>2, SplitRuns
<1> QED
  BY <1>1, <1>2, <1>3 DEF SplitRun

LEMMA SplitAllAppend ==
    ASSUME NEW data \in Seq(Token), NEW c \in Token
    PROVE  SplitAll(Append(data, c)) = SplitAdd(SplitAll(data), c)
<1>1. PICK more : more = Append(data, c)
  OBVIOUS
<1>2. more \in Seq(Token) /\ Len(more) = Len(data) + 1
  BY <1>1
<1>3. PICK v : SplitRun(v, data) /\ SplitAll(data) = v[Len(data)]
  BY SplitRuns
<1>4. PICK w : SplitRun(w, more) /\ SplitAll(more) = w[Len(more)]
  BY <1>2, SplitRuns
<1>5. SplitRun(w, Append(data, c))
  BY <1>1, <1>4
<1>6. w[Len(data) + 1] = SplitAdd(v[Len(data)], c)
  BY <1>3, <1>5, SplitRunOnce
<1> QED
  BY <1>1, <1>2, <1>3, <1>4, <1>6

(* What is taken apart, put together again, is what it was but for the CRs. *)
LEMMA SplitAllFlat ==
    ASSUME NEW data \in Seq(Token)
    PROVE  Flat(SplitAll(data)) = Without({"CR"}, data)
<1> DEFINE T == {d \in Seq(Token) : Flat(SplitAll(d)) = Without({"CR"}, d)}
<1>1. <<>> \in T
  <2>1. PICK none : none = <<>>
    OBVIOUS
  <2>2. none \in Seq(Token)
    BY <2>1
  <2>3. FlattenSeq(<<none>>) = none
    BY <2>2, FlattenOne
  <2> QED
    BY <2>1, <2>2, <2>3, SplitAllEmpty, WithoutEmpty DEF Flat
<1>2. ASSUME NEW s \in Seq(Token), NEW c \in Token, s \in T
      PROVE  Append(s, c) \in T
  <2>1. PICK lines : lines = SplitAll(s)
    OBVIOUS
  <2>2. lines \in Seq(Seq(Token)) /\ lines # <<>>
    BY <2>1, SplitAllType DEF Pieces
  <2>3. SplitAll(Append(s, c)) = SplitAdd(lines, c)
    BY <2>1, SplitAllAppend
  <2>4. PICK whole : whole = FlattenSeq(lines)
    OBVIOUS
  <2>5. whole \in Seq(Token) /\ whole = Without({"CR"}, s)
    BY <1>2, <2>1, <2>2, <2>4, FlattenType DEF Flat
  <2>6. Without({"CR"}, Append(s, c)) = IF c \in {"CR"} THEN whole ELSE Append(whole, c)
    BY <2>5, WithoutAppend
  <2>7. CASE c = "CR"
    <3>1. PICK none : none = <<>>
      OBVIOUS
    <3>2. none \in Seq(Token)
      BY <3>1
    <3>3. FlattenSeq(Append(lines, none)) = whole \o none
      BY <2>2, <2>4, <3>2, FlattenAppend
    <3>4. whole \o none = whole
      BY <2>5, <3>1, ConcatEmpty
    <3>5. SplitAdd(lines, c) = Append(lines, none)
      BY <2>7, <3>1 DEF SplitAdd
    <3>6. Flat(SplitAll(Append(s, c))) = whole
      BY <2>3, <3>3, <3>4, <3>5 DEF Flat
    <3>7. Append(s, c) \in Seq(Token)
      OBVIOUS
    <3> QED
      BY <2>6, <2>7, <3>6, <3>7
  <2>8. CASE c # "CR"
    <3>1. PICK f : f = Front(lines)
      OBVIOUS
    <3>2. PICK l : l = Last(lines)
      OBVIOUS
    <3>3. f \in Seq(Seq(Token)) /\ l \in Seq(Token) /\ lines = Append(f, l)
      BY <2>2, <3>1, <3>2, FrontLast
    <3>4. PICK m : m = Append(l, c)
      OBVIOUS
    <3>5. m \in Seq(Token)
      BY <3>3, <3>4
    <3>6. PICK before : before = FlattenSeq(f)
      OBVIOUS
    <3>7. before \in Seq(Token)
      BY <3>3, <3>6, FlattenType
    <3>8. FlattenSeq(Append(f, m)) = before \o m /\ FlattenSeq(Append(f, l)) = before \o l
      BY <3>3, <3>5, <3>6, FlattenAppend
    <3>9. before \o m = Append(before \o l, c)
      BY ONLY <3>3, <3>4, <3>7, c \in Token
    <3>10. SplitAdd(lines, c) = Append(f, m)
      BY <2>8, <3>1, <3>2, <3>4 DEF SplitAdd
    <3>11. Flat(SplitAll(Append(s, c))) = Append(whole, c)
      BY <2>3, <2>4, <3>3, <3>8, <3>9, <3>10 DEF Flat
    <3>12. Append(s, c) \in Seq(Token)
      OBVIOUS
    <3> QED
      BY <2>6, <2>8, <3>11, <3>12
  <2> QED
    BY <2>7, <2>8
<1> HIDE DEF T
<1>3. Seq(Token) \subseteq T
  BY <1>1, <1>2, SeqSet
<1> QED
  BY <1>3 DEF T

LEMMA SplitType ==
    ASSUME NEW data \in Seq(Token)
    PROVE  Split(data) \in Seq(Seq(Token))
<1>1. SplitAll(data) \in Seq(Seq(Token)) /\ SplitAll(data) # <<>>
  BY SplitAllType DEF Pieces
<1>2. Front(SplitAll(data)) \in Seq(Seq(Token))
  BY <1>1, FrontLast
<1> QED
  BY <1>1, <1>2 DEF Split

LEMMA SplitFlat ==
    ASSUME NEW data \in Seq(Token \ {"LF"})
    PROVE  Flat(Split(data)) = NoEnds(data)
<1>1. data \in Seq(Token)
  OBVIOUS
<1>2. PICK all : all = SplitAll(data)
  OBVIOUS
<1>3. all \in Seq(Seq(Token)) /\ all # <<>>
  BY <1>1, <1>2, SplitAllType DEF Pieces
<1>4. Flat(all) = NoEnds(data)
  BY <1>1, <1>2, SplitAllFlat, NoEndsIsNoCR
<1>5. CASE Last(all) = <<>>
  <2>1. PICK f : f = Front(all)
    OBVIOUS
  <2>2. PICK none : none = Last(all)
    OBVIOUS
  <2>3. f \in Seq(Seq(Token)) /\ none \in Seq(Token) /\ all = Append(f, none)
    BY <1>3, <2>1, <2>2, FrontLast
  <2>4. FlattenSeq(Append(f, none)) = FlattenSeq(f) \o none
    BY <2>3, FlattenAppend
  <2>5. FlattenSeq(f) \o <<>> = FlattenSeq(f)
    <3>1. PICK before : before = FlattenSeq(f)
      OBVIOUS
    <3>2. before \in Seq(Token)
      BY <2>3, <3>1, FlattenType
    <3> QED
      BY <3>1, <3>2, ConcatEmpty
  <2>6. Split(data) = f
    BY <1>2, <1>5, <2>1 DEF Split
  <2> QED
    BY <1>4, <1>5, <2>2, <2>3, <2>4, <2>5, <2>6 DEF Flat
<1>6. CASE Last(all) # <<>>
  BY <1>2, <1>4, <1>6 DEF Split
<1> QED
  BY <1>5, <1>6

-----------------------------------------------------------------------------
(* PING and PONG.                                                          *)

\* The answer to a line: its key, or none.
Answer == [line \in Seq(Token) |-> IF IsPing(line) THEN <<PongKey(line)>> ELSE <<>>]
Keys == {PongKey(line) : line \in Seq(Token)}

LEMMA AnswerMaps == Maps(Answer, Seq(Token), Seq(Keys))
<1>1. ASSUME NEW line \in Seq(Token)
      PROVE  (IF IsPing(line) THEN <<PongKey(line)>> ELSE <<>>) \in Seq(Keys)
  <2>1. PICK key : key = PongKey(line)
    OBVIOUS
  <2>2. key \in Keys
    BY <2>1 DEF Keys
  <2>3. <<key>> \in Seq(Keys) /\ <<>> \in Seq(Keys)
    BY <2>2
  <2> QED
    BY <2>1, <2>3
<1> QED
  BY <1>1 DEF Maps, Answer

LEMMA PongsAre ==
    ASSUME NEW lines \in Seq(Seq(Token)), \A i \in DOMAIN lines : ~TooShort(lines[i])
    PROVE  Pongs(lines) = FlatMap(Answer, lines)
<1>1. \A i \in DOMAIN lines : lines[i] \in Seq(Token)
  OBVIOUS
<1>2. Image(Answer, lines) =
        [i \in DOMAIN lines |->
            IF IsPing(lines[i]) /\ ~TooShort(lines[i]) THEN <<PongKey(lines[i])>> ELSE <<>>]
  BY <1>1 DEF Image, Answer
<1> QED
  BY <1>2 DEF Pongs, FlatMap

LEMMA AnswersAre ==
    ASSUME NEW lines \in Seq(Seq(Token))
    PROVE  FlatMap(Answer, lines) =
             FlattenSeq([i \in DOMAIN lines |->
                 IF lines[i] # <<>> /\ lines[i][1] = "PING"
                 THEN <<SubSeq(lines[i], 3, Len(lines[i]))>> ELSE <<>>])
<1>1. \A i \in DOMAIN lines : lines[i] \in Seq(Token)
  OBVIOUS
<1>2. Image(Answer, lines) =
        [i \in DOMAIN lines |->
            IF lines[i] # <<>> /\ lines[i][1] = "PING"
            THEN <<SubSeq(lines[i], 3, Len(lines[i]))>> ELSE <<>>]
  BY <1>1 DEF Image, Answer, IsPing, PongKey
<1> QED
  BY <1>2 DEF FlatMap

LEMMA AnswersConcat ==
    ASSUME NEW a \in Seq(Seq(Token)), NEW b \in Seq(Seq(Token))
    PROVE  FlatMap(Answer, a \o b) = FlatMap(Answer, a) \o FlatMap(Answer, b)
<1>1. PICK A : A = Seq(Token)
  OBVIOUS
<1>2. Maps(Answer, A, Seq(Keys)) /\ a \in Seq(A) /\ b \in Seq(A)
  BY <1>1, AnswerMaps
<1> QED
  BY <1>2, FlatMapConcat

-----------------------------------------------------------------------------
(* One call of handleLineRead.                                             *)

\* Where a line throws, it is the last one of the call.
LEMMA UntilThrowIs ==
    ASSUME NEW lines \in Seq(Seq(Token))
    PROVE  /\ \/ /\ UntilThrow(lines) = lines
                 /\ \A i \in DOMAIN lines : ~TooShort(lines[i])
              \/ \E i \in DOMAIN UntilThrow(lines) : TooShort(UntilThrow(lines)[i])
           /\ UntilThrow(lines) \in Seq(Seq(Token))
           /\ IsPrefix(UntilThrow(lines), lines)
<1> DEFINE bad == {i \in DOMAIN lines : TooShort(lines[i])}
           m == CHOOSE i \in bad : \A j \in bad : i <= j
<1>1. Len(lines) \in Nat /\ DOMAIN lines = 1 .. Len(lines)
  OBVIOUS
<1>2. CASE bad = {}
  <2>1. UntilThrow(lines) = lines
    BY <1>2 DEF UntilThrow
  <2>2. IsPrefix(lines, lines)
    BY DEF IsPrefix
  <2> QED
    BY <1>2, <2>1, <2>2
<1>3. CASE bad # {}
  <2>1. bad \in SUBSET Nat
    BY <1>1
  <2> HIDE DEF bad
  <2>2. m \in bad
    BY <1>3, <2>1, LeastOf
  <2>3. UntilThrow(lines) = SubSeq(lines, 1, m)
    BY <1>3 DEF UntilThrow, bad
  <2> HIDE DEF m
  <2>4. m \in 1 .. Len(lines) /\ TooShort(lines[m])
    BY <1>1, <2>2 DEF bad
  <2>5. PICK s : s = SubSeq(lines, 1, m)
    OBVIOUS
  <2>6. s \in Seq(Seq(Token)) /\ Len(s) = m
    BY <1>1, <2>4, <2>5
  <2>7. m \in DOMAIN s /\ s[m] = lines[m]
    BY <1>1, <2>4, <2>5, <2>6
  <2>8. IsPrefix(s, lines)
    <3>1. Len(s) <= Len(lines)
      BY <1>1, <2>4, <2>6
    <3>2. SubSeq(s, 1, Len(s)) = s
      BY <2>6
    <3> QED
      BY <2>5, <2>6, <3>1, <3>2 DEF IsPrefix
  <2> QED
    BY <2>3, <2>4, <2>5, <2>6, <2>7, <2>8
<1> QED
  BY <1>2, <1>3

\* A name for ConcatAssoc's equation keeps it easy to instantiate.
JoinedInAnyOrder(a, b, c) == (a \o b) \o c = a \o (b \o c)

LEMMA TokensJoin ==
    ASSUME NEW a \in Seq(Token), NEW b \in Seq(Token), NEW c \in Seq(Token)
    PROVE  JoinedInAnyOrder(a, b, c)
BY ConcatAssoc DEF JoinedInAnyOrder

LEMMA LineTyped ==
    ASSUME NEW line \in Lines
    PROVE  /\ line \in Seq(Token \ {"CR", "LF"}) /\ line \in Seq(Token)
           /\ "CR" \in Token /\ "LF" \in Token
<1>1. line \in Seq(Token \ {"CR", "LF"})
  BY IrcAssumption
<1>2. line \in Seq(Token)
  BY <1>1
<1>3. "CR" \in Token /\ "LF" \in Token
  BY DEF Token
<1> QED
  BY <1>1, <1>2, <1>3

\* What handleLineRead takes from data without LFs, and what it keeps.
Taken(data, taken) ==
    /\ taken.process \in Seq(Token \ {"LF"}) /\ taken.keep \in Seq(Token \ {"LF"})
    /\ taken.process \o taken.keep = m_incoming_buffer \o data
    /\ data = <<>> \/ data[1] # "CR" =>
          taken.process = m_incoming_buffer \o data /\ taken.keep = <<>>

LEMMA TakeIs ==
    ASSUME m_incoming_buffer \in Seq(Token \ {"LF"}), NEW data \in Seq(Token \ {"LF"})
    PROVE  Taken(data, Take(data))
<1> DEFINE S == Token \ {"LF"}
           buffer == m_incoming_buffer
<1>1. buffer \in Seq(S) /\ data \in Seq(S)
  OBVIOUS
<1> HIDE DEF S, buffer
<1>2. PICK joined : joined = buffer \o data
  OBVIOUS
<1>3. joined \in Seq(S)
  BY <1>1, <1>2
<1>4. PICK none : none = <<>>
  OBVIOUS
<1>5. none \in Seq(S) /\ joined \o none = joined
  BY <1>3, <1>4, ConcatEmpty
<1>6. CASE data # <<>> /\ data[1] = "CR"
  <2>1. Take(data).process = buffer /\ Take(data).keep = data
    BY <1>6 DEF Take, buffer
  <2> QED
    BY <1>1, <1>6, <2>1 DEF Taken, S, buffer
<1>7. CASE ~(data # <<>> /\ data[1] = "CR")
  <2>1. Take(data).process = joined /\ Take(data).keep = none
    BY <1>2, <1>4, <1>7 DEF Take, buffer
  <2> QED
    BY <1>2, <1>3, <1>4, <1>5, <1>7, <2>1 DEF Taken, S, buffer
<1> QED
  BY <1>6, <1>7

\* What has been said, wherever it is now, and what has been answered.
LinesInv ==
    /\ asked \in Seq(Lines)
    /\ net \in Seq(Token)
    /\ m_incoming_buffer \in Seq(Token \ {"LF"})
    /\ handled \in Seq(Seq(Token))
    /\ NothingIsLost
    /\ ~terminated => answers = FlatMap(Answer, handled)

LEMMA LinesInvInit ==
    ASSUME Init
    PROVE  LinesInv
<1>1. PICK none : none = <<>>
  OBVIOUS
<1>2. none \in Seq(Token) /\ none \in Seq(Seq(Token)) /\ none \in Seq(Lines)
      /\ none \in Seq(Token \ {"LF"})
  BY <1>1
<1>3. asked = none /\ net = none /\ m_incoming_buffer = none /\ handled = none /\ answers = none
  BY <1>1 DEF Init
<1>4. none \o none = none
  BY <1>1, <1>2, ConcatEmpty
<1>5. Flat(none) = none /\ NoEnds(none) = none
  BY <1>1, FlattenEmpty, WithoutEmpty DEF Flat, NoEnds
<1>6. NothingIsLost
  BY <1>3, <1>4, <1>5 DEF NothingIsLost
<1>7. FlatMap(Answer, none) = none
  BY <1>1, AnswerMaps, FlatMapEmpty
<1> QED
  BY <1>2, <1>3, <1>6, <1>7 DEF LinesInv

LEMMA LinesInvServer ==
    ASSUME LinesInv, Server
    PROVE  LinesInv'
<1> USE DEF LinesInv
<1>1. PICK line \in Lines :
        /\ ~terminated /\ net' = net \o line \o <<"CR", "LF">> /\ asked' = Append(asked, line)
        /\ UNCHANGED <<m_incoming_buffer, handled, answers, terminated>>
  BY DEF Server
<1>2. /\ line \in Seq(Token \ {"CR", "LF"}) /\ line \in Seq(Token)
      /\ "CR" \in Token /\ "LF" \in Token
  BY LineTyped
<1>3. PICK ends : ends = <<"CR", "LF">>
  OBVIOUS
<1>4. PICK x : x = net \o line
  OBVIOUS
<1>5. ends \in Seq(Token) /\ x \in Seq(Token) /\ net' = x \o ends
  BY <1>1, <1>2, <1>3, <1>4
<1>6. net' \in Seq(Token) /\ asked' \in Seq(Lines)
  <2>1. net' \in Seq(Token)
    BY ONLY <1>5
  <2>2. asked' \in Seq(Lines)
    BY ONLY <1>1, asked \in Seq(Lines)
  <2> QED
    BY <2>1, <2>2
<1>7. NoEnds(net') = NoEnds(net) \o line
  <2>1. NoEnds(net') = NoEnds(x) \o NoEnds(ends) /\ NoEnds(x) = NoEnds(net) \o NoEnds(line)
    BY <1>2, <1>4, <1>5, WithoutConcat DEF NoEnds
  <2>2. NoEnds(line) = line
    BY <1>2, WithoutNone DEF NoEnds
  <2>3. NoEnds(ends) = <<>>
    <3>1. PICK none : none = <<>>
      OBVIOUS
    <3>2. none \in Seq(Token) /\ NoEnds(none) = <<>>
      BY <3>1, WithoutEmpty DEF NoEnds
    <3>3. PICK cr : cr = Append(none, "CR")
      OBVIOUS
    <3>4. cr \in Seq(Token) /\ ends = Append(cr, "LF")
      BY <1>2, <1>3, <3>1, <3>3
    <3>5. NoEnds(cr) = <<>>
      BY <1>2, <3>2, <3>3, WithoutAppend DEF NoEnds
    <3> QED
      BY <1>2, <3>4, <3>5, WithoutAppend DEF NoEnds
  <2>4. PICK w : w = NoEnds(x)
    OBVIOUS
  <2>5. w \in Seq(Token) /\ w \o <<>> = w
    <3>1. w \in Seq(Token)
      BY <1>5, <2>4, WithoutType DEF NoEnds
    <3> QED
      BY ONLY <3>1, ConcatEmpty
  <2> QED
    BY <2>1, <2>2, <2>3, <2>4, <2>5
<1>8. Flat(asked') = Flat(asked) \o line
  <2>1. asked \in Seq(Seq(Token))
    <3>1. Lines \subseteq Seq(Token)
      BY LineTyped
    <3> QED
      BY <3>1
  <2> QED
    BY <1>1, <1>2, <2>1, FlattenAppend DEF Flat
<1>9. NothingIsLost'
  <2>1. PICK h : h = Flat(handled)
    OBVIOUS
  <2>2. PICK b : b = NoEnds(m_incoming_buffer)
    OBVIOUS
  <2>3. PICK n : n = NoEnds(net)
    OBVIOUS
  <2>4. h \in Seq(Token)
    BY <2>1, FlattenType DEF Flat
  <2>5. b \in Seq(Token) /\ n \in Seq(Token)
    <3>1. m_incoming_buffer \in Seq(Token)
      OBVIOUS
    <3> QED
      BY <2>2, <2>3, <3>1, WithoutType DEF NoEnds
  <2>6. h \o b \o n = Flat(asked)
    BY <1>1, <2>1, <2>2, <2>3 DEF NothingIsLost
  <2>7. PICK hb : hb = h \o b
    OBVIOUS
  <2>8. hb \in Seq(Token) /\ hb \o n = Flat(asked)
    BY <2>4, <2>5, <2>6, <2>7
  <2>9. (hb \o n) \o line = hb \o (n \o line)
    <3>1. JoinedInAnyOrder(hb, n, line)
      BY <1>2, <2>5, <2>8, TokensJoin
    <3> QED
      BY <3>1 DEF JoinedInAnyOrder
  <2>10. hb \o NoEnds(net') = Flat(asked')
    BY <1>7, <1>8, <2>3, <2>8, <2>9
  <2> QED
    BY <1>1, <2>1, <2>2, <2>7, <2>10 DEF NothingIsLost
<1> QED
  BY <1>1, <1>6, <1>9

LEMMA LinesInvRead ==
    ASSUME LinesInv, Read
    PROVE  LinesInv'
<1> USE DEF LinesInv
<1>1. PICK n \in 1 .. Len(net) :
        /\ ~terminated /\ handleLineRead(SubSeq(net, 1, n))
        /\ net' = SubSeq(net, n + 1, Len(net)) /\ asked' = asked
  BY DEF Read
<1>2. PICK a : a = SubSeq(net, 1, n)
  OBVIOUS
<1>3. PICK b : b = SubSeq(net, n + 1, Len(net))
  OBVIOUS
<1>4. a \in Seq(Token) /\ b \in Seq(Token) /\ net = a \o b /\ Len(net) \in Nat
  <2>1. a \in Seq(Token) /\ b \in Seq(Token)
    BY <1>2, <1>3
  <2>2. net = a \o b
    BY ONLY net \in Seq(Token), n \in 1 .. Len(net), <1>2, <1>3
  <2> QED
    BY <2>1, <2>2
<1>5. PICK data : data = NoLF(a)
  OBVIOUS
<1>6. data \in Seq(Token \ {"LF"})
  BY <1>4, <1>5, WithoutType DEF NoLF
<1>7. PICK taken : taken = Take(data)
  OBVIOUS
<1>8. Taken(data, taken)
  BY <1>6, <1>7, TakeIs
<1>9. PICK p : p = taken.process
  OBVIOUS
<1>10. PICK lines : lines = UntilThrow(Split(p))
  OBVIOUS
<1>11. /\ m_incoming_buffer' = taken.keep /\ handled' = handled \o lines
       /\ answers' = answers \o Pongs(lines)
       /\ terminated' = \E i \in DOMAIN lines : TooShort(lines[i])
  BY <1>1, <1>2, <1>5, <1>7, <1>9, <1>10 DEF handleLineRead
<1>12. p \in Seq(Token \ {"LF"}) /\ p \in Seq(Token) /\ Split(p) \in Seq(Seq(Token))
  <2>1. p \in Seq(Token \ {"LF"})
    BY <1>8, <1>9 DEF Taken
  <2>2. p \in Seq(Token)
    BY <2>1
  <2> QED
    BY <2>1, <2>2, SplitType
<1>13. /\ lines \in Seq(Seq(Token))
       /\ ~terminated' => lines = Split(p) /\ \A i \in DOMAIN lines : ~TooShort(lines[i])
  BY <1>10, <1>11, <1>12, UntilThrowIs
<1>14. /\ asked' \in Seq(Lines) /\ net' \in Seq(Token)
       /\ m_incoming_buffer' \in Seq(Token \ {"LF"}) /\ handled' \in Seq(Seq(Token))
  <2>1. asked' \in Seq(Lines) /\ net' \in Seq(Token)
    BY <1>1, <1>3, <1>4
  <2>2. m_incoming_buffer' \in Seq(Token \ {"LF"})
    BY <1>8, <1>11 DEF Taken
  <2>3. handled \o lines \in Seq(Seq(Token))
    <3>1. handled \in Seq(Seq(Token))
      OBVIOUS
    <3> QED
      BY ONLY <3>1, <1>13
  <2> QED
    BY ONLY <1>11, <2>1, <2>2, <2>3
<1>15. NothingIsLost'
  <2> SUFFICES ASSUME ~terminated'
               PROVE  Flat(handled') \o NoEnds(m_incoming_buffer') \o NoEnds(net') = Flat(asked)
    BY <1>1 DEF NothingIsLost
  <2>1. PICK h : h = Flat(handled)
    OBVIOUS
  <2>2. PICK m : m = NoEnds(m_incoming_buffer)
    OBVIOUS
  <2>3. PICK d : d = NoEnds(data)
    OBVIOUS
  <2>4. PICK r : r = NoEnds(b)
    OBVIOUS
  <2>5. PICK q : q = NoEnds(p)
    OBVIOUS
  <2>6. PICK k : k = NoEnds(taken.keep)
    OBVIOUS
  <2>7. /\ m_incoming_buffer \in Seq(Token) /\ data \in Seq(Token)
        /\ taken.keep \in Seq(Token) /\ p \in Seq(Token)
    BY <1>6, <1>8, <1>12 DEF Taken
  <2>8. /\ h \in Seq(Token) /\ m \in Seq(Token) /\ d \in Seq(Token) /\ r \in Seq(Token)
        /\ q \in Seq(Token) /\ k \in Seq(Token)
    <3>1. h \in Seq(Token)
      BY <2>1, FlattenType DEF Flat
    <3> QED
      BY <1>4, <2>2, <2>3, <2>4, <2>5, <2>6, <2>7, <3>1, WithoutType DEF NoEnds
  <2>9. q \o k = m \o d
    <3>1. p \o taken.keep = m_incoming_buffer \o data
      BY <1>8, <1>9 DEF Taken
    <3>2. NoEnds(p \o taken.keep) = q \o k
      BY <2>5, <2>6, <2>7, WithoutConcat DEF NoEnds
    <3>3. NoEnds(m_incoming_buffer \o data) = m \o d
      BY <2>2, <2>3, <2>7, WithoutConcat DEF NoEnds
    <3> QED
      BY <3>1, <3>2, <3>3
  <2>10. NoEnds(net) = d \o r
    <3>1. NoEnds(net) = NoEnds(a) \o r
      BY <1>4, <2>4, WithoutConcat DEF NoEnds
    <3>2. NoEnds(a) = d
      BY <1>4, <1>5, <2>3, NoEndsOfNoLF
    <3> QED
      BY <3>1, <3>2
  <2>11. Flat(handled') = h \o q
    <3>1. Flat(lines) = q
      BY <1>12, <1>13, <2>5, SplitFlat
    <3>2. FlattenSeq(handled \o lines) = FlattenSeq(handled) \o FlattenSeq(lines)
      BY <1>13, FlattenConcat
    <3> QED
      BY <1>11, <2>1, <3>1, <3>2 DEF Flat
  <2>12. (h \o m) \o (d \o r) = Flat(asked)
    BY <1>1, <2>1, <2>2, <2>10 DEF NothingIsLost
  <2>13. ((h \o q) \o k) \o r = (h \o m) \o (d \o r)
    <3>1. (h \o q) \o k = h \o (q \o k)
      <4>1. JoinedInAnyOrder(h, q, k)
        BY <2>8, TokensJoin
      <4> QED
        BY <4>1 DEF JoinedInAnyOrder
    <3>2. h \o (m \o d) = (h \o m) \o d
      <4>1. JoinedInAnyOrder(h, m, d)
        BY <2>8, TokensJoin
      <4> QED
        BY <4>1 DEF JoinedInAnyOrder
    <3>3. PICK hm : hm = h \o m
      OBVIOUS
    <3>4. hm \in Seq(Token)
      BY <2>8, <3>3
    <3>5. (hm \o d) \o r = hm \o (d \o r)
      <4>1. JoinedInAnyOrder(hm, d, r)
        BY <2>8, <3>4, TokensJoin
      <4> QED
        BY <4>1 DEF JoinedInAnyOrder
    <3> QED
      BY <2>9, <3>1, <3>2, <3>3, <3>5
  <2> QED
    BY <1>1, <1>3, <1>11, <2>4, <2>6, <2>11, <2>12, <2>13
<1>16. ~terminated' => answers' = FlatMap(Answer, handled')
  <2> SUFFICES ASSUME ~terminated' PROVE answers' = FlatMap(Answer, handled')
    OBVIOUS
  <2>1. Pongs(lines) = FlatMap(Answer, lines)
    BY <1>13, PongsAre
  <2>2. FlatMap(Answer, handled \o lines) = FlatMap(Answer, handled) \o FlatMap(Answer, lines)
    BY <1>13, AnswersConcat
  <2> QED
    BY <1>1, <1>11, <2>1, <2>2
<1> QED
  BY <1>14, <1>15, <1>16

LEMMA LinesInvStep ==
    ASSUME LinesInv, [Next]_ircVars
    PROVE  LinesInv'
<1>1. CASE Server
  BY <1>1, LinesInvServer
<1>2. CASE Read
  BY <1>2, LinesInvRead
<1>3. CASE Input \/ UNCHANGED ircVars
  <2>1. UNCHANGED lineVars
    BY <1>3 DEF Input, ircVars
  <2> QED
    BY <2>1 DEF lineVars, LinesInv, NothingIsLost
<1> QED
  BY <1>1, <1>2, <1>3 DEF Next

LEMMA LinesInvHolds == Spec => []LinesInv
<1>1. Init => LinesInv
  BY LinesInvInit
<1>2. LinesInv /\ [Next]_ircVars => LinesInv'
  BY LinesInvStep
<1> QED
  BY <1>1, <1>2, PTL DEF Spec

\* Wherever the reads cut what the server says, none of it is lost, doubled or
\* moved: the lines handled, what is held back and what is still to be read
\* are together what was sent, up to the line that ends the program.
THEOREM EverythingArrives == Spec => []NothingIsLost
<1>1. LinesInv => NothingIsLost
  BY DEF LinesInv
<1> QED
  BY <1>1, LinesInvHolds, PTL

\* Each PING handled has its PONG, with its key, in the order of the PINGs, and
\* no other line has one.
THEOREM EveryPingIsAnswered == Spec => []PingsAreAnswered
<1>1. LinesInv => PingsAreAnswered
  BY AnswersAre DEF LinesInv, PingsAreAnswered
<1> QED
  BY <1>1, LinesInvHolds, PTL

-----------------------------------------------------------------------------
(* Whole lines: what ends with a CR is taken apart on its own.             *)

Whole(data) == data = <<>> \/ Last(data) = "CR"

LEMMA EmptyIn == \A S : <<>> \in Seq(S)
OBVIOUS

LEMMA AppendToConcat ==
    ASSUME NEW S, NEW a \in Seq(S), NEW b \in Seq(S), NEW x \in S
    PROVE  Append(a \o b, x) = a \o Append(b, x)
OBVIOUS

LEMMA AppendToLines ==
    ASSUME NEW a \in Seq(Seq(Token)), NEW b \in Seq(Seq(Token)), NEW x \in Seq(Token)
    PROVE  Append(a \o b, x) = a \o Append(b, x)
<1>1. PICK t : t = Append(a \o b, x)
  OBVIOUS
<1>2. PICK u : u = a \o Append(b, x)
  OBVIOUS
<1>3. PICK S : S = Seq(Token)
  OBVIOUS
<1>4. a \in Seq(S) /\ b \in Seq(S) /\ x \in S
  BY <1>3
<1>5. t \in Seq(S) /\ u \in Seq(S) /\ Len(t) = Len(u)
  BY ONLY <1>1, <1>2, <1>4
<1>6. \A i \in 1 .. Len(t) : t[i] = u[i]
  BY ONLY <1>1, <1>2, <1>4
<1>7. t = u
  BY ONLY <1>5, <1>6, SeqEqual
<1> QED
  BY <1>1, <1>2, <1>7

LEMMA LastOfConcat ==
    ASSUME NEW S, NEW a \in Seq(S), NEW b \in Seq(S), b # <<>>
    PROVE  /\ Last(a \o b) = Last(b) /\ Front(a \o b) = a \o Front(b)
           /\ a \o b \in Seq(S) /\ a \o b # <<>>
<1>1. PICK f : f = Front(b)
  OBVIOUS
<1>2. PICK l : l = Last(b)
  OBVIOUS
<1>3. f \in Seq(S) /\ l \in S /\ b = Append(f, l)
  BY <1>1, <1>2, FrontLast
<1>4. PICK af : af = a \o f
  OBVIOUS
<1>5. af \in Seq(S) /\ a \o b = Append(af, l)
  BY ONLY <1>3, <1>4, a \in Seq(S)
<1>6. Front(Append(af, l)) = af /\ Last(Append(af, l)) = l
  BY <1>3, <1>5, FrontOfAppend
<1>7. Append(af, l) \in Seq(S) /\ Append(af, l) # <<>>
  BY <1>3, <1>5, NotEmptyAppended
<1> QED
  BY <1>1, <1>2, <1>4, <1>5, <1>6, <1>7

LEMMA LastOfWhole ==
    ASSUME NEW x \in Seq(Token), Whole(x)
    PROVE  Last(SplitAll(x)) = <<>>
<1>1. PICK none : none = <<>>
  OBVIOUS
<1>2. none \in Seq(Token)
  BY <1>1
<1>3. CASE x = <<>>
  <2>1. PICK some \in Seq(Seq(Token)) : some = <<>>
    BY EmptyIn
  <2>2. <<none>> = Append(some, none)
    BY <2>1
  <2>3. Last(Append(some, none)) = none
    BY <1>2, FrontOfAppend
  <2> QED
    BY <1>1, <1>3, <2>2, <2>3, SplitAllEmpty
<1>4. CASE x # <<>>
  <2>1. PICK f : f = Front(x)
    OBVIOUS
  <2>2. f \in Seq(Token) /\ "CR" \in Token /\ x = Append(f, "CR")
    BY <1>4, <2>1, FrontLast DEF Whole
  <2>3. PICK lines : lines = SplitAll(f)
    OBVIOUS
  <2>4. lines \in Seq(Seq(Token))
    BY <2>2, <2>3, SplitAllType DEF Pieces
  <2>5. SplitAll(x) = Append(lines, none)
    BY <1>1, <2>2, <2>3, SplitAllAppend DEF SplitAdd
  <2>6. Last(Append(lines, none)) = none
    BY <1>2, <2>4, FrontOfAppend
  <2> QED
    BY <1>1, <2>5, <2>6
<1> QED
  BY <1>3, <1>4

LEMMA SplitAddConcat ==
    ASSUME NEW first \in Seq(Seq(Token)), NEW lines \in Pieces, NEW c \in Token
    PROVE  SplitAdd(first \o lines, c) = first \o SplitAdd(lines, c)
<1>1. lines \in Seq(Seq(Token)) /\ lines # <<>>
  BY DEF Pieces
<1>2. PICK none : none = <<>>
  OBVIOUS
<1>3. none \in Seq(Token)
  BY <1>2
<1>4. PICK f : f = Front(lines)
  OBVIOUS
<1>5. PICK l : l = Last(lines)
  OBVIOUS
<1>6. f \in Seq(Seq(Token)) /\ l \in Seq(Token)
  BY <1>1, <1>4, <1>5, FrontLast
<1>7. PICK m : m = Append(l, c)
  OBVIOUS
<1>8. m \in Seq(Token)
  BY <1>6, <1>7
<1>9. Front(first \o lines) = first \o f /\ Last(first \o lines) = l
  BY <1>1, <1>4, <1>5, LastOfConcat
<1>10. Append(first \o lines, none) = first \o Append(lines, none)
  BY <1>1, <1>3, AppendToLines
<1>11. Append(first \o f, m) = first \o Append(f, m)
  BY <1>6, <1>8, AppendToLines
<1> QED
  BY <1>2, <1>4, <1>5, <1>7, <1>9, <1>10, <1>11 DEF SplitAdd

LEMMA SplitAllConcat ==
    ASSUME NEW x \in Seq(Token), Whole(x), NEW y \in Seq(Token)
    PROVE  SplitAll(x \o y) = Front(SplitAll(x)) \o SplitAll(y)
<1> DEFINE T == {d \in Seq(Token) : SplitAll(x \o d) = Front(SplitAll(x)) \o SplitAll(d)}
<1>1. PICK all : all = SplitAll(x)
  OBVIOUS
<1>2. PICK first : first = Front(all)
  OBVIOUS
<1>3. PICK none : none = <<>>
  OBVIOUS
<1>4. none \in Seq(Token)
  BY <1>3
<1>5. /\ all \in Seq(Seq(Token)) /\ all # <<>> /\ first \in Seq(Seq(Token))
      /\ all = Append(first, none)
  <2>1. all \in Seq(Seq(Token)) /\ all # <<>>
    BY <1>1, SplitAllType DEF Pieces
  <2>2. Last(all) = none
    BY <1>1, <1>3, LastOfWhole
  <2> QED
    BY <1>2, <2>1, <2>2, FrontLast
<1>6. <<>> \in T
  <2>1. x \o <<>> = x
    BY ConcatEmpty
  <2>2. first \o <<none>> = Append(first, none)
    BY <1>4, <1>5, ConcatOne
  <2>3. SplitAll(x \o <<>>) = first \o SplitAll(<<>>)
    BY <1>1, <1>3, <1>5, <2>1, <2>2, SplitAllEmpty
  <2>4. <<>> \in Seq(Token)
    BY EmptyIn
  <2> QED
    BY <1>1, <1>2, <2>3, <2>4
<1>7. ASSUME NEW s \in Seq(Token), NEW c \in Token, s \in T
      PROVE  Append(s, c) \in T
  <2>1. PICK xs : xs = x \o s
    OBVIOUS
  <2>2. xs \in Seq(Token)
    BY <2>1
  <2>3. x \o Append(s, c) = Append(xs, c)
    BY <2>1, AppendToConcat
  <2>4. PICK lines : lines = SplitAll(s)
    OBVIOUS
  <2>5. lines \in Pieces
    BY <2>4, SplitAllType
  <2>6. SplitAll(xs) = first \o lines
    BY <1>1, <1>2, <1>7, <2>1, <2>4
  <2>7. SplitAll(Append(xs, c)) = SplitAdd(first \o lines, c)
    BY <2>2, <2>6, SplitAllAppend
  <2>8. SplitAll(Append(s, c)) = SplitAdd(lines, c)
    BY <2>4, SplitAllAppend
  <2>9. SplitAdd(first \o lines, c) = first \o SplitAdd(lines, c)
    BY <1>5, <2>5, SplitAddConcat
  <2>10. Append(s, c) \in Seq(Token)
    OBVIOUS
  <2> QED
    BY <1>1, <1>2, <2>3, <2>7, <2>8, <2>9, <2>10
<1> HIDE DEF T
<1>8. Seq(Token) \subseteq T
  BY <1>6, <1>7, SeqSet
<1> QED
  BY <1>8 DEF T

LEMMA SplitConcat ==
    ASSUME NEW x \in Seq(Token), Whole(x), NEW y \in Seq(Token)
    PROVE  Split(x \o y) = Split(x) \o Split(y)
<1>1. PICK first : first = Front(SplitAll(x))
  OBVIOUS
<1>2. PICK lines : lines = SplitAll(y)
  OBVIOUS
<1>3. first \in Seq(Seq(Token)) /\ lines \in Seq(Seq(Token)) /\ lines # <<>>
  <2>1. SplitAll(x) \in Seq(Seq(Token)) /\ SplitAll(x) # <<>>
    BY SplitAllType DEF Pieces
  <2> QED
    BY <1>1, <1>2, <2>1, SplitAllType, FrontLast DEF Pieces
<1>4. SplitAll(x \o y) = first \o lines
  BY <1>1, <1>2, SplitAllConcat
<1>5. Split(x) = first
  BY <1>1, LastOfWhole DEF Split
<1>6. Last(first \o lines) = Last(lines) /\ Front(first \o lines) = first \o Front(lines)
  BY <1>3, LastOfConcat
<1> QED
  BY <1>2, <1>4, <1>5, <1>6 DEF Split

LEMMA SplitEmpty == Split(<<>>) = <<>>
<1>1. PICK some \in Seq(Seq(Token)) : some = <<>>
  BY EmptyIn
<1>2. PICK none \in Seq(Token) : none = <<>>
  BY EmptyIn
<1>3. <<none>> = Append(some, none)
  BY <1>1
<1>4. Front(Append(some, none)) = some /\ Last(Append(some, none)) = none
  BY FrontOfAppend
<1>5. SplitAll(<<>>) = <<none>>
  BY <1>2, SplitAllEmpty
<1> QED
  BY <1>1, <1>2, <1>3, <1>4, <1>5 DEF Split

(* A line and its CR are that line.                                        *)
LEMMA SplitLine ==
    ASSUME NEW line \in Seq(Token \ {"CR", "LF"}), "CR" \in Token
    PROVE  Split(Append(line, "CR")) = <<line>>
<1> DEFINE S == Token \ {"CR", "LF"}
           T == {d \in Seq(S) : SplitAll(d) = <<d>>}
<1>1. PICK some \in Seq(Seq(Token)) : some = <<>>
  BY EmptyIn
<1>2. <<>> \in T
  BY SplitAllEmpty
<1>3. ASSUME NEW s \in Seq(S), NEW c \in S, s \in T
      PROVE  Append(s, c) \in T
  <2>1. s \in Seq(Token) /\ c \in Token /\ c # "CR" /\ Append(s, c) \in Seq(S)
    OBVIOUS
  <2>2. SplitAll(Append(s, c)) = SplitAdd(<<s>>, c)
    BY <1>3, <2>1, SplitAllAppend
  <2>3. <<s>> = Append(some, s)
    BY <1>1
  <2>4. Front(<<s>>) = some /\ Last(<<s>>) = s
    BY <2>1, <2>3, FrontOfAppend
  <2>5. SplitAdd(<<s>>, c) = Append(some, Append(s, c))
    BY <2>1, <2>4 DEF SplitAdd
  <2>6. Append(some, Append(s, c)) = <<Append(s, c)>>
    BY <1>1
  <2> QED
    BY <2>1, <2>2, <2>5, <2>6
<1> HIDE DEF T, S
<1>4. Seq(S) \subseteq T
  BY <1>2, <1>3, SeqSet
<1>5. SplitAll(line) = <<line>> /\ line \in Seq(Token)
  <2>1. line \in Seq(Token)
    OBVIOUS
  <2> QED
    BY <1>4, <2>1 DEF T, S
<1>6. PICK none \in Seq(Token) : none = <<>>
  BY EmptyIn
<1>7. SplitAll(Append(line, "CR")) = Append(<<line>>, none)
  BY <1>5, <1>6, SplitAllAppend DEF SplitAdd
<1>8. PICK one : one = <<line>>
  OBVIOUS
<1>9. one \in Seq(Seq(Token))
  BY ONLY <1>5, <1>8
<1>10. Front(Append(one, none)) = one /\ Last(Append(one, none)) = none
  BY <1>9, FrontOfAppend
<1> QED
  BY <1>6, <1>7, <1>8, <1>10 DEF Split

(* What starts with a CR starts with an empty line.                        *)
LEMMA SplitCR ==
    ASSUME NEW x \in Seq(Token), x # <<>>, x[1] = "CR"
    PROVE  \E rest \in Seq(Seq(Token)) : Split(x) = <<<<>>>> \o rest
<1>1. PICK tail : tail = Tail(x)
  OBVIOUS
<1>2. PICK none : none = <<>>
  OBVIOUS
<1>3. PICK cr : cr = Append(none, "CR")
  OBVIOUS
<1>4. "CR" \in Token
  <2>1. Len(x) \in Nat /\ Len(x) # 0
    OBVIOUS
  <2>2. 1 \in DOMAIN x
    BY <2>1
  <2> QED
    BY <2>2
<1>5. tail \in Seq(Token) /\ none \in Seq(Token \ {"CR", "LF"}) /\ none \in Seq(Token)
  BY <1>1, <1>2
<1>6. cr \in Seq(Token) /\ x = cr \o tail
  <2>1. cr \in Seq(Token) /\ cr = <<"CR">>
    BY ONLY <1>2, <1>3, <1>4
  <2>2. x = <<"CR">> \o tail
    <3>1. Len(x) \in Nat /\ Len(x) >= 1
      OBVIOUS
    <3>2. PICK t : t = <<"CR">> \o tail
      OBVIOUS
    <3>3. t \in Seq(Token) /\ Len(t) = Len(x) /\ \A i \in 1 .. Len(x) : t[i] = x[i]
      BY <1>1, <1>4, <3>1, <3>2
    <3>4. t = x
      BY ONLY <3>3, x \in Seq(Token), SeqEqual
    <3> QED
      BY <3>2, <3>4
  <2> QED
    BY <2>1, <2>2
<1>7. Whole(cr)
  <2>1. Last(Append(none, "CR")) = "CR"
    BY <1>4, <1>5, FrontOfAppend
  <2> QED
    BY <1>3, <2>1 DEF Whole
<1>8. Split(x) = Split(cr) \o Split(tail)
  BY <1>5, <1>6, <1>7, SplitConcat
<1>9. Split(cr) = <<none>>
  BY <1>3, <1>4, <1>5, SplitLine
<1>10. Split(tail) \in Seq(Seq(Token))
  BY <1>5, SplitType
<1> QED
  BY <1>2, <1>8, <1>9, <1>10

-----------------------------------------------------------------------------
(* Reads that end with the end of a line.                                  *)

\* An LF stands at the front or follows its CR.
AfterCR(data) == \A i \in DOMAIN data : data[i] = "LF" => i = 1 \/ data[i - 1] = "CR"

(* What is read up to the end of a line ends with its CR.                  *)
LEMMA ReadIsWhole ==
    ASSUME NEW data \in Seq(Token), AfterCR(data), NEW n \in 1 .. Len(data),
           data[n] \in {"CR", "LF"}
    PROVE  Whole(NoLF(SubSeq(data, 1, n)))
<1> DEFINE Upto(k) == SubSeq(data, 1, k)
<1>1. Len(data) \in Nat /\ "CR" \in Token /\ "LF" \in Token
  BY DEF Token
<1>2. ASSUME NEW k \in 1 .. Len(data)
      PROVE  /\ Upto(k - 1) \in Seq(Token) /\ data[k] \in Token
             /\ Upto(k) = Append(Upto(k - 1), data[k])
  BY <1>1
<1>3. ASSUME NEW k \in 1 .. Len(data), data[k] = "CR" PROVE Whole(NoLF(Upto(k)))
  <2>1. PICK w : w = NoLF(Upto(k - 1))
    OBVIOUS
  <2>2. Upto(k - 1) \in Seq(Token) /\ Upto(k) = Append(Upto(k - 1), "CR")
    BY <1>2, <1>3
  <2> HIDE DEF Upto
  <2>3. w \in Seq(Token)
    BY <2>1, <2>2, WithoutType DEF NoLF
  <2>4. NoLF(Upto(k)) = Append(w, "CR")
    <3>1. "CR" \notin {"LF"}
      OBVIOUS
    <3> QED
      BY <1>1, <2>1, <2>2, <3>1, WithoutAppend DEF NoLF
  <2>5. Last(Append(w, "CR")) = "CR"
    BY <1>1, <2>3, FrontOfAppend
  <2> QED
    BY <2>4, <2>5 DEF Whole
<1>4. CASE data[n] = "CR"
  BY <1>3, <1>4
<1>5. CASE data[n] = "LF"
  <2>1. Upto(n - 1) \in Seq(Token) /\ Upto(n) = Append(Upto(n - 1), "LF")
    BY <1>2, <1>5
  <2> HIDE DEF Upto
  <2>2. NoLF(Upto(n)) = NoLF(Upto(n - 1))
    <3>1. "LF" \in {"LF"}
      OBVIOUS
    <3> QED
      BY <1>1, <2>1, <3>1, WithoutAppend DEF NoLF
  <2>3. CASE n = 1
    <3>1. Upto(n - 1) = <<>>
      BY <1>1, <2>3 DEF Upto
    <3>2. NoLF(<<>>) = <<>>
      BY WithoutEmpty DEF NoLF
    <3> QED
      BY <2>2, <3>1, <3>2 DEF Whole, Upto
  <2>4. CASE n # 1
    <3>1. n - 1 \in 1 .. Len(data) /\ n \in DOMAIN data
      BY <1>1, <2>4
    <3>2. data[n - 1] = "CR"
      BY <1>5, <2>4, <3>1 DEF AfterCR
    <3>3. Whole(NoLF(Upto(n - 1)))
      BY <1>3, <3>1, <3>2
    <3> QED
      BY <2>2, <3>3 DEF Upto
  <2> QED
    BY <2>3, <2>4
<1> QED
  BY <1>4, <1>5

LEMMA PrefixJoined ==
    ASSUME NEW S, NEW h \in Seq(S), NEW u \in Seq(S), NEW s \in Seq(S), IsPrefix(u, s),
           NEW t \in Seq(S), NEW all, all = (h \o s) \o t
    PROVE  IsPrefix(h \o u, all)
<1>1. PICK hu : hu = h \o u
  OBVIOUS
<1>2. Len(u) <= Len(s) /\ SubSeq(u, 1, Len(u)) = SubSeq(s, 1, Len(u))
  BY DEF IsPrefix
<1>3. \A i \in 1 .. Len(u) : u[i] = s[i]
  <2>1. PICK p : p = SubSeq(s, 1, Len(u))
    OBVIOUS
  <2>2. \A i \in 1 .. Len(u) : p[i] = s[i]
    BY <2>1
  <2>3. SubSeq(u, 1, Len(u)) = u
    OBVIOUS
  <2> QED
    BY <1>2, <2>1, <2>2, <2>3
<1>4. Len(h) \in Nat /\ Len(u) \in Nat /\ Len(s) \in Nat /\ Len(t) \in Nat
  OBVIOUS
<1>5. hu \in Seq(S) /\ Len(hu) = Len(h) + Len(u)
  BY <1>1
<1>6. all \in Seq(S) /\ Len(all) = Len(h) + Len(s) + Len(t)
  OBVIOUS
<1>7. \A i \in 1 .. Len(hu) : hu[i] = all[i]
  <2>1. PICK hs : hs = h \o s
    OBVIOUS
  <2>2. /\ hs \in Seq(S) /\ Len(hs) = Len(h) + Len(s) /\ all = hs \o t
        /\ \A i \in 1 .. Len(h) : hs[i] = h[i]
        /\ \A i \in Len(h) + 1 .. Len(hs) : hs[i] = s[i - Len(h)]
    BY <2>1
  <2>3. \A i \in 1 .. Len(hs) : all[i] = hs[i]
    BY <2>2
  <2>4. /\ \A i \in 1 .. Len(h) : hu[i] = h[i]
        /\ \A i \in Len(h) + 1 .. Len(hu) : hu[i] = u[i - Len(h)]
    BY <1>1
  <2> SUFFICES ASSUME NEW i \in 1 .. Len(hu) PROVE hu[i] = all[i]
    OBVIOUS
  <2>5. CASE i <= Len(h)
    BY <1>2, <1>4, <1>5, <2>2, <2>3, <2>4, <2>5
  <2>6. CASE i > Len(h)
    <3>1. i - Len(h) \in 1 .. Len(u) /\ i \in Len(h) + 1 .. Len(hu) /\ i \in Len(h) + 1 .. Len(hs)
      BY <1>2, <1>4, <1>5, <2>2, <2>6
    <3>2. i \in 1 .. Len(hs)
      BY <1>4, <2>2, <3>1
    <3> QED
      BY <1>3, <2>2, <2>3, <2>4, <3>1, <3>2
  <2>7. i \in Nat
    BY <1>4, <1>5
  <2> QED
    BY ONLY <1>4, <2>5, <2>6, <2>7
<1>8. Len(hu) <= Len(all)
  BY <1>2, <1>4, <1>5, <1>6
<1>9. SubSeq(hu, 1, Len(hu)) = SubSeq(all, 1, Len(hu))
  BY ONLY <1>4, <1>5, <1>6, <1>7, <1>8
<1> QED
  BY <1>1, <1>8, <1>9 DEF IsPrefix

LEMMA PrefixAppended ==
    ASSUME NEW S, NEW h \in Seq(S), NEW a \in Seq(S), IsPrefix(h, a), NEW x \in S
    PROVE  IsPrefix(h, Append(a, x))
<1>1. PICK ax : ax = Append(a, x)
  OBVIOUS
<1>2. /\ ax \in Seq(S) /\ Len(ax) = Len(a) + 1 /\ Len(a) \in Nat /\ Len(h) \in Nat
      /\ \A i \in 1 .. Len(a) : ax[i] = a[i]
  BY <1>1
<1>3. Len(h) <= Len(a) /\ SubSeq(h, 1, Len(h)) = SubSeq(a, 1, Len(h))
  BY DEF IsPrefix
<1>4. SubSeq(a, 1, Len(h)) = SubSeq(ax, 1, Len(h))
  BY ONLY <1>2, <1>3, a \in Seq(S)
<1>5. Len(h) <= Len(ax)
  BY <1>2, <1>3
<1> QED
  BY <1>1, <1>3, <1>4, <1>5 DEF IsPrefix

\* As long as no read has ended inside a line.
WholeInv ==
    ~cut => /\ m_incoming_buffer = <<>>
            /\ IsPrefix(handled, asked)
            /\ ~terminated => /\ Whole(NoLF(net)) /\ AfterCR(net)
                              /\ handled \o Split(NoLF(net)) = asked

LEMMA WholeInvInit ==
    ASSUME Init
    PROVE  WholeInv
<1>1. PICK none : none = <<>>
  OBVIOUS
<1>2. none \in Seq(Token)
  BY <1>1
<1>3. /\ net = none /\ handled = none /\ asked = none /\ m_incoming_buffer = none
  BY <1>1 DEF Init
<1>4. NoLF(none) = none /\ Split(none) = none /\ none \o none = none
  BY <1>1, <1>2, WithoutEmpty, SplitEmpty, ConcatEmpty DEF NoLF
<1>5. AfterCR(none)
  BY <1>1 DEF AfterCR
<1>6. IsPrefix(none, none)
  BY DEF IsPrefix
<1>7. Whole(NoLF(none))
  BY <1>1, <1>4 DEF Whole
<1> QED
  BY <1>1, <1>3, <1>4, <1>5, <1>6, <1>7 DEF WholeInv

LEMMA WholeInvServer ==
    ASSUME LinesInv, WholeInv, Server
    PROVE  WholeInv'
<1>1. PICK line \in Lines :
        /\ ~terminated /\ net' = net \o line \o <<"CR", "LF">> /\ asked' = Append(asked, line)
        /\ UNCHANGED <<m_incoming_buffer, handled, answers, terminated, cut>>
  BY DEF Server
<1> SUFFICES ASSUME ~cut
             PROVE  /\ IsPrefix(handled, asked') /\ Whole(NoLF(net')) /\ AfterCR(net')
                    /\ handled \o Split(NoLF(net')) = asked'
  BY <1>1 DEF WholeInv
<1>2. /\ asked \in Seq(Lines) /\ net \in Seq(Token) /\ handled \in Seq(Seq(Token))
      /\ IsPrefix(handled, asked) /\ Whole(NoLF(net)) /\ AfterCR(net)
      /\ handled \o Split(NoLF(net)) = asked
  BY <1>1 DEF LinesInv, WholeInv
<1>3. /\ line \in Seq(Token \ {"CR", "LF"}) /\ line \in Seq(Token)
      /\ "CR" \in Token /\ "LF" \in Token
  BY LineTyped
<1>4. PICK x : x = NoLF(net)
  OBVIOUS
<1>5. x \in Seq(Token)
  BY <1>2, <1>4, WithoutType DEF NoLF
<1>6. PICK w : w = Append(line, "CR")
  OBVIOUS
<1>7. w \in Seq(Token) /\ w # <<>>
  BY <1>3, <1>6, NotEmptyAppended
<1>8. NoLF(net') = x \o w
  <2>1. PICK nw : nw = net \o w
    OBVIOUS
  <2>2. nw \in Seq(Token) /\ net' = Append(nw, "LF")
    <3>1. PICK nl : nl = net \o line
      OBVIOUS
    <3>2. nl \in Seq(Token)
      BY <1>2, <1>3, <3>1
    <3>3. nw = Append(nl, "CR")
      BY <1>2, <1>3, <1>6, <2>1, <3>1, AppendToConcat
    <3>4. net' = nl \o <<"CR", "LF">>
      BY <1>1, <3>1
    <3> QED
      BY ONLY <1>3, <3>2, <3>3, <3>4
  <2>3. NoLF(net') = NoLF(nw)
    BY <1>3, <2>2, WithoutAppend DEF NoLF
  <2>4. NoLF(nw) = x \o NoLF(w)
    BY <1>2, <1>4, <1>7, <2>1, WithoutConcat DEF NoLF
  <2>5. NoLF(w) = w
    <3>1. w \in Seq(Token \ {"LF"})
      <4>1. line \in Seq(Token \ {"LF"}) /\ "CR" \in Token \ {"LF"}
        BY <1>3
      <4> QED
        BY ONLY <4>1, <1>6
    <3> QED
      BY <3>1, WithoutNone DEF NoLF
  <2> QED
    BY <2>3, <2>4, <2>5
<1>9. Whole(NoLF(net'))
  <2>1. Last(x \o w) = Last(w)
    BY <1>5, <1>7, LastOfConcat
  <2>2. Last(w) = "CR"
    BY <1>3, <1>6, FrontOfAppend
  <2> QED
    BY <1>8, <2>1, <2>2 DEF Whole
<1>10. Split(x \o w) = Split(x) \o <<line>>
  <2>1. Split(w) = <<line>>
    BY <1>3, <1>6, SplitLine
  <2>2. Split(x \o w) = Split(x) \o Split(w)
    BY <1>2, <1>4, <1>5, <1>7, SplitConcat
  <2> QED
    BY <2>1, <2>2
<1>11. handled \o Split(NoLF(net')) = asked'
  <2>1. PICK s : s = Split(x)
    OBVIOUS
  <2>2. s \in Seq(Seq(Token))
    BY <1>5, <2>1, SplitType
  <2>3. s \o <<line>> = Append(s, line)
    BY <1>3, <2>2, ConcatOne
  <2>4. Append(handled \o s, line) = handled \o Append(s, line)
    BY <1>2, <1>3, <2>2, AppendToLines
  <2> QED
    BY <1>1, <1>2, <1>4, <1>8, <1>10, <2>1, <2>3, <2>4
<1>12. IsPrefix(handled, asked')
  <2>1. PICK S : S = Seq(Token)
    OBVIOUS
  <2>2. handled \in Seq(S) /\ asked \in Seq(S) /\ line \in S
    <3>1. Lines \subseteq Seq(Token)
      BY LineTyped
    <3>2. asked \in Seq(Seq(Token))
      BY <1>2, <3>1
    <3> QED
      BY <1>2, <1>3, <2>1, <3>2
  <2>3. IsPrefix(handled, Append(asked, line))
    BY <1>2, <2>2, PrefixAppended
  <2> QED
    BY <1>1, <2>3
<1>13. AfterCR(net')
  <2>1. PICK nl : nl = net \o line
    OBVIOUS
  <2>2. nl \in Seq(Token) /\ net' = nl \o <<"CR", "LF">>
    BY <1>1, <1>2, <1>3, <2>1
  <2>3. PICK k : k = Len(nl)
    OBVIOUS
  <2>4. /\ k \in Nat /\ Len(net') = k + 2 /\ net' \in Seq(Token)
        /\ \A i \in 1 .. k : net'[i] = nl[i]
        /\ net'[k + 1] = "CR"
    BY <1>3, <2>2, <2>3
  <2>5. PICK j : j = Len(net)
    OBVIOUS
  <2>6. /\ j \in Nat /\ j <= k /\ (\A i \in 1 .. j : nl[i] = net[i])
        /\ \A i \in j + 1 .. k : nl[i] = line[i - j] /\ i - j \in 1 .. Len(line)
    BY <1>2, <1>3, <2>1, <2>3, <2>5
  <2>7. \A i \in 1 .. Len(line) : line[i] \in Token \ {"CR", "LF"}
    BY <1>3
  <2> SUFFICES ASSUME NEW i \in 1 .. k + 2, net'[i] = "LF", i # 1
               PROVE  net'[i - 1] = "CR"
    <3>1. DOMAIN net' = 1 .. k + 2
      BY <2>4
    <3> QED
      BY <3>1 DEF AfterCR
  <2>8. CASE i <= j
    <3>1. i \in 1 .. j /\ i - 1 \in 1 .. j /\ i - 1 \in 1 .. k /\ i \in 1 .. k /\ i \in DOMAIN net
      BY <1>2, <2>4, <2>5, <2>6, <2>8
    <3>2. net[i] = "LF"
      BY <2>4, <2>6, <3>1
    <3>3. net[i - 1] = "CR"
      BY <1>2, <3>1, <3>2 DEF AfterCR
    <3> QED
      BY <2>4, <2>6, <3>1, <3>3
  <2>9. CASE i > j /\ i <= k
    <3>1. i \in j + 1 .. k /\ i \in 1 .. k
      BY <2>4, <2>6, <2>9
    <3>2. net'[i] = line[i - j] /\ i - j \in 1 .. Len(line)
      BY <2>4, <2>6, <3>1
    <3>3. line[i - j] # "LF"
      BY <2>7, <3>2
    <3> QED
      BY <3>2, <3>3
  <2>10. CASE i = k + 1
    BY <2>4, <2>10
  <2>11. CASE i = k + 2
    <3>1. i - 1 = k + 1
      BY <2>4, <2>11
    <3> QED
      BY <2>4, <3>1
  <2> QED
    BY <2>4, <2>6, <2>8, <2>9, <2>10, <2>11
<1> QED
  BY <1>9, <1>11, <1>12, <1>13

(* Nothing starts with a CR when no line is empty.                         *)
LEMMA NoEmptyLine ==
    ASSUME <<>> \notin Lines, asked \in Seq(Lines), NEW h \in Seq(Seq(Token)),
           NEW x \in Seq(Token), x # <<>>, NEW r \in Seq(Seq(Token)),
           (h \o Split(x)) \o r = asked
    PROVE  x[1] # "CR"
<1> SUFFICES ASSUME x[1] = "CR" PROVE FALSE
  OBVIOUS
<1>1. PICK rest \in Seq(Seq(Token)) : Split(x) = <<<<>>>> \o rest
  BY SplitCR
<1>2. PICK S : S = Seq(Token)
  OBVIOUS
<1>3. PICK none : none = <<>>
  OBVIOUS
<1>4. h \in Seq(S) /\ r \in Seq(S) /\ rest \in Seq(S) /\ none \in S
  BY <1>2, <1>3, EmptyIn
<1>5. asked = (h \o (<<none>> \o rest)) \o r
  BY <1>1, <1>3
<1>6. PICK i : i = Len(h) + 1
  OBVIOUS
<1>7. i \in 1 .. Len(asked) /\ asked[i] = none
  BY ONLY <1>4, <1>5, <1>6
<1>8. asked[i] \in Lines
  BY <1>7
<1> QED
  BY <1>3, <1>7, <1>8

LEMMA WholeInvRead ==
    ASSUME <<>> \notin Lines, LinesInv, WholeInv, Read
    PROVE  WholeInv'
<1>1. PICK n \in 1 .. Len(net) :
        /\ ~terminated /\ handleLineRead(SubSeq(net, 1, n))
        /\ net' = SubSeq(net, n + 1, Len(net)) /\ asked' = asked
        /\ cut' = (cut \/ net[n] \notin {"CR", "LF"})
  BY DEF Read
<1> SUFFICES ASSUME ~cut'
             PROVE  /\ m_incoming_buffer' = <<>> /\ IsPrefix(handled', asked)
                    /\ ~terminated' => /\ Whole(NoLF(net')) /\ AfterCR(net')
                                       /\ handled' \o Split(NoLF(net')) = asked
  BY <1>1 DEF WholeInv
<1>2. /\ ~cut /\ net[n] \in {"CR", "LF"}
      /\ asked \in Seq(Lines) /\ net \in Seq(Token) /\ handled \in Seq(Seq(Token))
      /\ m_incoming_buffer = <<>> /\ Whole(NoLF(net)) /\ AfterCR(net)
      /\ handled \o Split(NoLF(net)) = asked
  BY <1>1 DEF LinesInv, WholeInv
<1>3. PICK a : a = SubSeq(net, 1, n)
  OBVIOUS
<1>4. PICK b : b = SubSeq(net, n + 1, Len(net))
  OBVIOUS
<1>5. a \in Seq(Token) /\ b \in Seq(Token) /\ net = a \o b /\ Len(net) \in Nat
  <2>1. net \in Seq(Token)
    BY <1>2
  <2>2. a \in Seq(Token) /\ b \in Seq(Token)
    BY ONLY <1>3, <1>4, <2>1, n \in 1 .. Len(net)
  <2>3. net = a \o b
    BY ONLY <1>3, <1>4, <2>1, n \in 1 .. Len(net)
  <2> QED
    BY <2>1, <2>2, <2>3
<1>6. PICK x : x = NoLF(a)
  OBVIOUS
<1>7. PICK y : y = NoLF(b)
  OBVIOUS
<1>8. /\ x \in Seq(Token) /\ y \in Seq(Token) /\ x \in Seq(Token \ {"LF"})
      /\ NoLF(net) = x \o y
  BY <1>5, <1>6, <1>7, WithoutType, WithoutConcat DEF NoLF
<1>9. Whole(x)
  BY <1>2, <1>3, <1>6, ReadIsWhole
<1>10. PICK sx : sx = Split(x)
  OBVIOUS
<1>11. PICK sy : sy = Split(y)
  OBVIOUS
<1>12. /\ sx \in Seq(Seq(Token)) /\ sy \in Seq(Seq(Token))
       /\ Split(NoLF(net)) = sx \o sy
  BY <1>8, <1>9, <1>10, <1>11, SplitType, SplitConcat
<1>13. asked = (handled \o sx) \o sy
  <2>1. PICK S : S = Seq(Token)
    OBVIOUS
  <2>2. handled \in Seq(S) /\ sx \in Seq(S) /\ sy \in Seq(S)
    BY <1>2, <1>12, <2>1
  <2>3. (handled \o sx) \o sy = handled \o (sx \o sy)
    BY ONLY <2>2, ConcatAssoc
  <2> QED
    BY <1>2, <1>12, <2>3
<1>14. x = <<>> \/ x[1] # "CR"
  BY <1>2, <1>8, <1>10, <1>12, <1>13, NoEmptyLine
<1>15. PICK taken : taken = Take(x)
  OBVIOUS
<1>16. taken.process = x /\ taken.keep = <<>>
  <2>1. m_incoming_buffer \in Seq(Token \ {"LF"})
    BY DEF LinesInv
  <2>2. Taken(x, taken)
    BY <1>8, <1>15, <2>1, TakeIs
  <2>3. <<>> \o x = x
    BY ONLY <1>8, ConcatEmpty
  <2> QED
    BY <1>2, <1>14, <2>2, <2>3 DEF Taken
<1>17. PICK lines : lines = UntilThrow(sx)
  OBVIOUS
<1>18. /\ m_incoming_buffer' = <<>> /\ handled' = handled \o lines
       /\ terminated' = \E i \in DOMAIN lines : TooShort(lines[i])
  BY <1>1, <1>3, <1>6, <1>10, <1>15, <1>16, <1>17 DEF handleLineRead
<1>19. /\ lines \in Seq(Seq(Token)) /\ IsPrefix(lines, sx)
       /\ ~terminated' => lines = sx
  BY <1>12, <1>17, <1>18, UntilThrowIs
<1>20. IsPrefix(handled', asked)
  <2>1. PICK S : S = Seq(Token)
    OBVIOUS
  <2>2. handled \in Seq(S) /\ sx \in Seq(S) /\ sy \in Seq(S) /\ lines \in Seq(S)
    BY <1>2, <1>12, <1>19, <2>1
  <2>3. IsPrefix(handled \o lines, asked)
    BY ONLY <1>13, <1>19, <2>2, PrefixJoined
  <2> QED
    BY <1>18, <2>3
<1>21. Whole(y)
  <2>1. CASE y = <<>>
    BY <2>1 DEF Whole
  <2>2. CASE y # <<>>
    <3>1. Last(x \o y) = Last(y) /\ x \o y # <<>>
      BY <1>8, <2>2, LastOfConcat
    <3> QED
      BY <1>2, <1>8, <3>1 DEF Whole
  <2> QED
    BY <2>1, <2>2
<1>22. AfterCR(b)
  <2>1. PICK m : m = Len(net) - n
    OBVIOUS
  <2>2. m \in Nat /\ n \in Nat /\ Len(b) = m /\ DOMAIN b = 1 .. m /\ \A i \in 1 .. m : b[i] = net[n + i]
    <3>1. n \in Nat /\ m \in Nat /\ Len(net) = n + m /\ net \in Seq(Token)
      BY <1>2, <1>5, <2>1
    <3>2. \A i \in 1 .. m : b[i] = net[n + i]
      BY ONLY <1>4, <3>1
    <3>3. Len(b) = m
      BY ONLY <1>4, <3>1
    <3> QED
      BY <1>5, <3>1, <3>2, <3>3
  <2> SUFFICES ASSUME NEW i \in 1 .. m, b[i] = "LF", i # 1 PROVE b[i - 1] = "CR"
    BY <2>2 DEF AfterCR
  <2>3. /\ i - 1 \in 1 .. m /\ n + i \in DOMAIN net /\ n + i # 1
        /\ n + (i - 1) = (n + i) - 1
    BY <1>2, <1>5, <2>1, <2>2
  <2>4. net[n + i] = "LF"
    BY <2>2
  <2>5. net[(n + i) - 1] = "CR"
    BY <1>2, <2>3, <2>4 DEF AfterCR
  <2> QED
    BY <2>2, <2>3, <2>5
<1>23. ~terminated' => handled' \o Split(NoLF(net')) = asked
  BY <1>1, <1>4, <1>7, <1>11, <1>13, <1>18, <1>19
<1> QED
  BY <1>1, <1>4, <1>7, <1>18, <1>20, <1>21, <1>22, <1>23

LEMMA WholeInvStep ==
    ASSUME <<>> \notin Lines, LinesInv, WholeInv, [Next]_ircVars
    PROVE  WholeInv'
<1>1. CASE Server
  BY <1>1, WholeInvServer
<1>2. CASE Read
  BY <1>2, WholeInvRead
<1>3. CASE Input \/ UNCHANGED ircVars
  <2>1. UNCHANGED lineVars
    BY <1>3 DEF Input, ircVars
  <2> QED
    BY <2>1 DEF lineVars, WholeInv, AfterCR
<1> QED
  BY <1>1, <1>2, <1>3 DEF Next

LEMMA WholeInvTells ==
    ASSUME <<>> \notin Lines, LinesInv, WholeInv
    PROVE  LinesAreWhole
<1> SUFFICES ASSUME ~cut, NoEnds(net) = <<>>, ~terminated PROVE handled = asked
  BY DEF WholeInv, LinesAreWhole
<1>1. /\ asked \in Seq(Lines) /\ net \in Seq(Token) /\ handled \in Seq(Seq(Token))
      /\ handled \o Split(NoLF(net)) = asked
  BY DEF LinesInv, WholeInv
<1>2. PICK x : x = NoLF(net)
  OBVIOUS
<1>3. x \in Seq(Token) /\ x \in Seq(Token \ {"LF"}) /\ NoEnds(x) = <<>>
  BY <1>1, <1>2, WithoutType, NoEndsOfNoLF DEF NoLF
<1>4. CASE x = <<>>
  <2>1. PICK S : S = Seq(Token)
    OBVIOUS
  <2>2. handled \in Seq(S)
    BY <1>1, <2>1
  <2>3. handled \o <<>> = handled
    BY ONLY <2>2, ConcatEmpty
  <2> QED
    BY <1>1, <1>2, <1>4, <2>3, SplitEmpty
<1>5. CASE x # <<>>
  <2>1. x[1] # "CR"
    <3>1. PICK none : none = <<>>
      OBVIOUS
    <3>2. none \in Seq(Seq(Token))
      BY <3>1, EmptyIn
    <3>3. PICK s : s = handled \o Split(x)
      OBVIOUS
    <3>4. PICK S : S = Seq(Token)
      OBVIOUS
    <3>5. handled \in Seq(S) /\ Split(x) \in Seq(S)
      BY <1>1, <1>3, <3>4, SplitType
    <3>6. s \in Seq(S)
      BY ONLY <3>3, <3>5
    <3>7. s \o none = s
      BY ONLY <3>1, <3>6, ConcatEmpty
    <3>8. (handled \o Split(x)) \o none = asked
      BY <1>1, <1>2, <3>3, <3>7
    <3> QED
      BY <1>1, <1>3, <1>5, <3>2, <3>8, NoEmptyLine
  <2>2. Len(x) \in Nat /\ Len(x) >= 1
    BY <1>3, <1>5
  <2>3. x[1] \in Token /\ x[1] \notin {"CR", "LF"}
    BY <1>3, <2>1, <2>2
  <2>4. PICK c : c = x[1]
    OBVIOUS
  <2>5. PICK first : first = <<c>>
    OBVIOUS
  <2>6. PICK tail : tail = Tail(x)
    OBVIOUS
  <2>7. first \in Seq(Token) /\ first \in Seq(Token \ {"CR", "LF"}) /\ tail \in Seq(Token)
    BY <1>3, <1>5, <2>3, <2>4, <2>5, <2>6
  <2>8. x = first \o tail
    <3>1. PICK t : t = first \o tail
      OBVIOUS
    <3>2. t \in Seq(Token) /\ Len(t) = Len(x) /\ \A i \in 1 .. Len(x) : t[i] = x[i]
      BY <1>3, <2>2, <2>4, <2>5, <2>6, <2>7, <3>1
    <3>3. t = x
      BY ONLY <1>3, <3>2, SeqEqual
    <3> QED
      BY <3>1, <3>3
  <2>9. NoEnds(x) = first \o NoEnds(tail)
    <3>1. NoEnds(first) = first
      BY <2>7, WithoutNone DEF NoEnds
    <3> QED
      BY <2>7, <2>8, <3>1, WithoutConcat DEF NoEnds
  <2>10. PICK r : r = NoEnds(tail)
    OBVIOUS
  <2>11. r \in Seq(Token)
    BY <2>7, <2>10, WithoutType DEF NoEnds
  <2>12. first \o r # <<>>
    BY ONLY <2>3, <2>4, <2>5, <2>11
  <2> QED
    BY <1>3, <2>9, <2>10, <2>12
<1> QED
  BY <1>4, <1>5

\* While every read ends with the end of a line, and no line of the server is
\* empty, the lines handled are the lines sent, in their order, and nothing is
\* held back.
THEOREM WholeLinesStayWhole ==
    ASSUME <<>> \notin Lines
    PROVE  Spec => []LinesAreWhole
<1>1. Init => LinesInv /\ WholeInv
  BY LinesInvInit, WholeInvInit
<1>2. LinesInv /\ WholeInv /\ [Next]_ircVars => LinesInv' /\ WholeInv'
  BY LinesInvStep, WholeInvStep
<1>3. LinesInv /\ WholeInv => LinesAreWhole
  BY WholeInvTells
<1> QED
  BY <1>1, <1>2, <1>3, PTL DEF Spec

-----------------------------------------------------------------------------
(* Codes in a text.                                                        *)

IsSeq(s) == \E S : s \in Seq(S)

LEMMA SeqOfItself ==
    ASSUME NEW s, IsSeq(s)
    PROVE  s \in Seq(ToSet(s))
<1>1. PICK S : s \in Seq(S)
  BY DEF IsSeq
<1>2. \A i \in 1 .. Len(s) : s[i] \in ToSet(s)
  BY <1>1 DEF ToSet
<1> QED
  BY <1>1, <1>2

LEMMA TuplesAreSeqs ==
    /\ IsSeq(<<>>)
    /\ \A a : IsSeq(<<a>>)
    /\ \A a, b : IsSeq(<<a, b>>)
    /\ \A a, b, c, d : IsSeq(<<a, b, c, d>>)
    /\ \A a, b, c, d, e : IsSeq(<<a, b, c, d, e>>)
<1>1. IsSeq(<<>>)
  BY EmptyIn DEF IsSeq
<1>2. ASSUME NEW a PROVE IsSeq(<<a>>)
  <2>1. <<a>> \in Seq({a})
    OBVIOUS
  <2> QED
    BY <2>1 DEF IsSeq
<1>3. ASSUME NEW a, NEW b PROVE IsSeq(<<a, b>>)
  <2>1. <<a, b>> \in Seq({a, b})
    OBVIOUS
  <2> QED
    BY <2>1 DEF IsSeq
<1>4. ASSUME NEW a, NEW b, NEW c, NEW d PROVE IsSeq(<<a, b, c, d>>)
  <2>1. <<a, b, c, d>> \in Seq({a, b, c, d})
    OBVIOUS
  <2> QED
    BY <2>1 DEF IsSeq
<1>5. ASSUME NEW a, NEW b, NEW c, NEW d, NEW e PROVE IsSeq(<<a, b, c, d, e>>)
  <2>1. <<a, b, c, d, e>> \in Seq({a, b, c, d, e})
    OBVIOUS
  <2> QED
    BY <2>1 DEF IsSeq
<1> QED
  BY <1>1, <1>2, <1>3, <1>4, <1>5

LEMMA JoinedSeqs ==
    ASSUME NEW s, NEW t, IsSeq(s), IsSeq(t)
    PROVE  IsSeq(s \o t)
<1>1. PICK S : s \in Seq(S)
  BY DEF IsSeq
<1>2. PICK T : t \in Seq(T)
  BY DEF IsSeq
<1>3. s \in Seq(S \union T) /\ t \in Seq(S \union T)
  BY <1>1, <1>2
<1>4. s \o t \in Seq(S \union T)
  BY <1>3
<1> QED
  BY <1>4 DEF IsSeq

LEMMA SpacesAreSeqs ==
    ASSUME NEW n \in Nat
    PROVE  IsSeq(Spaces(n))
<1>1. ASSUME NEW x PROVE IsSeq([i \in 1 .. n |-> x])
  <2>1. [i \in 1 .. n |-> x] \in Seq({x})
    OBVIOUS
  <2> QED
    BY <2>1 DEF IsSeq
<1> QED
  BY <1>1 DEF Spaces

LEMMA CSIsAreSeqs ==
    ASSUME NEW s, IsSeq(s)
    PROVE  IsSeq(CSI(s))
<1>1. PICK csi : csi = <<"ESC", "[">>
  OBVIOUS
<1>2. IsSeq(csi)
  BY <1>1, TuplesAreSeqs
<1>3. IsSeq(csi \o s)
  BY <1>2, JoinedSeqs
<1> QED
  BY <1>1, <1>3 DEF CSI

LEMMA ColoursAreSeqs ==
    ASSUME NEW code
    PROVE  IsSeq(pipeColors(code))
<1>1. ASSUME NEW n PROVE IsSeq(pipeReplaceForground(n))
  <2>1. ASSUME NEW a, NEW b, NEW c, NEW d, NEW e PROVE IsSeq(CSI(<<a, b, c, d, e>>))
    <3>1. PICK s : s = <<a, b, c, d, e>>
      OBVIOUS
    <3>2. IsSeq(s)
      BY <3>1, TuplesAreSeqs
    <3> QED
      BY <3>1, <3>2, CSIsAreSeqs
  <2> QED
    BY ONLY <2>1 DEF pipeReplaceForground
<1>2. ASSUME NEW n PROVE IsSeq(pipeReplaceBackground(n))
  <2>1. PICK s : s = <<"4", AnsiColour[n - 15], "m">>
    OBVIOUS
  <2>2. IsSeq(s)
    <3>1. s \in Seq({"4", AnsiColour[n - 15], "m"})
      BY <2>1
    <3> QED
      BY <3>1 DEF IsSeq
  <2> QED
    BY <2>1, <2>2, CSIsAreSeqs DEF pipeReplaceBackground
<1>3. IsSeq(Spaces(3))
  BY SpacesAreSeqs
<1> DEFINE n == 10 * Value[code[2]] + Value[code[3]]
           low == n < 16
           middle == n >= 16 /\ n < 24
<1>4. pipeColors(code) = CASE low -> pipeReplaceForground(n)
                           [] middle -> pipeReplaceBackground(n)
                           [] OTHER -> Spaces(3)
  BY DEF pipeColors
<1> HIDE DEF n, low, middle
<1>5. \/ pipeColors(code) = pipeReplaceForground(n)
      \/ pipeColors(code) = pipeReplaceBackground(n)
      \/ pipeColors(code) = Spaces(3)
  BY <1>4
<1> QED
  BY <1>1, <1>2, <1>3, <1>5

LEMMA MovesAreSeqs ==
    ASSUME NEW code, IsSeq(code)
    PROVE  IsSeq(seperatePipeWithCharsDigits(code))
<1> DEFINE digits == SubSeq(code, 3, Len(code))
           n == FoldLeft(LAMBDA sum, d : 10 * sum + Value[d], 0, digits)
           number == IF n <= 1 THEN <<>> ELSE Numeral(n)
           last == <<Movement[code[2]]>>
<1>1. ASSUME NEW k PROVE IsSeq(Numeral(k))
  <2> DEFINE small == k < 10
             digit(j) == CHOOSE d \in Digits : Value[d] = j
             one == digit(k)
             ten == digit(k \div 10)
             rest == digit(k % 10)
  <2>1. Numeral(k) = IF small THEN <<one>> ELSE <<ten, rest>>
    BY DEF Numeral
  <2> HIDE DEF small, one, ten, rest
  <2>2. Numeral(k) = <<one>> \/ Numeral(k) = <<ten, rest>>
    BY <2>1
  <2> QED
    BY <2>2, TuplesAreSeqs
<1>2. seperatePipeWithCharsDigits(code) =
        IF code[3] \notin Digits \/ code[2] \notin DOMAIN Movement THEN code
        ELSE CSI(number \o last)
  BY DEF seperatePipeWithCharsDigits
<1>3. IsSeq(number)
  <2> DEFINE small == n <= 1
  <2>1. number = IF small THEN <<>> ELSE Numeral(n)
    OBVIOUS
  <2> HIDE DEF small, n, number
  <2> QED
    BY <1>1, <2>1, TuplesAreSeqs
<1>4. IsSeq(last)
  BY TuplesAreSeqs
<1> HIDE DEF number, last
<1>5. IsSeq(CSI(number \o last))
  <2>1. PICK s : s = number \o last
    OBVIOUS
  <2>2. IsSeq(s)
    BY <1>3, <1>4, <2>1, JoinedSeqs
  <2> QED
    BY <2>1, <2>2, CSIsAreSeqs
<1> QED
  BY <1>2, <1>5

LEMMA ScreenCodesAreSeqs ==
    ASSUME NEW code
    PROVE  IsSeq(parsePipeWithChars(code))
<1>1. IsSeq(ClearScreen)
  <2>1. ASSUME NEW a, NEW b PROVE IsSeq(CSI(<<a, b>>))
    <3>1. PICK s : s = <<a, b>>
      OBVIOUS
    <3> QED
      BY <3>1, TuplesAreSeqs, CSIsAreSeqs
  <2>2. ASSUME NEW a, NEW b, NEW c, NEW d PROVE IsSeq(CSI(<<a, b, c, d>>))
    <3>1. PICK s : s = <<a, b, c, d>>
      OBVIOUS
    <3> QED
      BY <3>1, TuplesAreSeqs, CSIsAreSeqs
  <2>3. PICK s : s = CSI(<<"2", "J">>)
    OBVIOUS
  <2>4. PICK t : t = CSI(<<"1", ";", "1", "H">>)
    OBVIOUS
  <2>5. IsSeq(s) /\ IsSeq(t)
    BY ONLY <2>1, <2>2, <2>3, <2>4
  <2>6. IsSeq(s \o t)
    BY <2>5, JoinedSeqs
  <2>7. ClearScreen = s \o t
    BY <2>3, <2>4 DEF ClearScreen
  <2> QED
    BY <2>6, <2>7
<1>2. IsSeq(<<"CR", "LF">>)
  BY TuplesAreSeqs
<1>3. IsSeq(Spaces(3))
  BY SpacesAreSeqs
<1>4. \/ parsePipeWithChars(code) = ClearScreen
      \/ parsePipeWithChars(code) = <<"CR", "LF">>
      \/ parsePipeWithChars(code) = Spaces(3)
  BY DEF parsePipeWithChars
<1> QED
  BY <1>1, <1>2, <1>3, <1>4

(* Whatever the code, what stands for it is a text.                        *)
LEMMA ReplacementsAreSeqs ==
    ASSUME NEW code, IsSeq(code.m_code)
    PROVE  IsSeq(Replacement(code))
<1>1. \/ Replacement(code) = pipeColors(code.m_code)
      \/ Replacement(code) = Spaces(7)
      \/ Replacement(code) = seperatePipeWithCharsDigits(code.m_code)
      \/ Replacement(code) = parsePipeWithChars(code.m_code)
      \/ Replacement(code) = Spaces(3)
  BY DEF Replacement
<1>2. IsSeq(Spaces(7)) /\ IsSeq(Spaces(3))
  BY SpacesAreSeqs
<1> QED
  BY <1>1, <1>2, ColoursAreSeqs, MovesAreSeqs, ScreenCodesAreSeqs

-----------------------------------------------------------------------------
(* Where the codes are.                                                    *)

LEMMA ShapesTyped ==
    \A k \in DOMAIN STD_EXPRESSION :
        /\ k \in Nat
        /\ Len(STD_EXPRESSION[k].classes) \in Nat /\ Len(STD_EXPRESSION[k].classes) >= 1
<1>1. DOMAIN STD_EXPRESSION = 1 .. 9
  BY DEF STD_EXPRESSION
<1>2. ASSUME NEW k \in 1 .. 9
      PROVE  Len(STD_EXPRESSION[k].classes) \in {3, 4, 5, 7}
  BY DEF STD_EXPRESSION, Shape
<1> SUFFICES ASSUME NEW k \in DOMAIN STD_EXPRESSION
             PROVE  /\ k \in Nat
                    /\ Len(STD_EXPRESSION[k].classes) \in Nat
                    /\ Len(STD_EXPRESSION[k].classes) >= 1
  OBVIOUS
<1>3. k \in 1 .. 9
  BY <1>1
<1>4. PICK l : l = Len(STD_EXPRESSION[k].classes)
  OBVIOUS
<1>5. l \in {3, 4, 5, 7}
  BY <1>2, <1>3, <1>4
<1>6. l \in Nat /\ l >= 1
  BY <1>5
<1> QED
  BY <1>3, <1>4, <1>6

\* What CodeAt says of a place.
CodeIs(text, i, code) ==
    \/ code = <<>>
    \/ /\ code = <<code[1]>>
       /\ code[1].m_offset = i
       /\ code[1].m_length \in Nat /\ code[1].m_length >= 1
       /\ i + code[1].m_length <= Len(text) + 1
       /\ IsSeq(code[1].m_code)

LEMMA CodeAtIs ==
    ASSUME NEW S, NEW text \in Seq(S), NEW i \in 1 .. Len(text)
    PROVE  CodeIs(text, i, CodeAt(text, i, STD_EXPRESSION))
<1> DEFINE E == STD_EXPRESSION
           fitting == {k \in DOMAIN E : Fits(text, i, E[k])}
           found == E[Min(fitting)]
           length == Len(found.classes)
           code == [m_offset |-> i, m_length |-> length, m_match |-> found.match,
                    m_code |-> SubSeq(text, i, i + length - 1)]
<1>1. CodeAt(text, i, E) = IF fitting = {} THEN <<>> ELSE <<code>>
  BY DEF CodeAt
<1>2. CASE fitting = {}
  BY <1>1, <1>2 DEF CodeIs
<1>3. CASE fitting # {}
  <2> HIDE DEF E
  <2>1. \A k \in fitting : k \in Nat
    BY ShapesTyped DEF E
  <2>2. Min(fitting) \in fitting
    <3> HIDE DEF fitting
    <3>1. fitting \in SUBSET Nat
      BY <2>1
    <3> QED
      BY <1>3, <3>1, LeastOf DEF Min
  <2>3. PICK m : m = Min(fitting)
    OBVIOUS
  <2>4. m \in DOMAIN E /\ Fits(text, i, E[m]) /\ found = E[m]
    BY <2>2, <2>3
  <2>5. length \in Nat /\ length >= 1
    BY <2>4, ShapesTyped DEF E
  <2>6. i + length - 1 <= Len(text)
    BY <2>4 DEF Fits
  <2> HIDE DEF fitting, found, length
  <2>7. i \in Nat /\ Len(text) \in Nat /\ i >= 1
    OBVIOUS
  <2>8. IsSeq(SubSeq(text, i, i + length - 1))
    <3>1. SubSeq(text, i, i + length - 1) \in Seq(S)
      BY <2>5, <2>6, <2>7
    <3> QED
      BY <3>1 DEF IsSeq
  <2>9. /\ code.m_offset = i /\ code.m_length = length
        /\ code.m_code = SubSeq(text, i, i + length - 1)
    OBVIOUS
  <2> HIDE DEF code
  <2>10. i + code.m_length <= Len(text) + 1
    BY <2>5, <2>6, <2>7, <2>9
  <2>11. CodeAt(text, i, E) = <<code>>
    BY <1>1, <1>3
  <2>12. <<code>>[1] = code
    OBVIOUS
  <2> QED
    BY <2>5, <2>8, <2>9, <2>10, <2>11, <2>12 DEF CodeIs, E
<1> QED
  BY <1>2, <1>3

-----------------------------------------------------------------------------
(* The codes replaced, the last one first.                                 *)

\* The texts that parseCodeMap goes through, from the last code to the first.
Replaces(f, text, codes) ==
    f = [k \in 1 .. Len(codes) + 1 |->
            IF k = Len(codes) + 1 THEN text ELSE ReplaceCode(f[k + 1], codes[k])]

\* They come to this one.
ComesTo(text, codes, result) ==
    /\ \E f : Replaces(f, text, codes)
    /\ \A f : Replaces(f, text, codes) => f[1] = result

LEMMA ReplacesValue ==
    ASSUME NEW f, NEW text, NEW codes, Replaces(f, text, codes),
           NEW k \in 1 .. Len(codes) + 1
    PROVE  f[k] = IF k = Len(codes) + 1 THEN text ELSE ReplaceCode(f[k + 1], codes[k])
<1> DEFINE g == [j \in 1 .. Len(codes) + 1 |->
                   IF j = Len(codes) + 1 THEN text ELSE ReplaceCode(f[j + 1], codes[j])]
<1>1. f = g
  BY DEF Replaces
<1>2. g[k] = IF k = Len(codes) + 1 THEN text ELSE ReplaceCode(f[k + 1], codes[k])
  OBVIOUS
<1> HIDE DEF g
<1> QED
  BY <1>1, <1>2

(* Where there is no code, the text stays.                                 *)
LEMMA NoneToReplace ==
    ASSUME NEW text
    PROVE  ComesTo(text, <<>>, text)
<1>1. Len(<<>>) + 1 = 1
  OBVIOUS
<1>2. \E f : Replaces(f, text, <<>>)
  <2> DEFINE f == [k \in 1 .. 1 |-> text]
  <2>1. f = [k \in 1 .. Len(<<>>) + 1 |->
              IF k = Len(<<>>) + 1 THEN text ELSE ReplaceCode(f[k + 1], <<>>[k])]
    <3>1. \A k \in 1 .. 1 : k = 1
      OBVIOUS
    <3> QED
      BY <1>1, <3>1
  <2> QED
    BY <2>1 DEF Replaces
<1>3. ASSUME NEW f, Replaces(f, text, <<>>) PROVE f[1] = text
  <2>1. 1 \in 1 .. Len(<<>>) + 1
    BY <1>1
  <2>2. PICK none : none = <<>>
    OBVIOUS
  <2> QED
    BY <1>1, <1>3, <2>1, <2>2, ReplacesValue
<1> QED
  BY <1>2, <1>3 DEF ComesTo

(* A code in front of the others is replaced after them.                   *)
LEMMA OneMoreToReplace ==
    ASSUME NEW text, NEW M, NEW codes \in Seq(M), NEW code \in M, NEW result,
           ComesTo(text, codes, result), NEW more, more = <<code>> \o codes
    PROVE  ComesTo(text, more, ReplaceCode(result, code))
<1> DEFINE n == Len(codes)
<1>1. n \in Nat /\ Len(more) = n + 1
  OBVIOUS
<1>2. more[1] = code /\ \A k \in 1 .. n : more[k + 1] = codes[k]
  OBVIOUS
<1> HIDE DEF n
<1>3. \E g : Replaces(g, text, more)
  <2>1. PICK f : Replaces(f, text, codes)
    BY DEF ComesTo
  <2>2. \A k \in 1 .. n + 1 :
           f[k] = IF k = n + 1 THEN text ELSE ReplaceCode(f[k + 1], codes[k])
    BY <2>1, ReplacesValue DEF n
  <2> DEFINE g == [k \in 1 .. n + 2 |-> IF k = 1 THEN ReplaceCode(f[1], code) ELSE f[k - 1]]
  <2>3. ASSUME NEW k \in 1 .. n + 2
        PROVE  g[k] = IF k = n + 2 THEN text ELSE ReplaceCode(g[k + 1], more[k])
    <3>1. CASE k = 1
      <4>1. g[1] = ReplaceCode(f[1], code) /\ g[2] = f[1] /\ 1 # n + 2
        <5>1. 1 \in 1 .. n + 2 /\ 2 \in 1 .. n + 2 /\ 2 - 1 = 1 /\ 1 # n + 2
          BY <1>1
        <5> QED
          BY <5>1
      <4> HIDE DEF g
      <4> QED
        BY <1>2, <3>1, <4>1
    <3>2. CASE k # 1 /\ k # n + 2
      <4>1. /\ k - 1 \in 1 .. n /\ k - 1 \in 1 .. n + 1 /\ k - 1 # n + 1 /\ k \in 1 .. n + 1
            /\ k + 1 \in 1 .. n + 2 /\ (k + 1) - 1 = k /\ (k - 1) + 1 = k /\ k + 1 # 1
        BY <1>1, <3>2
      <4>2. g[k] = f[k - 1] /\ g[k + 1] = f[k]
        BY <3>2, <4>1
      <4> HIDE DEF g
      <4>3. f[k - 1] = ReplaceCode(f[k], codes[k - 1]) /\ more[k] = codes[k - 1]
        BY <1>2, <2>2, <4>1
      <4> QED
        BY <3>2, <4>2, <4>3
    <3>3. CASE k = n + 2
      <4>1. k # 1 /\ k - 1 = n + 1 /\ n + 1 \in 1 .. n + 1
        BY <1>1, <3>3
      <4>2. g[k] = f[k - 1]
        BY <4>1
      <4> HIDE DEF g
      <4>3. f[n + 1] = text
        BY <2>2, <4>1
      <4> QED
        BY <3>3, <4>1, <4>2, <4>3
    <3> QED
      BY <3>1, <3>2, <3>3
  <2>4. g = [k \in 1 .. n + 2 |-> IF k = n + 2 THEN text ELSE ReplaceCode(g[k + 1], more[k])]
    <3>1. g = [k \in 1 .. n + 2 |-> g[k]]
      OBVIOUS
    <3> HIDE DEF g
    <3> QED
      BY <2>3, <3>1
  <2> HIDE DEF g
  <2>5. Len(more) + 1 = n + 2
    BY <1>1
  <2> QED
    BY <2>4, <2>5 DEF Replaces
<1>4. ASSUME NEW g, Replaces(g, text, more) PROVE g[1] = ReplaceCode(result, code)
  <2>1. \A k \in 1 .. n + 2 :
           g[k] = IF k = n + 2 THEN text ELSE ReplaceCode(g[k + 1], more[k])
    <3>1. Len(more) + 1 = n + 2
      BY <1>1
    <3> SUFFICES ASSUME NEW k \in 1 .. n + 2
                 PROVE  g[k] = IF k = n + 2 THEN text ELSE ReplaceCode(g[k + 1], more[k])
      OBVIOUS
    <3>2. k \in 1 .. Len(more) + 1
      BY <3>1
    <3>3. g[k] = IF k = Len(more) + 1 THEN text ELSE ReplaceCode(g[k + 1], more[k])
      BY ONLY <1>4, <3>2, ReplacesValue
    <3> QED
      BY <3>1, <3>3
  <2> DEFINE f == [k \in 1 .. n + 1 |-> g[k + 1]]
  <2>2. ASSUME NEW k \in 1 .. n + 1
        PROVE  f[k] = IF k = n + 1 THEN text ELSE ReplaceCode(f[k + 1], codes[k])
    <3>1. f[k] = g[k + 1] /\ k + 1 \in 1 .. n + 2
      BY <1>1
    <3>2. CASE k = n + 1
      <4>1. k + 1 = n + 2
        BY <1>1, <3>2
      <4> HIDE DEF f
      <4> QED
        BY <2>1, <3>1, <3>2, <4>1
    <3>3. CASE k # n + 1
      <4>1. k \in 1 .. n /\ k + 1 \in 1 .. n + 1 /\ k + 1 # n + 2
        BY <1>1, <3>3
      <4>2. f[k + 1] = g[(k + 1) + 1]
        BY <4>1
      <4> HIDE DEF f
      <4>3. g[k + 1] = ReplaceCode(g[(k + 1) + 1], more[k + 1])
        BY <2>1, <3>1, <4>1
      <4> QED
        BY <1>2, <3>1, <3>3, <4>1, <4>2, <4>3
    <3> QED
      BY <3>2, <3>3
  <2>3. f = [k \in 1 .. n + 1 |-> IF k = n + 1 THEN text ELSE ReplaceCode(f[k + 1], codes[k])]
    <3>1. f = [k \in 1 .. n + 1 |-> f[k]]
      OBVIOUS
    <3> HIDE DEF f
    <3> QED
      BY <2>2, <3>1
  <2>4. f[1] = g[2]
    <3>1. 1 \in 1 .. n + 1 /\ 1 + 1 = 2
      BY <1>1
    <3> QED
      BY <3>1
  <2> HIDE DEF f
  <2>5. f[1] = result
    BY <2>3 DEF ComesTo, Replaces, n
  <2>6. g[1] = ReplaceCode(g[2], more[1])
    <3>1. 1 \in 1 .. n + 2 /\ 1 # n + 2 /\ 1 + 1 = 2
      BY <1>1
    <3> QED
      BY <2>1, <3>1
  <2> QED
    BY <1>2, <2>4, <2>5, <2>6
<1> QED
  BY <1>3, <1>4 DEF ComesTo

LEMMA SeqsJoin ==
    ASSUME NEW S, NEW a \in Seq(S), NEW b \in Seq(S), NEW c \in Seq(S)
    PROVE  JoinedInAnyOrder(a, b, c)
BY ConcatAssoc DEF JoinedInAnyOrder

\* The code from i to j replaced, where the text from j on is rest.
PutInPlace(text, rest, code, i, j) ==
    ReplaceCode(SubSeq(text, 1, j - 1) \o rest, code)
        = SubSeq(text, 1, i - 1) \o (Replacement(code) \o rest)

(* A code is replaced where it was, when those after it have been.         *)
LEMMA ReplacedAtPlace ==
    ASSUME NEW S, NEW text \in Seq(S), NEW rest \in Seq(S), NEW code,
           NEW i \in 1 .. Len(text), code.m_offset = i,
           NEW j \in 1 .. Len(text) + 1, i + code.m_length = j, i <= j,
           Replacement(code) \in Seq(S)
    PROVE  PutInPlace(text, rest, code, i, j)
<1>1. PICK r : r = Replacement(code)
  OBVIOUS
<1>2. PICK v : v = SubSeq(text, 1, j - 1) \o rest
  OBVIOUS
<1>3. PICK front : front = SubSeq(text, 1, j - 1)
  OBVIOUS
<1>4. PICK before : before = SubSeq(text, 1, i - 1)
  OBVIOUS
<1>5. Len(text) \in Nat /\ i \in Nat /\ j \in Nat /\ i >= 1 /\ j <= Len(text) + 1
  OBVIOUS
<1>6. front \in Seq(S) /\ Len(front) = j - 1 /\ \A k \in 1 .. j - 1 : front[k] = text[k]
  BY ONLY <1>3, <1>5, i <= j, text \in Seq(S)
<1>7. before \in Seq(S) /\ Len(before) = i - 1 /\ \A k \in 1 .. i - 1 : before[k] = text[k]
  BY ONLY <1>4, <1>5, i <= j, text \in Seq(S)
<1>8. v \in Seq(S) /\ v = front \o rest
  BY <1>2, <1>3, <1>6
<1>9. SubSeq(v, 1, i - 1) = before
  <2>1. PICK p : p = SubSeq(v, 1, i - 1)
    OBVIOUS
  <2>2. /\ Len(v) = (j - 1) + Len(rest) /\ Len(rest) \in Nat
        /\ \A k \in 1 .. j - 1 : v[k] = front[k]
    <3>1. Len(rest) \in Nat /\ Len(v) = Len(front) + Len(rest)
      <4>1. front \in Seq(S) /\ rest \in Seq(S) /\ v = front \o rest
        BY <1>6, <1>8
      <4> QED
        BY ONLY <4>1
    <3>2. \A k \in 1 .. Len(front) : v[k] = front[k]
      BY ONLY <1>6, <1>8, rest \in Seq(S)
    <3> QED
      BY ONLY <1>6, <3>1, <3>2
  <2>3. i - 1 <= Len(v) /\ \A k \in 1 .. i - 1 : k \in 1 .. j - 1
    BY ONLY <1>5, <2>2, i <= j
  <2>4. p \in Seq(S) /\ Len(p) = i - 1 /\ \A k \in 1 .. i - 1 : p[k] = v[k]
    BY ONLY <1>5, <1>8, <2>1, <2>3
  <2>5. \A k \in 1 .. Len(p) : p[k] = before[k]
    BY ONLY <1>6, <1>7, <2>2, <2>3, <2>4
  <2>6. p = before
    BY ONLY <1>7, <2>4, <2>5, SeqEqual
  <2> QED
    BY <2>1, <2>6
<1>10. SubSeq(v, j, Len(v)) = rest
  BY ONLY <1>5, <1>6, <1>8, i <= j, rest \in Seq(S)
<1>11. ReplaceCode(v, code) = (before \o r) \o rest
  BY <1>1, <1>9, <1>10 DEF ReplaceCode
<1>12. (before \o r) \o rest = before \o (r \o rest)
  <2>1. JoinedInAnyOrder(before, r, rest)
    BY <1>1, <1>7, SeqsJoin
  <2> QED
    BY <2>1 DEF JoinedInAnyOrder
<1> QED
  BY <1>1, <1>2, <1>4, <1>11, <1>12 DEF PutInPlace

-----------------------------------------------------------------------------
(* Text and codes from the left and from the right.                        *)

Code(text, i) == CodeAt(text, i, STD_EXPRESSION)
\* How far the next search starts, what it has found, and what one reads.
Jumps(text) ==
    [i \in 1 .. Len(text) |-> IF Code(text, i) = <<>> THEN 1 ELSE Code(text, i)[1].m_length]
Found(text) == [i \in 1 .. Len(text) |-> Code(text, i)]
Shown(text) ==
    [i \in 1 .. Len(text) |->
        IF Code(text, i) = <<>> THEN <<text[i]>> ELSE Replacement(Code(text, i)[1])]
AllCodes(text) == {Code(text, i)[1] : i \in 1 .. Len(text)}
AllShown(text) == ToSet(text) \union UNION {ToSet(Shown(text)[i]) : i \in 1 .. Len(text)}

LEMMA JumpsFurther ==
    ASSUME NEW S, NEW text \in Seq(S)
    PROVE  /\ Further(Len(text), Jumps(text))
           /\ Found(text) \in [1 .. Len(text) -> Seq(AllCodes(text))]
           /\ Shown(text) \in [1 .. Len(text) -> Seq(AllShown(text))]
           /\ text \in Seq(AllShown(text))
<1> DEFINE n == Len(text)
<1>1. n \in Nat
  OBVIOUS
<1>2. ASSUME NEW i \in 1 .. n PROVE CodeIs(text, i, Code(text, i))
  BY CodeAtIs DEF Code
<1>3. Further(n, Jumps(text))
  <2> SUFFICES ASSUME NEW i \in 1 .. n
               PROVE  LET d == Jumps(text)[i] IN d \in Nat /\ d >= 1 /\ i + d <= n + 1
    BY DEF Further
  <2>1. Jumps(text)[i] = IF Code(text, i) = <<>> THEN 1 ELSE Code(text, i)[1].m_length
    BY DEF Jumps
  <2>2. CodeIs(text, i, Code(text, i))
    BY <1>2
  <2> QED
    BY <1>1, <2>1, <2>2 DEF CodeIs
<1>4. Found(text) \in [1 .. n -> Seq(AllCodes(text))]
  <2>1. ASSUME NEW i \in 1 .. n PROVE Code(text, i) \in Seq(AllCodes(text))
    <3>1. PICK c : c = Code(text, i)
      OBVIOUS
    <3>2. c = <<>> \/ c = <<c[1]>>
      BY <1>2, <3>1 DEF CodeIs
    <3>3. c[1] \in AllCodes(text)
      BY <3>1 DEF AllCodes
    <3>4. PICK x : x = c[1]
      OBVIOUS
    <3>5. <<x>> \in Seq(AllCodes(text)) /\ <<>> \in Seq(AllCodes(text))
      BY <3>3, <3>4
    <3> QED
      BY <3>1, <3>2, <3>4, <3>5
  <2> QED
    BY <2>1 DEF Found
<1>5. Shown(text) \in [1 .. n -> Seq(AllShown(text))]
  <2>1. ASSUME NEW i \in 1 .. n PROVE Shown(text)[i] \in Seq(AllShown(text))
    <3>1. PICK s : s = Shown(text)[i]
      OBVIOUS
    <3>2. s = IF Code(text, i) = <<>> THEN <<text[i]>> ELSE Replacement(Code(text, i)[1])
      BY <3>1 DEF Shown
    <3>3. IsSeq(s)
      BY <1>2, <3>2, TuplesAreSeqs, ReplacementsAreSeqs DEF CodeIs
    <3>4. s \in Seq(ToSet(s))
      BY <3>3, SeqOfItself
    <3>5. ToSet(s) \subseteq AllShown(text)
      BY <3>1 DEF AllShown
    <3>6. s \in Seq(AllShown(text))
      BY ONLY <3>4, <3>5
    <3> QED
      BY <3>1, <3>6
  <2> QED
    BY <2>1 DEF Shown
<1>6. text \in Seq(AllShown(text))
  <2>1. IsSeq(text)
    BY DEF IsSeq
  <2>2. text \in Seq(ToSet(text))
    BY <2>1, SeqOfItself
  <2>3. ToSet(text) \subseteq AllShown(text)
    BY DEF AllShown
  <2> QED
    BY ONLY <2>2, <2>3
<1> QED
  BY <1>3, <1>4, <1>5, <1>6

(* What parseToCodeMap returns.                                            *)
LEMMA CodeMapIs ==
    ASSUME NEW S, NEW text \in Seq(S),
           NEW p \in [1 .. Len(text) + 1 -> Seq(AllCodes(text))],
           p[Len(text) + 1] = <<>>,
           \A i \in 1 .. Len(text) : p[i] = Found(text)[i] \o p[i + Jumps(text)[i]]
    PROVE  parseToCodeMap(text, STD_EXPRESSION) = p[1]
<1> DEFINE n == Len(text)
           Body(f, i) ==
               IF i = n + 1 THEN <<>>
               ELSE IF Code(text, i) = <<>> THEN f[i + 1]
                    ELSE Code(text, i) \o f[i + Code(text, i)[1].m_length]
           Eq(f) == f = [i \in 1 .. n + 1 |-> Body(f, i)]
           g == CHOOSE f : Eq(f)
<1>1. parseToCodeMap(text, STD_EXPRESSION) = g[1]
  BY DEF parseToCodeMap, Code
<1>2. n \in Nat /\ Further(n, Jumps(text)) /\ Found(text) \in [1 .. n -> Seq(AllCodes(text))]
  BY JumpsFurther
<1> HIDE DEF n
<1>3. ASSUME NEW i \in 1 .. n
      PROVE  /\ Code(text, i) = <<>> => Jumps(text)[i] = 1
             /\ Code(text, i) # <<>> => Jumps(text)[i] = Code(text, i)[1].m_length
             /\ Found(text)[i] = Code(text, i)
  BY DEF Jumps, Found, n
<1>4. ASSUME NEW i \in 1 .. n + 1 PROVE p[i] = Body(p, i)
  <2>1. CASE i = n + 1
    BY <2>1 DEF n
  <2>2. CASE i # n + 1
    <3>1. i \in 1 .. n
      BY <1>2, <2>2
    <3>2. p[i] = Code(text, i) \o p[i + Jumps(text)[i]]
      BY <1>3, <3>1 DEF n
    <3>3. CASE Code(text, i) = <<>>
      <4>1. i + 1 \in 1 .. n + 1
        BY <1>2, <3>1
      <4>2. p[i + 1] \in Seq(AllCodes(text))
        BY <4>1 DEF n
      <4>3. <<>> \o p[i + 1] = p[i + 1]
        BY <4>2, ConcatEmpty
      <4> QED
        BY <1>3, <2>2, <3>1, <3>2, <3>3, <4>3
    <3>4. CASE Code(text, i) # <<>>
      BY <1>3, <2>2, <3>1, <3>2, <3>4
    <3> QED
      BY <3>3, <3>4
  <2> QED
    BY <2>1, <2>2
<1>5. Eq(p)
  <2>1. p = [i \in 1 .. n + 1 |-> p[i]]
    BY DEF n
  <2> HIDE DEF Body
  <2> QED
    BY <1>4, <2>1
<1>6. Eq(g)
  <2> HIDE DEF Eq
  <2> QED
    BY <1>5
<1> HIDE DEF g
<1>7. ASSUME NEW i \in 1 .. n + 1 PROVE g[i] = Body(g, i)
  <2> HIDE DEF Body
  <2> QED
    BY <1>6
<1>8. JumpsDown(g, n, Found(text), Jumps(text))
  <2>1. g[n + 1] = <<>>
    <3>1. n + 1 \in 1 .. n + 1
      BY <1>2
    <3> QED
      BY <1>7, <3>1
  <2>2. ASSUME NEW i \in 1 .. n
        PROVE  \/ g[i] = Found(text)[i] \o g[i + Jumps(text)[i]]
               \/ Found(text)[i] = <<>> /\ g[i] = g[i + Jumps(text)[i]]
    <3>1. i \in 1 .. n + 1 /\ i # n + 1
      BY <1>2
    <3>2. g[i] = IF Code(text, i) = <<>> THEN g[i + 1]
                 ELSE Code(text, i) \o g[i + Code(text, i)[1].m_length]
      BY <1>7, <3>1
    <3> QED
      BY <1>3, <3>2
  <2> QED
    BY <2>1, <2>2 DEF JumpsDown
<1>9. JumpsDown(p, n, Found(text), Jumps(text))
  BY DEF JumpsDown, n
<1>10. p \in [1 .. n + 1 -> Seq(AllCodes(text))]
  BY DEF n
<1>11. \A i \in 1 .. n + 1 : g[i] = p[i]
  BY ONLY <1>2, <1>8, <1>9, <1>10, JumpsOnce
<1>12. 1 \in 1 .. n + 1
  BY <1>2
<1> QED
  BY <1>1, <1>11, <1>12

(* What one reads.                                                         *)
LEMMA AsReadIs ==
    ASSUME NEW S, NEW text \in Seq(S),
           NEW a \in [1 .. Len(text) + 1 -> Seq(AllShown(text))],
           a[Len(text) + 1] = <<>>,
           \A i \in 1 .. Len(text) : a[i] = Shown(text)[i] \o a[i + Jumps(text)[i]]
    PROVE  AsRead(text, STD_EXPRESSION) = a[1]
<1> DEFINE n == Len(text)
           Body(f, i) ==
               IF i = n + 1 THEN <<>>
               ELSE IF Code(text, i) = <<>> THEN <<text[i]>> \o f[i + 1]
                    ELSE Replacement(Code(text, i)[1]) \o f[i + Code(text, i)[1].m_length]
           Eq(f) == f = [i \in 1 .. n + 1 |-> Body(f, i)]
           g == CHOOSE f : Eq(f)
<1>1. AsRead(text, STD_EXPRESSION) = g[1]
  BY DEF AsRead, Code
<1>2. n \in Nat /\ Further(n, Jumps(text)) /\ Shown(text) \in [1 .. n -> Seq(AllShown(text))]
  BY JumpsFurther
<1> HIDE DEF n
<1>3. ASSUME NEW i \in 1 .. n
      PROVE  /\ Code(text, i) = <<>> =>
                    Jumps(text)[i] = 1 /\ Shown(text)[i] = <<text[i]>>
             /\ Code(text, i) # <<>> =>
                    /\ Jumps(text)[i] = Code(text, i)[1].m_length
                    /\ Shown(text)[i] = Replacement(Code(text, i)[1])
  BY DEF Jumps, Shown, n
<1>4. ASSUME NEW i \in 1 .. n + 1 PROVE a[i] = Body(a, i)
  <2>1. CASE i = n + 1
    BY <2>1 DEF n
  <2>2. CASE i # n + 1
    <3>1. i \in 1 .. n
      BY <1>2, <2>2
    <3>2. a[i] = Shown(text)[i] \o a[i + Jumps(text)[i]]
      BY <3>1 DEF n
    <3> QED
      BY <1>3, <2>2, <3>1, <3>2
  <2> QED
    BY <2>1, <2>2
<1>5. Eq(a)
  <2>1. a = [i \in 1 .. n + 1 |-> a[i]]
    BY DEF n
  <2> HIDE DEF Body
  <2> QED
    BY <1>4, <2>1
<1>6. Eq(g)
  <2> HIDE DEF Eq
  <2> QED
    BY <1>5
<1> HIDE DEF g
<1>7. ASSUME NEW i \in 1 .. n + 1 PROVE g[i] = Body(g, i)
  <2> HIDE DEF Body
  <2> QED
    BY <1>6
<1>8. JumpsDown(g, n, Shown(text), Jumps(text))
  <2>1. g[n + 1] = <<>>
    <3>1. n + 1 \in 1 .. n + 1
      BY <1>2
    <3> QED
      BY <1>7, <3>1
  <2>2. ASSUME NEW i \in 1 .. n PROVE g[i] = Shown(text)[i] \o g[i + Jumps(text)[i]]
    <3>1. i \in 1 .. n + 1 /\ i # n + 1
      BY <1>2
    <3>2. g[i] = IF Code(text, i) = <<>> THEN <<text[i]>> \o g[i + 1]
                 ELSE Replacement(Code(text, i)[1]) \o g[i + Code(text, i)[1].m_length]
      BY <1>7, <3>1
    <3> QED
      BY <1>3, <3>2
  <2> QED
    BY <2>1, <2>2 DEF JumpsDown
<1>9. JumpsDown(a, n, Shown(text), Jumps(text))
  BY DEF JumpsDown, n
<1>10. a \in [1 .. n + 1 -> Seq(AllShown(text))]
  BY DEF n
<1>11. \A i \in 1 .. n + 1 : g[i] = a[i]
  BY ONLY <1>2, <1>8, <1>9, <1>10, JumpsOnce
<1>12. 1 \in 1 .. n + 1
  BY <1>2
<1> QED
  BY <1>1, <1>11, <1>12

\* The codes from the place i on, replaced: what was in front of i, and then
\* what one reads.
ComesToRead(text, p, a, i) ==
    ComesTo(text, p[i], SubSeq(text, 1, i - 1) \o a[i])

LEMMA ReadFrom ==
    ASSUME NEW S, NEW text \in Seq(S),
           NEW p \in [1 .. Len(text) + 1 -> Seq(AllCodes(text))],
           \A k \in 1 .. Len(text) : p[k] = Found(text)[k] \o p[k + Jumps(text)[k]],
           NEW a \in [1 .. Len(text) + 1 -> Seq(AllShown(text))],
           \A k \in 1 .. Len(text) : a[k] = Shown(text)[k] \o a[k + Jumps(text)[k]],
           NEW i \in 1 .. Len(text), ComesToRead(text, p, a, i + Jumps(text)[i])
    PROVE  ComesToRead(text, p, a, i)
<1> DEFINE n == Len(text)
           U == AllShown(text)
<1>1. /\ n \in Nat /\ Further(n, Jumps(text)) /\ text \in Seq(U)
      /\ Shown(text) \in [1 .. n -> Seq(U)]
  BY JumpsFurther
<1>2. PICK j : j = i + Jumps(text)[i]
  OBVIOUS
<1>3. j \in 1 .. n + 1 /\ i < j /\ j \in Nat /\ i \in Nat
  <2>1. LET d == Jumps(text)[i] IN d \in Nat /\ d >= 1 /\ i + d <= n + 1
    BY <1>1 DEF Further
  <2> QED
    BY <1>1, <1>2, <2>1
<1>4. PICK rest : rest = a[j]
  OBVIOUS
<1>5. PICK codes : codes = p[j]
  OBVIOUS
<1>6. rest \in Seq(U) /\ codes \in Seq(AllCodes(text))
  BY <1>3, <1>4, <1>5
<1>7. PICK shown : shown = Shown(text)[i]
  OBVIOUS
<1>8. shown \in Seq(U)
  BY <1>1, <1>7
<1>9. a[i] = shown \o rest /\ p[i] = Code(text, i) \o codes
  BY <1>2, <1>4, <1>5, <1>7 DEF Found
<1>10. PICK front : front = SubSeq(text, 1, j - 1)
  OBVIOUS
<1>11. ComesTo(text, codes, front \o rest)
  BY <1>2, <1>4, <1>5, <1>10 DEF ComesToRead
<1>12. PICK before : before = SubSeq(text, 1, i - 1)
  OBVIOUS
<1>13. before \in Seq(U)
  <2>1. i - 1 <= n /\ i - 1 \in Nat
    BY <1>1, <1>3
  <2> QED
    BY ONLY <1>1, <1>12, <2>1
<1> SUFFICES ComesTo(text, p[i], before \o (shown \o rest))
  BY <1>9, <1>12 DEF ComesToRead
<1>14. CASE Code(text, i) = <<>>
  <2>1. j = i + 1 /\ shown = <<text[i]>>
    BY <1>2, <1>7, <1>14 DEF Jumps, Shown
  <2>2. p[i] = codes
    BY <1>6, <1>9, <1>14, ConcatEmpty
  <2>3. front = before \o shown
    <3>1. front = Append(before, text[i])
      BY ONLY <1>1, <1>3, <1>10, <1>12, <2>1, i \in 1 .. n
    <3>2. text[i] \in U
      BY <1>1
    <3>3. before \o <<text[i]>> = Append(before, text[i])
      BY <1>13, <3>2, ConcatOne
    <3> QED
      BY <2>1, <3>1, <3>3
  <2>4. JoinedInAnyOrder(before, shown, rest)
    BY <1>6, <1>8, <1>13, SeqsJoin
  <2> QED
    BY <1>11, <2>2, <2>3, <2>4 DEF JoinedInAnyOrder
<1>15. CASE Code(text, i) # <<>>
  <2>1. PICK code : code = Code(text, i)[1]
    OBVIOUS
  <2>2. CodeIs(text, i, Code(text, i))
    BY CodeAtIs DEF Code
  <2>3. /\ Code(text, i) = <<code>> /\ code.m_offset = i
        /\ code \in AllCodes(text) /\ shown = Replacement(code)
        /\ Jumps(text)[i] = code.m_length
    BY <1>7, <1>15, <2>1, <2>2 DEF CodeIs, AllCodes, Shown, Jumps
  <2>4. i + code.m_length = j
    BY <1>2, <2>3
  <2>5. PICK result : result = front \o rest
    OBVIOUS
  <2>6. ComesTo(text, codes, result)
    BY <1>11, <2>5
  <2>7. ComesTo(text, p[i], ReplaceCode(result, code))
    <3>1. PICK more : more = <<code>> \o codes
      OBVIOUS
    <3>2. ComesTo(text, more, ReplaceCode(result, code))
      BY <1>6, <2>3, <2>6, <3>1, OneMoreToReplace
    <3> QED
      BY <1>9, <2>3, <3>1, <3>2
  <2>8. ReplaceCode(result, code) = before \o (shown \o rest)
    <3>1. Replacement(code) \in Seq(U)
      BY <1>8, <2>3
    <3>2. /\ text \in Seq(U) /\ rest \in Seq(U) /\ i \in 1 .. Len(text)
          /\ code.m_offset = i /\ j \in 1 .. Len(text) + 1 /\ i <= j
      BY <1>1, <1>3, <1>6, <2>3
    <3>3. PutInPlace(text, rest, code, i, j)
      BY <2>4, <3>1, <3>2, ReplacedAtPlace
    <3> QED
      BY <1>10, <1>12, <2>3, <2>5, <3>3 DEF PutInPlace
  <2> QED
    BY <2>7, <2>8
<1> QED
  BY <1>14, <1>15

(* Replacing the codes of a text from the last one to the first puts each  *)
(* replacement where the code was.                                         *)
LEMMA ReplacedInPlace ==
    ASSUME NEW S, NEW text \in Seq(S)
    PROVE  pipe2ansi(text) = AsRead(text, STD_EXPRESSION)
<1> DEFINE n == Len(text)
           U == AllShown(text)
           M == AllCodes(text)
<1>1. /\ n \in Nat /\ Further(n, Jumps(text)) /\ text \in Seq(U)
      /\ Found(text) \in [1 .. n -> Seq(M)] /\ Shown(text) \in [1 .. n -> Seq(U)]
  BY JumpsFurther
<1>2. PICK p \in [1 .. n + 1 -> Seq(M)] :
        p[n + 1] = <<>> /\ \A i \in 1 .. n : p[i] = Found(text)[i] \o p[i + Jumps(text)[i]]
  <2> HIDE DEF n, M
  <2>1. PICK X : X = Found(text)
    OBVIOUS
  <2>2. PICK J : J = Jumps(text)
    OBVIOUS
  <2>3. X \in [1 .. n -> Seq(M)] /\ Further(n, J)
    BY <1>1, <2>1, <2>2
  <2>4. PICK f : JumpsFrom(1, f, n, X, J, M)
    BY <1>1, <2>3, JumpsExist
  <2> QED
    BY <2>1, <2>2, <2>4 DEF JumpsFrom
<1>3. PICK a \in [1 .. n + 1 -> Seq(U)] :
        a[n + 1] = <<>> /\ \A i \in 1 .. n : a[i] = Shown(text)[i] \o a[i + Jumps(text)[i]]
  <2> HIDE DEF n, U
  <2>1. PICK X : X = Shown(text)
    OBVIOUS
  <2>2. PICK J : J = Jumps(text)
    OBVIOUS
  <2>3. X \in [1 .. n -> Seq(U)] /\ Further(n, J)
    BY <1>1, <2>1, <2>2
  <2>4. PICK f : JumpsFrom(1, f, n, X, J, U)
    BY <1>1, <2>3, JumpsExist
  <2> QED
    BY <2>1, <2>2, <2>4 DEF JumpsFrom
<1>4. parseToCodeMap(text, STD_EXPRESSION) = p[1]
  BY <1>2, CodeMapIs
<1>5. AsRead(text, STD_EXPRESSION) = a[1]
  BY <1>3, AsReadIs
<1>6. ComesToRead(text, p, a, n + 1)
  <2>1. SubSeq(text, 1, (n + 1) - 1) = text
    BY <1>1
  <2>2. text \o <<>> = text
    BY ConcatEmpty
  <2> QED
    BY <1>2, <1>3, <2>1, <2>2, NoneToReplace DEF ComesToRead
<1>7. ASSUME NEW i \in 1 .. n, ComesToRead(text, p, a, i + Jumps(text)[i])
      PROVE  ComesToRead(text, p, a, i)
  BY <1>2, <1>3, <1>7, ReadFrom
<1> DEFINE T == {m \in Nat : \A i \in 1 .. n + 1 : n + 1 - m <= i => ComesToRead(text, p, a, i)}
<1> HIDE DEF n, U, M
<1>8. 0 \in T
  <2> SUFFICES ASSUME NEW i \in 1 .. n + 1, n + 1 - 0 <= i PROVE ComesToRead(text, p, a, i)
    OBVIOUS
  <2>1. i = n + 1
    BY <1>1
  <2> QED
    BY <1>6, <2>1
<1>9. ASSUME NEW m \in Nat, m \in T PROVE m + 1 \in T
  <2> SUFFICES ASSUME NEW i \in 1 .. n + 1, n + 1 - (m + 1) <= i
               PROVE  ComesToRead(text, p, a, i)
    OBVIOUS
  <2>1. CASE n + 1 - m <= i
    BY <1>9, <2>1
  <2>2. CASE ~(n + 1 - m <= i)
    <3>1. i \in 1 .. n /\ n - m = i
      BY <1>1, <2>2
    <3>2. LET d == Jumps(text)[i] IN d \in Nat /\ d >= 1 /\ i + d <= n + 1
      BY <1>1, <3>1 DEF Further
    <3>3. PICK j : j = i + Jumps(text)[i]
      OBVIOUS
    <3>4. j \in 1 .. n + 1 /\ n + 1 - m <= j
      <4>1. PICK d : d = Jumps(text)[i]
        OBVIOUS
      <4>2. d \in Nat /\ d >= 1 /\ i + d <= n + 1 /\ j = i + d
        BY <3>2, <3>3, <4>1
      <4> QED
        BY ONLY <1>1, <3>1, <4>2, m \in Nat
    <3>5. ComesToRead(text, p, a, j)
      BY <1>9, <3>4
    <3> QED
      BY <1>7, <3>1, <3>3, <3>5
  <2> QED
    BY <2>1, <2>2
<1> HIDE DEF T
<1>10. n \in T
  BY <1>1, <1>8, <1>9, NatSet
<1>11. ComesToRead(text, p, a, 1)
  <2>1. 1 \in 1 .. n + 1 /\ n + 1 - n <= 1
    BY <1>1
  <2> QED
    BY <1>10, <2>1 DEF T
<1>12. parseCodeMap(text, p[1]) = a[1]
  <2>1. SubSeq(text, 1, 1 - 1) = <<>>
    OBVIOUS
  <2>2. 1 \in 1 .. n + 1
    BY <1>1
  <2>3. a[1] \in Seq(U)
    BY <1>3, <2>2
  <2>4. <<>> \o a[1] = a[1]
    BY <2>3, ConcatEmpty
  <2>5. ComesTo(text, p[1], a[1])
    BY <1>11, <2>1, <2>4 DEF ComesToRead
  <2> DEFINE g == CHOOSE f : Replaces(f, text, p[1])
  <2>6. parseCodeMap(text, p[1]) = g[1]
    BY DEF parseCodeMap, Replaces
  <2>7. Replaces(g, text, p[1])
    BY <2>5 DEF ComesTo
  <2> HIDE DEF g
  <2> QED
    BY <2>5, <2>6, <2>7 DEF ComesTo
<1> QED
  BY <1>4, <1>5, <1>12 DEF pipe2ansi

\* Each line of the server is drawn as one reads it: a code in the line is
\* replaced where it stands, whatever the replacements before it add or take.
THEOREM CodesStayInPlace == Spec => []CodesAreReplacedInPlace
<1>1. LinesInv => CodesAreReplacedInPlace
  <2> SUFFICES ASSUME LinesInv, NEW i \in DOMAIN handled
               PROVE  Drawn(handled[i]) = AsRead(Stamp \o handled[i], STD_EXPRESSION)
    BY DEF CodesAreReplacedInPlace
  <2>1. PICK line : line = handled[i]
    OBVIOUS
  <2>2. line \in Seq(Token)
    BY <2>1 DEF LinesInv
  <2>3. IsSeq(line)
    BY <2>2 DEF IsSeq
  <2>4. IsSeq(Stamp)
    <3>1. Stamp \in Seq({"|", "0", "4", "t", "8", "-", "1", "5"})
      BY DEF Stamp
    <3> QED
      BY <3>1 DEF IsSeq
  <2>5. IsSeq(Stamp \o line)
    BY <2>3, <2>4, JoinedSeqs
  <2>6. pipe2ansi(Stamp \o line) = AsRead(Stamp \o line, STD_EXPRESSION)
    BY <2>5, ReplacedInPlace DEF IsSeq
  <2> QED
    BY <2>1, <2>6 DEF Drawn
<1> QED
  BY <1>1, LinesInvHolds, PTL
===============================================================================
