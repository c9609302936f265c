--------------------------- MODULE SequenceDecoder ---------------------------
(***************************************************************************)
(* SequenceDecoder (sequence_decoder.hpp, sequence_decoder.cpp): splits    *)
(* the characters a server sends into runs of text and escape sequences,   *)
(* and queues them for the session to draw.  The state outlives a call of  *)
(* decodeEscSequenceData, because a read of the socket may end anywhere.   *)
(*                                                                         *)
(* The server sends whole items (Items): the characters of one and what a  *)
(* terminal shows for it.  The socket cuts the stream where it likes.      *)
(* m_is_sequence is left out: it is true exactly in SEQ_PROCESSING.        *)
(***************************************************************************)
EXTENDS Integers, Sequences, SequencesExt, FiniteSetsExt

CONSTANTS
    Items,      \* what the server can send: records [chars, shown]
    MaxItems,   \* bound on the items the server sends
    MaxChunk    \* bound on the characters one read returns

ASSUME DecoderAssumption ==
    /\ \A item \in Items : item.chars # <<>>
    /\ MaxItems \in Nat
    /\ MaxChunk \in Nat \ {0}

ESC == "ESC"
BEL == "BEL"
Space == " "
Characters == UNION {ToSet(item.chars) : item \in Items}
Digit == {"0", "1", "2", "3", "4", "5", "6", "7", "8", "9"}
Parameter == Digit \union {";"}

\* The characters that complete a sequence after ESC, after ESC [, and after
\* ESC [ with a ? or a space in it.
Level0Final ==
    {Space, "#", "%", "(", ")", "?", "D", "H", "E", "M", "N", "O", "P", "V",
     "W", "X", "Z", "]", "^", "_", "\\", "*", "+", "-", ".", "/", "6", "7",
     "8", "9", "=", ">", "F", "c", "l", "m", "n", "o", "|", "}", "~"}
Level1Final ==
    {"@", "A", "B", "C", "D", "E", "F", "G", "H", "I", "J", "K", "L", "M",
     "P", "S", "T", "X", "Z", "backquote", "a", "b", "c", "d", "e", "f", "g", "h",
     "i", "l", "m", "n", "p", "q", "r", "s", "t", "u", "x", "!"}
Level2Final == {"D", "J", "K", "h", "i", "l", "n", "p", "q", "r", "s", "!"}

VARIABLES
    m_sequence_state,       \* between two characters, NORMAL or PROCESSING
    m_sequence_level,
    m_sequence_builder,     \* the sequence so far, from its ESC
    m_valid_output_data,    \* text not queued yet
    input_string,           \* what is left of the string being decoded
    decoding,               \* a call of decodeEscSequenceData is running
    m_data_queue,           \* all the messages queued for the session
    wire,                   \* the characters the socket still holds
    sent                    \* the items the server has sent

decoder == <<m_sequence_state, m_sequence_level, m_sequence_builder,
             m_valid_output_data>>
vars == <<decoder, input_string, decoding, m_data_queue, wire, sent>>

Init ==
    /\ m_sequence_state = "SEQ_NORMAL"
    /\ m_sequence_level = 0
    /\ m_sequence_builder = <<>>
    /\ m_valid_output_data = <<>>
    /\ input_string = <<>>
    /\ decoding = FALSE
    /\ m_data_queue = <<>>
    /\ wire = <<>>
    /\ sent = <<>>

----------------------------------------------------------------------------
(* validateSequence: the builder becomes the parameters of a command.      *)

\* '?' is pushed among the numbers as its character code.
DecPrivate == 63

Command(control, final, numbers) ==
    [control |-> control, final |-> final, numbers |-> numbers]

\* What getline finds between the semicolons: a last empty field is not one.
Tokens(s) ==
    LET AddTo(ts, c) == IF c = ";"
                        THEN Append(ts, <<>>)
                        ELSE [ts EXCEPT ![Len(ts)] = Append(@, c)]
        split == FoldLeft(AddTo, << <<>> >>, s)
    IN  IF Last(split) = <<>> THEN Front(split) ELSE split

LeadingDigits(t) ==
    SubSeq(t, 1, Max({0} \union {n \in 1..Len(t) : \A i \in 1..n : t[i] \in Digit}))

DigitValue(d) == CHOOSE n \in 0..9 : ToString(n) = d

\* operator>> of a token: no digit, no number.  An empty field is -1.
NumbersOf(t) ==
    LET Shift(n, d) == 10 * n + DigitValue(d)
        digits == LeadingDigits(t)
    IN  CASE t = <<>> -> << -1 >>
          [] t # <<>> /\ digits = <<>> -> <<>>
          [] digits # <<>> -> <<FoldLeft(Shift, 0, digits)>>

NumberList(s) ==
    LET AddNumbers(ns, t) == ns \o NumbersOf(t)
        body == IF s[1] = "?" THEN Tail(s) ELSE s
        private == IF s[1] = "?" THEN <<DecPrivate>> ELSE <<>>
    IN  IF ";" \in ToSet(s)
        THEN FoldLeft(AddNumbers, <<>>, Tokens(s))
        ELSE private \o (IF body = <<>> THEN <<>> ELSE NumbersOf(body))

validateSequence(b) ==
    IF b[2] # "[" /\ Len(b) = 2
    THEN Command(b[2], "none", <<>>)
    ELSE LET rest == SubSeq(b, 3, Len(b) - 1)
         IN  Command(b[2], Last(b), IF rest = <<>> THEN <<>> ELSE NumberList(rest))

----------------------------------------------------------------------------
(* What one more character c means to the sequence being built.            *)

IsParameter(c) == m_sequence_level \in {1, 2} /\ c \in Parameter

\* After a space only the D of a font change is valid.
SpacedWrongly(c) ==
    m_sequence_level = 2 /\ Last(m_sequence_builder) = Space /\ c # "D"

ToNextLevel(c) ==
    \/ m_sequence_level = 0 /\ c = "["
    \/ m_sequence_level = 1 /\ c \in {"?", Space}

Completes(c) ==
    \/ m_sequence_level = 0 /\ c \in Level0Final
    \/ m_sequence_level = 1 /\ c \in Level1Final
    \/ m_sequence_level = 2 /\ c \in Level2Final /\ ~SpacedWrongly(c)

IsInvalid(c) ==
    \/ SpacedWrongly(c)
    \/ ~(IsParameter(c) \/ ToNextLevel(c) \/ Completes(c))

----------------------------------------------------------------------------
(* decodeEscSequenceData: one action per character of the string.          *)

Enqueue(message) == m_data_queue' = Append(m_data_queue, message)
TextMessage(text) == [text |-> text]

RemoveDoubleEsc(s) ==
    LET Add(r, c) == IF c = ESC /\ r # <<>> /\ Last(r) = ESC THEN r ELSE Append(r, c)
    IN  FoldLeft(Add, <<>>, s)

\* Faulty: a call starts with a fresh decoder.
BeginDecodeAfresh ==
    /\ ~decoding
    /\ decoding' = TRUE
    /\ \E n \in 1..MaxChunk :
        /\ n <= Len(wire)
        /\ input_string' = RemoveDoubleEsc(SubSeq(wire, 1, n))
        /\ wire' = SubSeq(wire, n + 1, Len(wire))
    /\ m_sequence_state' = "SEQ_NORMAL"
    /\ m_sequence_level' = 0
    /\ m_sequence_builder' = <<>>
    /\ UNCHANGED <<m_valid_output_data, m_data_queue, sent>>

\* handleRead passes on what a read returned, and the call begins.
BeginDecode ==
    /\ ~decoding
    /\ decoding' = TRUE
    /\ \E n \in 1..MaxChunk :
        /\ n <= Len(wire)
        /\ input_string' = RemoveDoubleEsc(SubSeq(wire, 1, n))
        /\ wire' = SubSeq(wire, n + 1, Len(wire))
    /\ UNCHANGED <<decoder, m_data_queue, sent>>

NextCharacter(c) ==
    /\ decoding
    /\ input_string # <<>>
    /\ c = Head(input_string)
    /\ input_string' = Tail(input_string)
    /\ UNCHANGED <<decoding, wire, sent>>

\* The bell is never shown, nor part of a sequence.
SkipBell(c) ==
    /\ NextCharacter(c)
    /\ c = BEL
    /\ UNCHANGED <<decoder, m_data_queue>>

NormalText(c) ==
    /\ NextCharacter(c)
    /\ m_sequence_state = "SEQ_NORMAL"
    /\ c \notin {BEL, ESC}
    /\ m_valid_output_data' = Append(m_valid_output_data, c)
    /\ UNCHANGED <<m_sequence_state, m_sequence_level, m_sequence_builder,
                   m_data_queue>>

\* The text before the sequence is queued first.  An ESC inside of a sequence
\* comes here too: neither the builder nor the level is reset.
StartSequence(c) ==
    /\ NextCharacter(c)
    /\ c = ESC
    /\ Enqueue(TextMessage(m_valid_output_data))
    /\ m_valid_output_data' = <<>>
    /\ m_sequence_state' = "SEQ_PROCESSING"
    /\ m_sequence_builder' = Append(m_sequence_builder, ESC)
    /\ UNCHANGED m_sequence_level

InSequence(c) ==
    /\ NextCharacter(c)
    /\ m_sequence_state = "SEQ_PROCESSING"
    /\ c \notin {BEL, ESC}

ContinueSequence(c) ==
    /\ InSequence(c)
    /\ ~IsInvalid(c)
    /\ ~Completes(c)
    /\ m_sequence_builder' = Append(m_sequence_builder, c)
    /\ m_sequence_level' = IF ToNextLevel(c) THEN m_sequence_level + 1
                                             ELSE m_sequence_level
    /\ UNCHANGED <<m_sequence_state, m_valid_output_data, m_data_queue>>

CompleteSequence(c) ==
    /\ InSequence(c)
    /\ Completes(c)
    /\ Enqueue(validateSequence(Append(m_sequence_builder, c)))
    /\ m_sequence_state' = "SEQ_NORMAL"
    /\ m_sequence_level' = 0
    /\ m_sequence_builder' = <<>>
    /\ UNCHANGED m_valid_output_data

\* Faulty: the level is not reset with the rest after an invalid sequence.
InvalidSequenceKeepsLevel(c) ==
    /\ InSequence(c)
    /\ IsInvalid(c)
    /\ LET b == Append(m_sequence_builder, c)
       IN  m_valid_output_data' = m_valid_output_data \o SubSeq(b, 4, Len(b))
    /\ m_sequence_state' = "SEQ_NORMAL"
    /\ m_sequence_builder' = <<>>
    /\ UNCHANGED <<m_sequence_level, m_data_queue>>

\* The first three characters are dropped and the rest becomes text.
InvalidSequence(c) ==
    /\ InSequence(c)
    /\ IsInvalid(c)
    /\ LET b == Append(m_sequence_builder, c)
       IN  m_valid_output_data' = m_valid_output_data \o SubSeq(b, 4, Len(b))
    /\ m_sequence_state' = "SEQ_NORMAL"
    /\ m_sequence_level' = 0
    /\ m_sequence_builder' = <<>>
    /\ UNCHANGED m_data_queue

\* Faulty: the text waits for the next call when a read ends with it.
EndDecodeKeepsText ==
    /\ decoding
    /\ input_string = <<>>
    /\ decoding' = FALSE
    /\ UNCHANGED <<decoder, input_string, m_data_queue, wire, sent>>

\* At the end of the string the text is queued, unless a sequence is open.
EndDecode ==
    /\ decoding
    /\ input_string = <<>>
    /\ decoding' = FALSE
    /\ IF m_sequence_state = "SEQ_NORMAL" /\ m_valid_output_data # <<>>
       THEN /\ Enqueue(TextMessage(m_valid_output_data))
            /\ m_valid_output_data' = <<>>
       ELSE UNCHANGED <<m_data_queue, m_valid_output_data>>
    /\ UNCHANGED <<m_sequence_state, m_sequence_level, m_sequence_builder,
                   input_string, wire, sent>>

ServerSends(item) ==
    /\ Len(sent) < MaxItems
    /\ sent' = Append(sent, item)
    /\ wire' = wire \o item.chars
    /\ UNCHANGED <<decoder, input_string, decoding, m_data_queue>>

Decode(c) ==
    \/ SkipBell(c)
    \/ NormalText(c)
    \/ StartSequence(c)
    \/ ContinueSequence(c)
    \/ CompleteSequence(c)
    \/ InvalidSequence(c)

Next ==
    \/ \E item \in Items : ServerSends(item)
    \/ BeginDecode
    \/ \E c \in Characters : Decode(c)
    \/ EndDecode

Spec == Init /\ [][Next]_vars

----------------------------------------------------------------------------
(* Properties.                                                             *)

\* The state between two characters: in SEQ_NORMAL no piece of a sequence is
\* left over, and in SEQ_PROCESSING no text waits behind it.
TypeOK ==
    /\ m_sequence_state \in {"SEQ_NORMAL", "SEQ_PROCESSING"}
    /\ m_sequence_level \in 0..2
    /\ m_sequence_builder \in Seq(Characters)
    /\ m_valid_output_data \in Seq(Characters)
    /\ decoding \in BOOLEAN
    /\ m_sequence_state = "SEQ_NORMAL" => /\ m_sequence_level = 0
                                         /\ m_sequence_builder = <<>>
    /\ m_sequence_state = "SEQ_PROCESSING" => /\ m_sequence_builder # <<>>
                                             /\ Head(m_sequence_builder) = ESC
                                             /\ m_valid_output_data = <<>>

IsText(message) == "text" \in DOMAIN message
Glyphs(text) == [i \in DOMAIN text |-> [char |-> text[i]]]
Units(message) == IF IsText(message) THEN Glyphs(message.text) ELSE <<message>>

Shown == FlattenSeq([i \in DOMAIN m_data_queue |-> Units(m_data_queue[i])])
Expected == FlattenSeq([i \in DOMAIN sent |-> sent[i].shown])
EverythingWasRead == wire = <<>> /\ ~decoding

\* The beginning of a sequence: ESC, or ESC [ with parameters, or these with
\* a ? among them or a space behind them.
Opens(s) ==
    /\ s # <<>> /\ s[1] = ESC
    /\ Len(s) >= 2 => s[2] = "["
    /\ \/ \A k \in 3 .. Len(s) : s[k] \in Parameter
       \/ \E m \in 3 .. Len(s) :
             /\ s[m] = "?" \/ (s[m] = Space /\ m = Len(s))
             /\ \A k \in 3 .. Len(s) \ {m} : s[k] \in Parameter

LevelOf(s) ==
    IF Len(s) < 2 THEN 0 ELSE IF \A k \in 3 .. Len(s) : s[k] \in Parameter THEN 1 ELSE 2

\* The character that makes it a command.
Ends(s, c) ==
    \/ LevelOf(s) = 0 /\ c \in Level0Final
    \/ LevelOf(s) = 1 /\ c \in Level1Final
    \/ LevelOf(s) = 2 /\ c \in Level2Final /\ (Last(s) = Space => c = "D")

\* A sequence up to the character that ends it or makes it invalid: a command,
\* or what follows its third character as text.
SequenceItem(item) ==
    LET s == item.chars IN
    /\ Len(s) >= 2
    /\ Opens(Front(s)) /\ ~Opens(s)
    /\ Last(s) \notin {ESC, BEL}
    /\ item.shown = IF Ends(Front(s), Last(s)) THEN <<validateSequence(s)>>
                                              ELSE Glyphs(SubSeq(s, 4, Len(s)))

\* What the two properties below are about: text, bells, and sequences without
\* an ESC or a bell inside.
PlainItem(item) ==
    /\ item.chars \in Seq(Characters)
    /\ \/ \E c \in Characters \ {ESC, BEL} :
             item.chars = <<c>> /\ item.shown = Glyphs(<<c>>)
       \/ item.chars = <<BEL>> /\ item.shown = <<>>
       \/ SequenceItem(item)

ItemsArePlain == \A item \in Items : PlainItem(item)

\* Text and commands reach the session in the order of the stream, wherever
\* the reads cut it: the FIFO order the comment at SEQ_START asks for.
StreamIsShownInOrder == IsPrefix(Shown, Expected)

\* When a call returns nothing complete is held back: a user at a prompt
\* sees all the host has sent, although the host now waits for an answer.
NothingIsHeldBack == EverythingWasRead => Shown = Expected

\* Every command of the stream reaches the session, and no other does, also
\* when a sequence is given up for the next one or its ESC comes twice.
CommandsComeThrough ==
    LET IsCommand(unit) == "control" \in DOMAIN unit
    IN  EverythingWasRead => SelectSeq(Shown, IsCommand) = SelectSeq(Expected, IsCommand)
=============================================================================
