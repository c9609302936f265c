---------------------------- MODULE IrcManager ----------------------------
(***************************************************************************)
(* The session of an IRC server: handleLineRead takes what was read apart  *)
(* into lines, answers PING and draws the others above the prompt;         *)
(* handleUserInput edits a line in the prompt and sends it.                *)
(*                                                                         *)
(* What the server sends is a sequence of tokens, each of some characters: *)
(* "PING", " :", "CR", "LF" and others of Lines.  A read gives any front   *)
(* part of it.  handleLineRead runs on the socket thread, handleUserInput  *)
(* on the main thread, each with state of its own.                         *)
(***************************************************************************)
EXTENDS InputField, PipeCodes

CONSTANTS
    Lines,      \* lines the server may send, without their CR LF
    Inputs,     \* what the session may take from the window at once
    MaxLines,   \* bound: lines the server sends
    MaxShown    \* bound: nothing typed once the prompt shows so many characters

Token == (UNION {ToSet(line) : line \in Lines}) \union {"CR", "LF"}

\* CR and LF end a line; what is typed is characters, and no word that
\* getInputField says its outcome with.
ASSUME IrcAssumption ==
    /\ \A line \in Lines : line \in Seq(Token \ {"CR", "LF"})
    /\ \A typed \in Inputs : typed \in Seq(ToSet(typed) \ Outcomes)
    /\ MaxLines \in Nat /\ MaxShown \in Nat

VARIABLES
    net,                \* sent by the server and not yet read
    m_incoming_buffer,
    handled,            \* the lines that handleLineRead has taken apart
    answers,            \* the keys of the PONGs delivered
    terminated,         \* an exception has left handleLineRead
    io,                 \* m_session_io->m_common_io
    prompt,             \* the characters that the prompt shows
    delivered,          \* the last line delivered to the server
    asked,              \* history: the lines read, however they were cut
    cut,                \* history: a read has ended inside a line
    abandoned           \* history: ESC has dropped a line that the prompt shows

lineVars == <<net, m_incoming_buffer, handled, answers, terminated, asked, cut>>
promptVars == <<io, prompt, delivered, abandoned>>
ircVars == <<lineVars, promptVars>>

Init ==
    /\ net = <<>>
    /\ m_incoming_buffer = <<>>
    /\ handled = <<>>
    /\ answers = <<>>
    /\ terminated = FALSE
    /\ io = NewIO
    /\ prompt = <<>>        \* startUp has drawn it
    /\ delivered = <<>>
    /\ asked = <<>>
    /\ cut = FALSE
    /\ abandoned = FALSE

-----------------------------------------------------------------------------
(* Lines from the server.                                                  *)

Without(gone, data) ==
    FlattenSeq([i \in DOMAIN data |-> IF data[i] \in gone THEN <<>> ELSE <<data[i]>>])

NoLF(data) == Without({"LF"}, data)
NoEnds(data) == Without({"CR", "LF"}, data)

\* Faulty: what follows the last CR is a line, even when there is nothing.
SplitAll(data) ==
    FoldLeft(LAMBDA lines, c : IF c = "CR" THEN Append(lines, <<>>)
                               ELSE Append(Front(lines), Append(Last(lines), c)),
             <<<<>>>>, data)

\* std::getline by CR: nothing after the last CR is no line.
Split(data) ==
    LET all == SplitAll(data) IN IF Last(all) = <<>> THEN Front(all) ELSE all

\* Faulty: PING anywhere in the line.
HasPing(line) == \E i \in DOMAIN line : line[i] = "PING"

IsPing(line) == line # <<>> /\ line[1] = "PING"

\* substr(6) of a PING that ends before its sixth character throws.
TooShort(line) == IsPing(line) /\ Len(line) < 2
PongKey(line)  == SubSeq(line, 3, Len(line))

\* The PONGs for the PINGs among the lines: the key of each.
Pongs(lines) ==
    FlattenSeq([i \in DOMAIN lines |->
        IF IsPing(lines[i]) /\ ~TooShort(lines[i]) THEN <<PongKey(lines[i])>> ELSE <<>>])

\* The lines of one call, up to and with the first that throws.
UntilThrow(lines) ==
    LET bad == {i \in DOMAIN lines : TooShort(lines[i])}
    IN  IF bad = {} THEN lines
        ELSE SubSeq(lines, 1, CHOOSE i \in bad : \A j \in bad : i <= j)

\* Faulty: what was kept is forgotten when more is kept.
TakeAnew(data) ==
    IF data # <<>> /\ data[1] = "CR"
    THEN [process |-> <<>>, keep |-> data]
    ELSE [process |-> m_incoming_buffer \o data, keep |-> <<>>]

\* find_last_of('\r', 0) looks at the first character only: when that is a CR
\* all of the data is kept for the next call and what was kept is processed,
\* and otherwise all of it is processed, whether or not it ends with a CR.
Take(data) ==
    IF data # <<>> /\ data[1] = "CR"
    THEN [process |-> m_incoming_buffer, keep |-> data]
    ELSE [process |-> m_incoming_buffer \o data, keep |-> <<>>]

handleLineRead(data) ==
    LET taken == Take(NoLF(data))
        lines == UntilThrow(Split(taken.process))
    IN  /\ m_incoming_buffer' = taken.keep
        /\ handled' = handled \o lines
        /\ answers' = answers \o Pongs(lines)
        /\ terminated' = \E i \in DOMAIN lines : TooShort(lines[i])

\* What drawing a line puts on the screen, above the prompt (the cursor is
\* saved and restored around it): the time and a dash in colours of their own,
\* and the line, all of it with its codes replaced.
Stamp == <<"|", "0", "4", "t", "|", "0", "8", "-", "|", "1", "5">>
Drawn(line) == pipe2ansi(Stamp \o line)

Server ==
    \E line \in Lines :
        /\ ~terminated
        /\ Len(asked) < MaxLines
        /\ net' = net \o line \o <<"CR", "LF">>
        /\ asked' = Append(asked, line)
        /\ UNCHANGED <<m_incoming_buffer, handled, answers, terminated, cut, promptVars>>

\* Session::handleRead of what the socket has given, and the next read.
Read ==
    \E n \in 1 .. Len(net) :
        /\ ~terminated
        /\ handleLineRead(SubSeq(net, 1, n))
        /\ net' = SubSeq(net, n + 1, Len(net))
        /\ cut' = (cut \/ net[n] \notin {"CR", "LF"})
        /\ UNCHANGED <<asked, promptVars>>

-----------------------------------------------------------------------------
(* The prompt.                                                             *)

\* What getInputField returns is drawn: the character, or a backspace over
\* each character erased.
Echo(result) ==
    CASE result \in {"empty", "wait", "enter"} -> prompt
      [] result = "erase"                      -> Front(prompt)
      [] result = "clear"                      ->
            SubSeq(prompt, 1, Len(prompt) - Len(io.m_line_buffer))
      [] OTHER                                 -> Append(prompt, result)

\* handleUserInput: a line is sent when it is not empty, and the prompt is
\* drawn anew.
Input ==
    \E typed \in Inputs :
        LET done == getInputField(io, typed)
            sends == done.result = "enter" /\ done.io.m_line_buffer # <<>>
        IN  /\ ~terminated
            /\ Len(prompt) < MaxShown
            /\ io' = done.io
            /\ prompt' = IF sends THEN <<>> ELSE Echo(done.result)
            /\ delivered' = IF sends THEN done.io.m_line_buffer ELSE delivered
            /\ abandoned' = IF sends THEN FALSE
                            ELSE \/ abandoned
                                 \/ /\ done.io.m_is_new_getline /\ done.result = "wait"
                                    /\ prompt # <<>>
            /\ UNCHANGED lineVars

Next == Server \/ Read \/ Input

Spec == Init /\ [][Next]_ircVars

-----------------------------------------------------------------------------
Flat(lines) == FlattenSeq(lines)

TypeOK ==
    /\ \A i \in DOMAIN asked : asked[i] \in Lines
    /\ terminated \in BOOLEAN /\ cut \in BOOLEAN /\ abandoned \in BOOLEAN
    /\ io.m_is_escape_sequence => io.m_string_buffer = <<"ESC">>
    /\ Len(io.m_string_buffer) <= 8
    /\ Len(io.m_line_buffer) <= FieldLength

\* Nothing the server says is lost, doubled or out of order, wherever the
\* reads cut it: the lines handled, what is held back and what is not yet
\* read are together what was sent.
NothingIsLost ==
    ~terminated => Flat(handled) \o NoEnds(m_incoming_buffer) \o NoEnds(net) = Flat(asked)

\* While every read ends with the end of a line, the lines handled are the
\* lines sent, and nothing is held back.
LinesAreWhole ==
    ~cut => /\ IsPrefix(handled, asked)
            /\ m_incoming_buffer = <<>>
            /\ NoEnds(net) = <<>> /\ ~terminated => handled = asked

\* Every line handled that starts with PING has its answer, in their order,
\* with all that follows the " :" as the key, and nothing else is answered.
PingsAreAnswered ==
    ~terminated =>
        answers = FlattenSeq([i \in DOMAIN handled |->
                      IF handled[i] # <<>> /\ handled[i][1] = "PING"
                      THEN <<SubSeq(handled[i], 3, Len(handled[i]))>> ELSE <<>>])

\* The prompt shows the line that ENTER would send, unless ESC has dropped a
\* line.
PromptShowsLine ==
    abandoned \/ prompt = IF io.m_is_new_getline THEN <<>> ELSE io.m_line_buffer

\* A line of the server is drawn as one reads it: what stands for a code is
\* where the code was.
CodesAreReplacedInPlace ==
    \A i \in DOMAIN handled :
        Drawn(handled[i]) = AsRead(Stamp \o handled[i], STD_EXPRESSION)

\* Not so: the prompt shows what ENTER would send.
PromptShowsLineAlways ==
    prompt = IF io.m_is_new_getline THEN <<>> ELSE io.m_line_buffer

\* Not so: only lines that the server has sent are handled.
LinesAreWholeAlways ==
    \A i \in DOMAIN handled : handled[i] = <<>> \/ handled[i] \in Lines

\* Not so: no read ends the program.
NeverTerminated == ~terminated

\* Not so: the text of a line is on the screen.
TextIsShown ==
    \A i \in DOMAIN handled :
        handled[i] = <<"1", "%", "A", "B">> => IsSuffix(handled[i], Drawn(handled[i]))
============================================================================
