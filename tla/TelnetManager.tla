---------------------------- MODULE TelnetManager ----------------------------
(***************************************************************************)
(* The parser of the TELNET protocol (telnet_manager.hpp,                  *)
(* telnet_manager.cpp).  It gets the bytes of the server one at a time,    *)
(* answers the negotiation of options and returns the text.                *)
(*                                                                         *)
(* The buffer of a read always has 8193 bytes: what the socket returned,   *)
(* at most 8192 of them, and zeros behind it.  The parser gets the zeros   *)
(* too, at least one and nearly always thousands.  From any stage, three   *)
(* zeros do what more would do.                                            *)
(***************************************************************************)
EXTENDS Naturals, Sequences, SequencesExt

CONSTANTS
    Options,        \* the options the server asks for
    Text,           \* the characters the server sends
    TermWidth,      \* columns and rows of the terminal
    TermHeight,
    MaxMessages     \* bound on the messages of the server

IAC == 255
DONT == 254
DO == 253
WONT == 252
WILL == 251
SB == 250
SE == 240
NOP == 241
NUL == 0

TELOPT_BINARY == 0
TELOPT_ECHO == 1
TELOPT_SGA == 3
TELOPT_TTYPE == 24
TELOPT_NAWS == 31

TELQUAL_SEND == 1

ASSUME TelnetAssumption ==
    /\ Options \subseteq 0..254
    /\ Text \subseteq 1..254
    /\ {TermWidth, TermHeight} \subseteq 1..254
    /\ MaxMessages \in Nat

\* Commands from xEOF to GA need no response.
PassThrough == 236..249

TELCMD_OK(x) == x \in 236..255

VARIABLES
    m_teloptStage,
    m_teloptCommand,
    m_currentOption,
    completed,          \* the options whose m_is...Completed is set
    is_active,          \* the options whose m_is_active_... is set
    active_sequence,    \* the commands already refused
    m_isShutdown,
    output,             \* the text returned so far
    replies,            \* the replies delivered so far
    is_open,            \* m_connection->is_open()
    wire,               \* the bytes of the server's message still to come
    padding,            \* the zeros of the buffer still to come
    sent,               \* the text the server has sent
    asked,              \* the requests the server has sent
    messages,           \* how many messages it has sent
    whole               \* history: no read has ended inside of a message, and no
                        \* byte IAC was sent doubled before BINARY was on

parserVars == <<m_teloptStage, m_teloptCommand, m_currentOption>>
optionVars == <<completed, is_active, active_sequence>>
replyVars == <<replies, m_isShutdown>>
serverVars == <<is_open, sent, asked, messages>>
vars == <<parserVars, optionVars, replyVars, output, wire, padding, serverVars,
          whole>>

Init ==
    /\ m_teloptStage = 0
    /\ m_teloptCommand = 0
    /\ m_currentOption = 0
    /\ completed = {TELOPT_ECHO}    \* "Default to True for MUD'S etc."
    /\ is_active = {}
    /\ active_sequence = {}
    /\ m_isShutdown = FALSE
    /\ output = <<>>
    /\ replies = <<>>
    /\ is_open = TRUE
    /\ wire = <<>>
    /\ padding = 0
    /\ sent = <<>>
    /\ asked = {}
    /\ messages = 0
    /\ whole = TRUE
-----------------------------------------------------------------------------
(* The server, and the reads of the io service.                            *)

Sends(bytes) ==
    /\ is_open
    /\ wire = <<>>
    /\ padding = 0
    /\ messages < MaxMessages
    /\ messages' = messages + 1
    /\ wire' = bytes
    /\ UNCHANGED <<parserVars, optionVars, replyVars, output, is_open, padding>>

ServerText ==
    \E c \in Text :
        Sends(<<c>>) /\ sent' = Append(sent, c) /\ UNCHANGED <<asked, whole>>

\* The data byte 255.  Outside of binary mode the client is to stuff it.
ServerEscape ==
    /\ Sends(<<IAC, IAC>>)
    /\ sent' = IF TELOPT_BINARY \in is_active THEN Append(sent, IAC) ELSE sent
    /\ whole' = (whole /\ TELOPT_BINARY \in is_active)
    /\ UNCHANGED asked

ServerNop == Sends(<<IAC, NOP>>) /\ UNCHANGED <<sent, asked, whole>>

ServerAsks ==
    \E command \in {DO, DONT, WILL, WONT}, option \in Options :
        /\ Sends(<<IAC, command, option>>)
        /\ asked' = asked \union {<<command, option>>}
        /\ UNCHANGED <<sent, whole>>

ServerAsksType ==
    /\ Sends(<<IAC, SB, TELOPT_TTYPE, TELQUAL_SEND, IAC, SE>>)
    /\ asked' = asked \union {<<SB, TELOPT_TTYPE>>}
    /\ UNCHANGED <<sent, whole>>

\* The bytes that were received in one read are parsed; the zeros are next.
EndOfBuffer ==
    /\ padding = 0
    /\ padding' \in {1, 3}
    /\ whole' = (whole /\ wire = <<>>)
    /\ UNCHANGED <<parserVars, optionVars, replyVars, output, wire, serverVars>>

ConnectionCloses ==
    /\ is_open
    /\ is_open' = FALSE
    /\ UNCHANGED <<parserVars, optionVars, replyVars, output, wire, padding,
                   sent, asked, messages, whole>>
-----------------------------------------------------------------------------
(* Replies.                                                                *)

telnetOptionAcknowledge(command) ==
    CASE command = DO -> WILL
      [] command = DONT -> WONT
      [] command = WILL -> DO
      [] command = WONT -> DONT

\* Faulty: the answer of the other side of the option.
telnetOptionDenySwapped(command) == IF command = DO THEN DONT ELSE WONT

telnetOptionDeny(command) ==
    CASE command = DO -> WONT
      [] command = DONT -> WILL
      [] command = WILL -> DONT
      [] command = WONT -> DO

\* Faulty: the low byte first.
NawsReplySwapped == <<SB, TELOPT_NAWS, TermWidth, 0, TermHeight, 0>>

\* telnetOptionNawsReply(): the size of the terminal, two bytes each.
NawsReply ==
    LET High(n) == IF n > 255 THEN n - 255 ELSE 0
        Low(n) == IF n > 255 THEN 255 ELSE n
    IN <<SB, TELOPT_NAWS, High(TermWidth), Low(TermWidth),
         High(TermHeight), Low(TermHeight)>>

TerminalTypeReply == <<SB, TELOPT_TTYPE>>

\* telnetSendIAC() and the two replies above deliver only on an open
\* connection, and set m_isShutdown on a closed one.
Delivered(rs, reply) == IF is_open THEN Append(rs, reply) ELSE rs

DeliverAll(rs) ==
    /\ replies' = rs
    /\ m_isShutdown' = (m_isShutdown \/ ~is_open)

Deliver(reply) == DeliverAll(Delivered(replies, reply))

\* Faulty: the command is not entered in active_sequence.
RefuseOnceForgets(reply) ==
    /\ IF m_teloptCommand \in active_sequence
       THEN UNCHANGED replyVars
       ELSE Deliver(reply)
    /\ UNCHANGED optionVars

\* "Only Response Once": one refusal of each command, whatever the option.
RefuseOnce(reply) ==
    /\ IF m_teloptCommand \in active_sequence
       THEN UNCHANGED <<replyVars, active_sequence>>
       ELSE /\ Deliver(reply)
            /\ active_sequence' = active_sequence \union {m_teloptCommand}
    /\ UNCHANGED <<completed, is_active>>

\* Faulty: the option is switched on without an answer.
AcceptOnceSilently(option) ==
    /\ completed' = completed \union {option}
    /\ is_active' = is_active \union {option}
    /\ UNCHANGED <<replyVars, active_sequence>>

\* BINARY and SGA: one flag for both directions of the option.
AcceptOnce(option) ==
    /\ IF option \in completed
       THEN UNCHANGED <<replyVars, completed, is_active>>
       ELSE /\ Deliver(<<telnetOptionAcknowledge(m_teloptCommand), option>>)
            /\ completed' = completed \union {option}
            /\ is_active' = is_active \union {option}
    /\ UNCHANGED active_sequence

\* TTYPE and NAWS are acknowledged each time, NAWS with the size.
Accept(option) ==
    LET rs == Delivered(replies,
                        <<telnetOptionAcknowledge(m_teloptCommand), option>>)
    IN
    /\ DeliverAll(IF option = TELOPT_NAWS THEN Delivered(rs, NawsReply) ELSE rs)
    /\ is_active' = is_active \union {option}
    /\ UNCHANGED <<completed, active_sequence>>

\* Nothing resets m_isECHOCompleted, so ECHO is never answered.
IgnoreEcho == TELOPT_ECHO \in completed /\ UNCHANGED <<replyVars, optionVars>>
-----------------------------------------------------------------------------
(* telnetOptionParse(c), one action for each stage and command.            *)

c == IF padding > 0 THEN NUL ELSE Head(wire)

Reads(stage) ==
    /\ m_teloptStage = stage
    /\ padding > 0 \/ wire # <<>>
    /\ IF padding > 0
       THEN padding' = padding - 1 /\ UNCHANGED wire
       ELSE wire' = Tail(wire) /\ UNCHANGED padding
    /\ UNCHANGED <<serverVars, whole>>

\* parseIncomingData() appends what telnetOptionParse() returns, but no NUL.
Returns(char) == output' = IF char = NUL THEN output ELSE Append(output, char)

Stage(n) == m_teloptStage' = n /\ UNCHANGED <<m_teloptCommand, m_currentOption>>

FindIAC ==
    /\ Reads(0)
    /\ IF c = IAC
       THEN Stage(1) /\ UNCHANGED output
       ELSE Stage(0) /\ Returns(c)
    /\ UNCHANGED <<optionVars, replyVars>>

\* IAC IAC: the character 255 in binary mode; else "skip it for now", which
\* stays in this stage.
DoubleIAC ==
    /\ Reads(1)
    /\ c = IAC
    /\ IF TELOPT_BINARY \in is_active
       THEN Stage(0) /\ Returns(IAC)
       ELSE Stage(1) /\ UNCHANGED output
    /\ UNCHANGED <<optionVars, replyVars>>

\* Faulty: the parser stays in the sequence.
PassThroughCommandStays ==
    /\ Reads(1)
    /\ c \in PassThrough
    /\ Stage(1)
    /\ UNCHANGED <<optionVars, replyVars, output>>

PassThroughCommand ==
    /\ Reads(1)
    /\ c \in PassThrough
    /\ Stage(0)
    /\ UNCHANGED <<optionVars, replyVars, output>>

FindCommand ==
    /\ Reads(1)
    /\ c # IAC /\ c \notin PassThrough
    /\ m_teloptCommand' = c
    /\ m_teloptStage' = 2
    /\ UNCHANGED <<m_currentOption, optionVars, replyVars, output>>

InvalidCommand ==
    /\ Reads(2)
    /\ ~TELCMD_OK(m_teloptCommand)
    /\ Stage(0)
    /\ UNCHANGED <<optionVars, replyVars, output>>

FindOptionOf(command) == Reads(2) /\ m_teloptCommand = command /\ UNCHANGED output

ReceiveDont ==
    /\ FindOptionOf(DONT)
    /\ IF c = IAC
       THEN Stage(1) /\ UNCHANGED <<optionVars, replyVars>>
       ELSE Stage(0) /\ RefuseOnce(<<telnetOptionAcknowledge(DONT), c>>)

ReceiveDo ==
    /\ FindOptionOf(DO)
    /\ \/ c = TELOPT_ECHO /\ IgnoreEcho
       \/ c \in {TELOPT_BINARY, TELOPT_SGA} /\ AcceptOnce(c)
       \/ c \in {TELOPT_TTYPE, TELOPT_NAWS} /\ Accept(c)
       \/ /\ c \notin {TELOPT_ECHO, TELOPT_BINARY, TELOPT_SGA, TELOPT_TTYPE,
                       TELOPT_NAWS}
          /\ RefuseOnce(<<telnetOptionDeny(DO), c>>)
    /\ Stage(0)

ReceiveWill ==
    /\ FindOptionOf(WILL)
    /\ \/ c = TELOPT_ECHO /\ IgnoreEcho
       \/ c \in {TELOPT_BINARY, TELOPT_SGA} /\ AcceptOnce(c)
       \/ /\ c \notin {TELOPT_ECHO, TELOPT_BINARY, TELOPT_SGA}
          /\ RefuseOnce(<<telnetOptionDeny(WILL), c>>)
    /\ Stage(0)

ReceiveWont ==
    /\ FindOptionOf(WONT)
    /\ Stage(0)
    /\ UNCHANGED <<optionVars, replyVars>>

ReceiveSubnegotiation ==
    /\ FindOptionOf(SB)
    /\ IF c = TELOPT_TTYPE
       THEN m_currentOption' = c /\ m_teloptStage' = 3
       ELSE m_teloptStage' = 0 /\ UNCHANGED m_currentOption
    /\ UNCHANGED <<m_teloptCommand, optionVars, replyVars>>

\* Stage 3 is reached with TTYPE only.
FindQualifier ==
    /\ Reads(3)
    /\ Stage(IF c = TELQUAL_SEND THEN 4 ELSE 0)
    /\ UNCHANGED <<optionVars, replyVars, output>>

\* Faulty: the stage is not reset.
FindEndCounts ==
    /\ Reads(4)
    /\ Stage(IF c = SE THEN m_teloptStage + 1 ELSE 4)
    /\ UNCHANGED <<optionVars, replyVars, output>>

\* Everything but SE is skipped.
FindEnd ==
    /\ Reads(4)
    /\ IF c = SE
       THEN Stage(0) /\ Deliver(TerminalTypeReply)
       ELSE Stage(4) /\ UNCHANGED replyVars
    /\ UNCHANGED <<optionVars, output>>
-----------------------------------------------------------------------------
Server ==
    \/ ServerText \/ ServerEscape \/ ServerNop \/ ServerAsks \/ ServerAsksType
    \/ ConnectionCloses

telnetOptionParse ==
    \/ FindIAC \/ DoubleIAC \/ PassThroughCommand \/ FindCommand
    \/ InvalidCommand \/ ReceiveDont \/ ReceiveDo \/ ReceiveWill
    \/ ReceiveWont \/ ReceiveSubnegotiation \/ FindQualifier \/ FindEnd

Next == Server \/ EndOfBuffer \/ telnetOptionParse

Spec == Init /\ [][Next]_vars
-----------------------------------------------------------------------------
(* Properties.                                                             *)

Requests == {DO, DONT, WILL, WONT} \X Options

Reply == Seq(0..255)

\* The members of TelnetManager have their types: m_teloptStage stays within
\* the five stages of telnetOptionParse(), and the option flags within the
\* options the code has flags for.
TypeOK ==
    /\ m_teloptStage \in 0..4
    /\ m_teloptCommand \in 0..254
    /\ m_currentOption \in {0, TELOPT_TTYPE}
    /\ completed \subseteq {TELOPT_ECHO, TELOPT_BINARY, TELOPT_SGA}
    /\ is_active \subseteq {TELOPT_BINARY, TELOPT_SGA, TELOPT_TTYPE, TELOPT_NAWS}
    /\ active_sequence \subseteq {DO, DONT, WILL}
    /\ {m_isShutdown, is_open} \subseteq BOOLEAN
    /\ output \in Seq(0..255)
    /\ replies \in Seq(Reply)
    /\ wire \in Seq(0..255)
    /\ padding \in 0..3
    /\ sent \in Seq(0..255)
    /\ asked \subseteq Requests \union {<<SB, TELOPT_TTYPE>>}
    /\ messages \in 0..MaxMessages
    /\ whole \in BOOLEAN

\* After every message of the server the parser has returned exactly the text
\* sent: no byte of a negotiation shows up on the screen and none of the text
\* is taken for one.  A read that ends inside of a command, and a doubled IAC
\* outside of binary mode, put an end to it (TextComesThroughAlways).
TextComesThrough == whole /\ wire = <<>> /\ padding = 0 => output = sent

\* telnet_manager.cpp:336-341 says of a doubled IAC outside of binary mode
\* "Double IAC = IAC character, not valid so skip it for now.  [...] So we going
\* to stuff it.", so sent does not count that one; but the parser then takes the
\* next byte of the text for a command.
TextComesThroughAlways == wire = <<>> /\ padding = 0 => output = sent

\* The replies a request may have.
AnswersTo(request) ==
    LET command == request[1]
        option == request[2]
    IN CASE command = DO -> {<<WILL, option>>, <<WONT, option>>} \union
                            {r \in {NawsReply} : option = TELOPT_NAWS}
         [] command = DONT -> {<<WONT, option>>}
         [] command = WILL -> {<<DO, option>>, <<DONT, option>>}
         [] command = WONT -> {}
         [] command = SB -> {TerminalTypeReply}

IsAnswer(r) == \E request \in asked : r \in AnswersTo(request)

\* While the reads end between messages, the client says nothing the server did
\* not ask for: no text and no end of one command is taken for another command.
RepliesAreAnswers == whole => \A r \in ToSet(replies) : IsAnswer(r)

\* The same wherever the reads end: it fails, as the zeros behind a read that
\* ends after IAC DO are taken for the option.  changelog.txt:191-194:
\* "Fixed issues with Telnet Option Parsing and Responses.  Added new
\* Vector<unsigned char> buffer to better handle binary sequence data without
\* losing values on socket.read()".
RepliesAreAnswersAlways == \A r \in ToSet(replies) : IsAnswer(r)

\* No negotiation loops: whatever a server repeats, BINARY and SGA are accepted
\* once, in one direction; there is one refusal of a WILL, and two of the side
\* of the client, for a DO and for a DONT.
Accepts(r, option) == r \in {<<WILL, option>>, <<DO, option>>}

NoLoop ==
    \A k, m \in DOMAIN replies :
        LET r == replies[k]
            q == replies[m]
        IN k # m =>
            /\ ~(r[1] = DONT /\ q[1] = DONT)
            /\ \A option \in {TELOPT_BINARY, TELOPT_SGA} :
                  ~(Accepts(r, option) /\ Accepts(q, option))
            /\ r[1] = WONT /\ q[1] = WONT =>
                  \A n \in DOMAIN replies \ {k, m} : replies[n][1] # WONT

\* Binary mode changes how IAC IAC is read, so the server must have been told,
\* unless the connection was closed when the reply was due.
BinaryIsAgreed ==
    TELOPT_BINARY \in is_active =>
        \/ {<<WILL, TELOPT_BINARY>>, <<DO, TELOPT_BINARY>>} \intersect
                ToSet(replies) # {}
        \/ m_isShutdown /\ ~is_open

\* The server reads the size it is told as 256 * high + low.
NawsTellsSize ==
    \A r \in ToSet(replies) :
        r[1] = SB /\ r[2] = TELOPT_NAWS =>
            256 * r[3] + r[4] = TermWidth /\ 256 * r[5] + r[6] = TermHeight

\* telnet_manager.cpp:409, :485, :547: "Only Response Once, if we've already
\* received this, then ignore it a second time!"  A request that is received
\* for the first time is answered.
FirstRequestIsAnswered ==
    wire = <<>> /\ is_open =>
        \A request \in asked :
            request[1] \in {DO, WILL} /\ request[2] # TELOPT_ECHO =>
                \E r \in ToSet(replies) : r[2] = request[2]
=============================================================================
