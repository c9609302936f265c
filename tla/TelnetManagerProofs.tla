------------------------- MODULE TelnetManagerProofs -------------------------
(***************************************************************************)
(* Proofs about TelnetManager for every set of options, every text, every  *)
(* size of the terminal below 255 and every number of messages.            *)
(***************************************************************************)
EXTENDS TelnetManager, TLAPS

Bytes == 0..255

(***************************************************************************)
(* Type correctness.                                                       *)
(***************************************************************************)

\* What the client answers is a sequence of bytes.
LEMMA ReplyTypes ==
    ASSUME NEW command \in {DO, DONT, WILL}, NEW option \in Bytes
    PROVE  /\ <<telnetOptionAcknowledge(command), option>> \in Reply
           /\ <<telnetOptionDeny(command), option>> \in Reply
           /\ NawsReply \in Reply
           /\ TerminalTypeReply \in Reply
  BY TelnetAssumption
     DEF Reply, Bytes, telnetOptionAcknowledge, telnetOptionDeny, NawsReply,
         TerminalTypeReply, TelnetAssumption, DO, DONT, WILL, WONT, SB,
         TELOPT_NAWS, TELOPT_TTYPE

LEMMA DeliveredType ==
    ASSUME NEW rs \in Seq(Reply), NEW r \in Reply
    PROVE  Delivered(rs, r) \in Seq(Reply)
  BY DEF Delivered

LEMMA InitTypeOK == Init => TypeOK
  <1> SUFFICES ASSUME Init PROVE TypeOK
    OBVIOUS
  <1> USE DEF Init, TypeOK
  <1>1. <<>> \in Seq(0..255)
    OBVIOUS
  <1>2. <<>> \in Seq(Reply)
    OBVIOUS
  <1>3. output \in Seq(0..255) /\ wire \in Seq(0..255) /\ sent \in Seq(0..255)
    BY <1>1
  <1>4. replies \in Seq(Reply)
    BY <1>2
  <1>5. {m_isShutdown, is_open} \subseteq BOOLEAN
    OBVIOUS
  <1>6. messages \in 0..MaxMessages
    BY TelnetAssumption DEF TelnetAssumption
  <1> QED
    BY <1>3, <1>4, <1>5, <1>6 DEF TELOPT_ECHO, TELOPT_TTYPE

\* The bytes of a message are bytes.
LEMMA SendsType ==
    ASSUME TypeOK, NEW bytes \in Seq(Bytes), Sends(bytes)
    PROVE  /\ wire' \in Seq(Bytes)
           /\ messages' \in 0..MaxMessages
           /\ UNCHANGED <<parserVars, optionVars, replyVars, output, is_open,
                          padding>>
  BY TelnetAssumption DEF TypeOK, Sends, Bytes, TelnetAssumption

\* A step of the server is well typed when what it records is.
LEMMA SendStep ==
    ASSUME TypeOK, NEW bytes \in Seq(Bytes), Sends(bytes),
           sent' \in Seq(Bytes), whole' \in BOOLEAN,
           asked' \subseteq Requests \union {<<SB, TELOPT_TTYPE>>}
    PROVE  TypeOK'
  BY SendsType DEF TypeOK, Bytes, parserVars, optionVars, replyVars

\* The parser reads a byte, and the rest of the message remains.
LEMMA ReadsType ==
    ASSUME TypeOK, NEW stage, Reads(stage)
    PROVE  /\ c \in Bytes
           /\ wire' \in Seq(Bytes)
           /\ padding' \in 0..3
           /\ UNCHANGED <<serverVars, whole>>
  <1>1. CASE padding > 0
    BY <1>1 DEF TypeOK, Reads, Bytes, c, NUL
  <1>2. CASE ~(padding > 0)
    <2>1. wire # <<>> /\ c = Head(wire) /\ wire' = Tail(wire) /\ padding' = padding
      BY <1>2 DEF Reads, c
    <2>2. wire \in Seq(Bytes) /\ padding \in 0..3
      BY DEF TypeOK, Bytes
    <2> QED
      BY <2>1, <2>2 DEF Reads
  <1> QED
    BY <1>1, <1>2

\* The history variable stays a Boolean.
LEMMA WholeType ==
    ASSUME TypeOK
    PROVE  /\ ServerEscape => whole' \in BOOLEAN
           /\ EndOfBuffer => whole' \in BOOLEAN
           /\ UNCHANGED whole => whole' \in BOOLEAN
  BY Zenon DEF TypeOK, ServerEscape, EndOfBuffer

\* What a reply and its bookkeeping leave behind.
OptionsType ==
    /\ completed \subseteq {TELOPT_ECHO, TELOPT_BINARY, TELOPT_SGA}
    /\ is_active \subseteq {TELOPT_BINARY, TELOPT_SGA, TELOPT_TTYPE, TELOPT_NAWS}
    /\ active_sequence \subseteq {DO, DONT, WILL}
    /\ m_isShutdown \in BOOLEAN
    /\ replies \in Seq(Reply)

LEMMA SameOptionsType ==
    ASSUME TypeOK, UNCHANGED <<optionVars, replyVars>>
    PROVE  OptionsType'
  BY DEF TypeOK, OptionsType, optionVars, replyVars

LEMMA RefuseOnceType ==
    ASSUME TypeOK, m_teloptCommand \in {DO, DONT, WILL}, NEW r \in Reply,
           RefuseOnce(r)
    PROVE  OptionsType'
  BY DeliveredType
     DEF TypeOK, OptionsType, RefuseOnce, Deliver, DeliverAll, replyVars

LEMMA AcceptOnceType ==
    ASSUME TypeOK, m_teloptCommand \in {DO, WILL},
           NEW option \in {TELOPT_BINARY, TELOPT_SGA}, AcceptOnce(option)
    PROVE  OptionsType'
  <1>1. <<telnetOptionAcknowledge(m_teloptCommand), option>> \in Reply
    <2>1. option \in Bytes
      BY DEF Bytes, TELOPT_BINARY, TELOPT_SGA
    <2>2. m_teloptCommand \in {DO, DONT, WILL}
      OBVIOUS
    <2> QED
      BY <2>1, <2>2, ReplyTypes
  <1> QED
    BY <1>1, DeliveredType
       DEF TypeOK, OptionsType, AcceptOnce, Deliver, DeliverAll, replyVars

LEMMA AcceptType ==
    ASSUME TypeOK, m_teloptCommand = DO,
           NEW option \in {TELOPT_TTYPE, TELOPT_NAWS}, Accept(option)
    PROVE  OptionsType'
  <1> DEFINE ack == <<telnetOptionAcknowledge(m_teloptCommand), option>>
  <1>1. ack \in Reply /\ NawsReply \in Reply
    <2>1. option \in Bytes
      BY DEF Bytes, TELOPT_TTYPE, TELOPT_NAWS
    <2>2. m_teloptCommand \in {DO, DONT, WILL}
      OBVIOUS
    <2> QED
      BY <2>1, <2>2, ReplyTypes
  <1>2. replies \in Seq(Reply)
    BY DEF TypeOK
  <1>3. Delivered(replies, ack) \in Seq(Reply)
    BY <1>1, <1>2, DeliveredType
  <1>4. Delivered(Delivered(replies, ack), NawsReply) \in Seq(Reply)
    BY <1>1, <1>3, DeliveredType
  <1>5. replies' \in Seq(Reply)
    BY <1>3, <1>4 DEF Accept, DeliverAll
  <1> QED
    BY <1>5 DEF TypeOK, OptionsType, Accept, DeliverAll

LEMMA IgnoreEchoType ==
    ASSUME TypeOK, IgnoreEcho
    PROVE  OptionsType'
  BY SameOptionsType DEF IgnoreEcho

\* A step of the parser is well typed when its parts are.
LEMMA ParseStep ==
    ASSUME TypeOK, NEW stage, Reads(stage), OptionsType',
           m_teloptStage' \in 0..4, m_teloptCommand' \in 0..254,
           m_currentOption' \in {0, TELOPT_TTYPE},
           output' \in Seq(Bytes)
    PROVE  TypeOK'
  BY ReadsType DEF TypeOK, OptionsType, Bytes, serverVars

LEMMA StageStep ==
    ASSUME TypeOK, NEW stage, Reads(stage), NEW n \in 0..4, Stage(n),
           OptionsType', UNCHANGED output
    PROVE  TypeOK'
  <1>1. m_teloptStage' \in 0..4 /\ UNCHANGED <<m_teloptCommand, m_currentOption>>
    BY DEF Stage
  <1>2. m_teloptCommand' \in 0..254 /\ m_currentOption' \in {0, TELOPT_TTYPE}
    BY <1>1 DEF TypeOK
  <1>3. output' \in Seq(Bytes)
    BY DEF TypeOK, Bytes
  <1> QED
    BY <1>1, <1>2, <1>3, ParseStep

LEMMA NextTypeOK == TypeOK /\ [Next]_vars => TypeOK'
  <1> SUFFICES ASSUME TypeOK, [Next]_vars PROVE TypeOK'
    OBVIOUS
  <1>1. CASE ServerText
    <2>1. PICK char \in Text : Sends(<<char>>) /\ sent' = Append(sent, char)
                               /\ UNCHANGED <<asked, whole>>
      BY <1>1 DEF ServerText
    <2>2. <<char>> \in Seq(Bytes) /\ char \in Bytes
      BY TelnetAssumption DEF TelnetAssumption, Bytes
    <2>3. sent \in Seq(Bytes)
      BY DEF TypeOK, Bytes
    <2>4. sent' \in Seq(Bytes)
      BY ONLY <2>1, <2>2, <2>3
    <2> QED
      BY <2>1, <2>2, <2>4, SendStep, WholeType DEF TypeOK
  <1>2. CASE ServerEscape
    <2>1. <<IAC, IAC>> \in Seq(Bytes) /\ IAC \in Bytes
      BY DEF IAC, Bytes
    <2>2. sent \in Seq(Bytes) /\ sent' \in {sent, Append(sent, IAC)}
      BY <1>2 DEF TypeOK, Bytes, ServerEscape
    <2>3. sent' \in Seq(Bytes)
      BY ONLY <2>1, <2>2
    <2> QED
      BY <1>2, <2>1, <2>3, SendStep, WholeType DEF TypeOK, ServerEscape
  <1>3. CASE ServerNop
    <2>1. <<IAC, NOP>> \in Seq(Bytes)
      BY DEF IAC, NOP, Bytes
    <2> QED
      BY <1>3, <2>1, SendStep, WholeType DEF TypeOK, Bytes, ServerNop
  <1>4. CASE ServerAsks
    <2>1. PICK command \in {DO, DONT, WILL, WONT}, option \in Options :
              /\ Sends(<<IAC, command, option>>)
              /\ asked' = asked \union {<<command, option>>}
              /\ UNCHANGED <<sent, whole>>
      BY <1>4 DEF ServerAsks
    <2>2. <<IAC, command, option>> \in Seq(Bytes)
      BY TelnetAssumption
         DEF TelnetAssumption, IAC, DO, DONT, WILL, WONT, Bytes
    <2>3. <<command, option>> \in Requests
      BY DEF Requests
    <2> QED
      BY <2>1, <2>2, <2>3, SendStep, WholeType DEF TypeOK, Bytes
  <1>5. CASE ServerAsksType
    <2>1. <<IAC, SB, TELOPT_TTYPE, TELQUAL_SEND, IAC, SE>> \in Seq(Bytes)
      BY DEF IAC, SB, TELOPT_TTYPE, TELQUAL_SEND, SE, Bytes
    <2> QED
      BY <1>5, <2>1, SendStep, WholeType DEF TypeOK, Bytes, ServerAsksType
  <1>6. CASE ConnectionCloses
    BY <1>6 DEF TypeOK, ConnectionCloses, parserVars, optionVars, replyVars
  <1>7. CASE EndOfBuffer
    BY <1>7, WholeType
       DEF TypeOK, EndOfBuffer, parserVars, optionVars, replyVars, serverVars
  <1>8. CASE FindIAC
    <2>1. output' \in Seq(Bytes)
      <3>1. c \in Bytes /\ output \in Seq(Bytes)
        BY <1>8, ReadsType DEF FindIAC, TypeOK, Bytes
      <3> QED
        BY <1>8, <3>1 DEF FindIAC, Returns
    <2> QED
      <3>1. Reads(0) /\ OptionsType'
        BY <1>8, SameOptionsType DEF FindIAC
      <3>2. m_teloptStage' \in 0..4 /\ UNCHANGED <<m_teloptCommand, m_currentOption>>
        BY <1>8 DEF FindIAC, Stage
      <3> QED
        BY <2>1, <3>1, <3>2, ParseStep DEF TypeOK
  <1>9. CASE DoubleIAC
    <2>1. output' \in Seq(Bytes)
      <3>1. IAC \in Bytes /\ output \in Seq(Bytes)
        BY DEF TypeOK, Bytes, IAC
      <3> QED
        BY <1>9, <3>1 DEF DoubleIAC, Returns
    <2> QED
      <3>1. Reads(1) /\ OptionsType'
        BY <1>9, SameOptionsType DEF DoubleIAC
      <3>2. m_teloptStage' \in 0..4 /\ UNCHANGED <<m_teloptCommand, m_currentOption>>
        BY <1>9 DEF DoubleIAC, Stage
      <3> QED
        BY <2>1, <3>1, <3>2, ParseStep DEF TypeOK
  <1>10. CASE PassThroughCommand
    <2>1. Reads(1) /\ UNCHANGED output /\ OptionsType'
      BY <1>10, SameOptionsType DEF PassThroughCommand
    <2>2. Stage(0)
      BY <1>10 DEF PassThroughCommand
    <2> QED
      BY <2>1, <2>2, StageStep
  <1>11. CASE FindCommand
    <2>1. c \in 0..254
      BY <1>11, ReadsType DEF FindCommand, Bytes, IAC
    <2> QED
      BY <1>11, <2>1, ParseStep, SameOptionsType DEF FindCommand, TypeOK, Bytes
  <1>12. CASE InvalidCommand
    <2>1. Reads(2) /\ UNCHANGED output /\ OptionsType'
      BY <1>12, SameOptionsType DEF InvalidCommand
    <2>2. Stage(0)
      BY <1>12 DEF InvalidCommand
    <2> QED
      BY <2>1, <2>2, StageStep
  <1>13. CASE ReceiveDont
    <2>1. OptionsType'
      <3>1. CASE c = IAC
        BY <1>13, <3>1, SameOptionsType DEF ReceiveDont
      <3>2. CASE c # IAC
        <4>1. c \in Bytes
          BY <1>13, ReadsType DEF ReceiveDont, FindOptionOf
        <4>2. <<telnetOptionAcknowledge(DONT), c>> \in Reply
          BY <4>1, ReplyTypes
        <4> QED
          BY <1>13, <3>2, <4>2, RefuseOnceType DEF ReceiveDont, FindOptionOf
      <3> QED
        BY <3>1, <3>2
    <2> QED
      <3>1. Reads(2) /\ UNCHANGED output
        BY <1>13 DEF ReceiveDont, FindOptionOf
      <3>2. Stage(0) \/ Stage(1)
        BY <1>13 DEF ReceiveDont, RefuseOnce, AcceptOnce, Accept, IgnoreEcho
      <3> QED
        BY <2>1, <3>1, <3>2, StageStep
  <1>14. CASE ReceiveDo
    <2>1. OptionsType'
      <3>0. c \in Bytes /\ m_teloptCommand = DO
        BY <1>14, ReadsType DEF ReceiveDo, FindOptionOf
      <3>1. CASE c = TELOPT_ECHO
        <4>1. IgnoreEcho
          BY <1>14, <3>1
             DEF ReceiveDo, TELOPT_ECHO, TELOPT_BINARY, TELOPT_SGA,
                 TELOPT_TTYPE, TELOPT_NAWS
        <4> QED
          BY <4>1, IgnoreEchoType
      <3>2. CASE c \in {TELOPT_BINARY, TELOPT_SGA}
        <4>1. AcceptOnce(c)
          BY <1>14, <3>2
             DEF ReceiveDo, TELOPT_ECHO, TELOPT_BINARY, TELOPT_SGA,
                 TELOPT_TTYPE, TELOPT_NAWS
        <4> QED
          BY <3>0, <3>2, <4>1, AcceptOnceType
      <3>3. CASE c \in {TELOPT_TTYPE, TELOPT_NAWS}
        <4>1. Accept(c)
          BY <1>14, <3>3
             DEF ReceiveDo, TELOPT_ECHO, TELOPT_BINARY, TELOPT_SGA,
                 TELOPT_TTYPE, TELOPT_NAWS
        <4> QED
          BY <3>0, <3>3, <4>1, AcceptType
      <3>4. CASE c \notin {TELOPT_ECHO, TELOPT_BINARY, TELOPT_SGA, TELOPT_TTYPE,
                           TELOPT_NAWS}
        <4>1. <<telnetOptionDeny(DO), c>> \in Reply
          BY <3>0, ReplyTypes
        <4>2. RefuseOnce(<<telnetOptionDeny(DO), c>>)
          BY <1>14, <3>4 DEF ReceiveDo
        <4> QED
          BY <3>0, <4>1, <4>2, RefuseOnceType
      <3> QED
        BY <3>1, <3>2, <3>3, <3>4
    <2> QED
      <3>1. Reads(2) /\ UNCHANGED output
        BY <1>14 DEF ReceiveDo, FindOptionOf
      <3>2. Stage(0) \/ Stage(1)
        BY <1>14 DEF ReceiveDo, RefuseOnce, AcceptOnce, Accept, IgnoreEcho
      <3> QED
        BY <2>1, <3>1, <3>2, StageStep
  <1>15. CASE ReceiveWill
    <2>1. OptionsType'
      <3>0. c \in Bytes /\ m_teloptCommand = WILL
        BY <1>15, ReadsType DEF ReceiveWill, FindOptionOf
      <3>1. CASE c = TELOPT_ECHO
        <4>1. IgnoreEcho
          BY <1>15, <3>1
             DEF ReceiveWill, TELOPT_ECHO, TELOPT_BINARY, TELOPT_SGA
        <4> QED
          BY <4>1, IgnoreEchoType
      <3>2. CASE c \in {TELOPT_BINARY, TELOPT_SGA}
        <4>1. AcceptOnce(c)
          BY <1>15, <3>2 DEF ReceiveWill, TELOPT_ECHO, TELOPT_BINARY, TELOPT_SGA
        <4> QED
          BY <3>0, <3>2, <4>1, AcceptOnceType
      <3>3. CASE c \notin {TELOPT_ECHO, TELOPT_BINARY, TELOPT_SGA}
        <4>1. <<telnetOptionDeny(WILL), c>> \in Reply
          BY <3>0, ReplyTypes
        <4>2. RefuseOnce(<<telnetOptionDeny(WILL), c>>)
          BY <1>15, <3>3 DEF ReceiveWill
        <4> QED
          BY <3>0, <4>1, <4>2, RefuseOnceType
      <3> QED
        BY <3>1, <3>2, <3>3
    <2> QED
      <3>1. Reads(2) /\ UNCHANGED output
        BY <1>15 DEF ReceiveWill, FindOptionOf
      <3>2. Stage(0) \/ Stage(1)
        BY <1>15 DEF ReceiveWill, RefuseOnce, AcceptOnce, Accept, IgnoreEcho
      <3> QED
        BY <2>1, <3>1, <3>2, StageStep
  <1>16. CASE ReceiveWont
    BY <1>16, ParseStep, SameOptionsType
       DEF ReceiveWont, FindOptionOf, Stage, TypeOK, Bytes
  <1>17. CASE ReceiveSubnegotiation
    BY <1>17, ParseStep, SameOptionsType
       DEF ReceiveSubnegotiation, FindOptionOf, TypeOK, Bytes
  <1>18. CASE FindQualifier
    <2>1. Reads(3) /\ UNCHANGED output /\ OptionsType'
      BY <1>18, SameOptionsType DEF FindQualifier
    <2>2. Stage(0) \/ Stage(4)
      BY <1>18 DEF FindQualifier
    <2> QED
      BY <2>1, <2>2, StageStep
  <1>19. CASE FindEnd
    <2>1. OptionsType'
      <3>1. TerminalTypeReply \in Reply
        BY DEF TerminalTypeReply, Reply, SB, TELOPT_TTYPE
      <3>2. Delivered(replies, TerminalTypeReply) \in Seq(Reply)
        BY <3>1, DeliveredType DEF TypeOK
      <3> QED
        BY <1>19, <3>2
           DEF FindEnd, OptionsType, TypeOK, Deliver, DeliverAll, optionVars,
               replyVars
    <2> QED
      <3>1. Reads(4) /\ m_teloptStage' \in 0..4
            /\ UNCHANGED <<m_teloptCommand, m_currentOption, output>>
        BY <1>19 DEF FindEnd, Stage
      <3> QED
        BY <2>1, <3>1, ParseStep DEF TypeOK, Bytes
  <1>20. CASE UNCHANGED vars
    BY <1>20 DEF TypeOK, vars, parserVars, optionVars, replyVars, serverVars
  <1> QED
    BY <1>1, <1>2, <1>3, <1>4, <1>5, <1>6, <1>7, <1>8, <1>9, <1>10, <1>11,
       <1>12, <1>13, <1>14, <1>15, <1>16, <1>17, <1>18, <1>19, <1>20
       DEF Next, Server, telnetOptionParse

\* Whatever the server sends and however the reads cut it, the stage stays in
\* 0..4, no command is 255 and only replies of bytes are delivered.
THEOREM TypeCorrect == Spec => []TypeOK
  BY InitTypeOK, NextTypeOK, PTL DEF Spec

(***************************************************************************)
(* No negotiation loops.  NoLoop is not inductive: that a refusal is new   *)
(* depends on active_sequence, and that an acceptance is new on completed. *)
(* LoopInv says what the two sets remember of the replies rs.              *)
(***************************************************************************)
Once == {TELOPT_BINARY, TELOPT_SGA}

LoopInv(rs, refused, accepted) ==
    /\ \A k \in DOMAIN rs :
          /\ rs[k][1] = DONT => WILL \in refused
          /\ rs[k][1] = WONT => DO \in refused \/ DONT \in refused
          /\ \A option \in Once :
                Accepts(rs[k], option) => option \in accepted
    /\ \A k, m \in DOMAIN rs : k # m =>
          /\ ~(rs[k][1] = DONT /\ rs[m][1] = DONT)
          /\ rs[k][1] = WONT /\ rs[m][1] = WONT =>
                DO \in refused /\ DONT \in refused
          /\ \A option \in Once :
                ~(Accepts(rs[k], option) /\ Accepts(rs[m], option))
    /\ \A k, m, n \in DOMAIN rs :
          k # m /\ n # k /\ n # m =>
              ~(rs[k][1] = WONT /\ rs[m][1] = WONT /\ rs[n][1] = WONT)

ReplyInv == LoopInv(replies, active_sequence, completed)

LEMMA AppendedReply ==
    ASSUME NEW rs \in Seq(Reply), NEW r \in Reply
    PROVE  /\ Append(rs, r) \in Seq(Reply)
           /\ DOMAIN Append(rs, r) = DOMAIN rs \union {Len(rs) + 1}
           /\ Len(rs) + 1 \notin DOMAIN rs
           /\ Append(rs, r)[Len(rs) + 1] = r
           /\ \A k \in DOMAIN rs : Append(rs, r)[k] = rs[k]
  OBVIOUS

LEMMA LoopInvGrows ==
    ASSUME NEW rs, NEW refused, NEW accepted, NEW refused2, NEW accepted2,
           LoopInv(rs, refused, accepted),
           refused \subseteq refused2, accepted \subseteq accepted2
    PROVE  LoopInv(rs, refused2, accepted2)
  BY DEF LoopInv

\* A reply that neither refuses nor accepts BINARY or SGA.
LEMMA NeutralReply ==
    ASSUME NEW rs \in Seq(Reply), NEW r \in Reply, NEW refused, NEW accepted,
           LoopInv(rs, refused, accepted),
           r[1] \notin {DONT, WONT},
           \A option \in Once : ~Accepts(r, option)
    PROVE  LoopInv(Append(rs, r), refused, accepted)
  BY AppendedReply DEF LoopInv

\* The first refusal of a command.
LEMMA RefusalReply ==
    ASSUME NEW rs \in Seq(Reply), NEW r \in Reply, NEW refused, NEW accepted,
           LoopInv(rs, refused, accepted),
           NEW command \in {DO, DONT, WILL}, command \notin refused,
           r[1] = IF command = WILL THEN DONT ELSE WONT
    PROVE  LoopInv(Append(rs, r), refused \union {command}, accepted)
  <1>1. \A option : ~Accepts(r, option)
    BY DEF Accepts, DO, DONT, WILL, WONT
  <1>2. CASE command = WILL
    BY <1>1, <1>2, AppendedReply DEF LoopInv, DO, DONT, WILL, WONT
  <1>3. CASE command = DO
    BY <1>1, <1>3, AppendedReply DEF LoopInv, DO, DONT, WILL, WONT
  <1>4. CASE command = DONT
    BY <1>1, <1>4, AppendedReply DEF LoopInv, DO, DONT, WILL, WONT
  <1> QED
    BY <1>2, <1>3, <1>4

\* The first acceptance of BINARY or SGA.
LEMMA AcceptanceReply ==
    ASSUME NEW rs \in Seq(Reply), NEW r \in Reply, NEW refused, NEW accepted,
           LoopInv(rs, refused, accepted),
           NEW option \in Once, option \notin accepted, Accepts(r, option)
    PROVE  LoopInv(Append(rs, r), refused, accepted \union {option})
  <1>1. r[1] \notin {DONT, WONT} /\ r[2] = option
    BY DEF Accepts, DO, DONT, WILL, WONT
  <1>2. \A other \in Once : Accepts(r, other) => other = option
    BY <1>1 DEF Accepts
  <1> QED
    BY <1>1, <1>2, AppendedReply DEF LoopInv

LEMMA SameReplies ==
    ASSUME ReplyInv, UNCHANGED <<replies, active_sequence, completed>>
    PROVE  ReplyInv'
  BY DEF ReplyInv

LEMMA RefuseOnceLoop ==
    ASSUME TypeOK, ReplyInv, m_teloptCommand \in {DO, DONT, WILL},
           NEW r \in Reply,
           r[1] = IF m_teloptCommand = WILL THEN DONT ELSE WONT,
           RefuseOnce(r)
    PROVE  ReplyInv'
  <1>0. replies \in Seq(Reply) /\ completed' = completed
    BY DEF TypeOK, RefuseOnce
  <1>1. CASE m_teloptCommand \in active_sequence
    BY <1>1, SameReplies DEF RefuseOnce, replyVars
  <1>2. CASE m_teloptCommand \notin active_sequence
    <2>1. active_sequence' = active_sequence \union {m_teloptCommand}
      BY <1>2 DEF RefuseOnce
    <2>2. replies' = IF is_open THEN Append(replies, r) ELSE replies
      BY <1>2 DEF RefuseOnce, Deliver, DeliverAll, Delivered
    <2>3. LoopInv(replies, active_sequence', completed')
      BY <1>0, <2>1, LoopInvGrows DEF ReplyInv
    <2>4. LoopInv(Append(replies, r), active_sequence', completed')
      BY <1>0, <1>2, <2>1, RefusalReply DEF ReplyInv
    <2> QED
      BY <2>2, <2>3, <2>4 DEF ReplyInv
  <1> QED
    BY <1>1, <1>2

LEMMA AcceptOnceLoop ==
    ASSUME TypeOK, ReplyInv, m_teloptCommand \in {DO, WILL},
           NEW option \in Once, AcceptOnce(option)
    PROVE  ReplyInv'
  <1> DEFINE r == <<telnetOptionAcknowledge(m_teloptCommand), option>>
  <1>0. replies \in Seq(Reply) /\ active_sequence' = active_sequence
    BY DEF TypeOK, AcceptOnce
  <1>1. CASE option \in completed
    BY <1>0, <1>1, SameReplies DEF AcceptOnce, replyVars
  <1>2. CASE option \notin completed
    <2>1. completed' = completed \union {option}
      BY <1>2 DEF AcceptOnce
    <2>2. replies' = IF is_open THEN Append(replies, r) ELSE replies
      BY <1>2 DEF AcceptOnce, Deliver, DeliverAll, Delivered
    <2>3. LoopInv(replies, active_sequence', completed')
      BY <1>0, <2>1, LoopInvGrows DEF ReplyInv
    <2>4. Accepts(r, option)
      <3>1. telnetOptionAcknowledge(m_teloptCommand) \in {DO, WILL}
        BY DEF telnetOptionAcknowledge, DO, DONT, WILL, WONT
      <3> QED
        BY <3>1 DEF Accepts
    <2>5. r \in Reply
      <3>1. option \in Bytes
        BY DEF Once, Bytes, TELOPT_BINARY, TELOPT_SGA
      <3>2. m_teloptCommand \in {DO, DONT, WILL}
        OBVIOUS
      <3> QED
        BY <3>1, <3>2, ReplyTypes
    <2>6. LoopInv(Append(replies, r), active_sequence', completed')
      <3> HIDE DEF r
      <3> QED
        BY <1>0, <1>2, <2>1, <2>4, <2>5, AcceptanceReply DEF ReplyInv
    <2> QED
      BY <2>2, <2>3, <2>6 DEF ReplyInv
  <1> QED
    BY <1>1, <1>2

LEMMA AcceptLoop ==
    ASSUME TypeOK, ReplyInv, m_teloptCommand = DO,
           NEW option \in {TELOPT_TTYPE, TELOPT_NAWS}, Accept(option)
    PROVE  ReplyInv'
  <1> DEFINE r == <<telnetOptionAcknowledge(m_teloptCommand), option>>
             rs == Delivered(replies, r)
  <1>0. replies \in Seq(Reply) /\ UNCHANGED <<active_sequence, completed>>
    BY DEF TypeOK, Accept
  <1>1. r \in Reply /\ NawsReply \in Reply
    <2>1. option \in Bytes
      BY DEF Bytes, TELOPT_TTYPE, TELOPT_NAWS
    <2>2. m_teloptCommand \in {DO, DONT, WILL}
      OBVIOUS
    <2> QED
      BY <2>1, <2>2, ReplyTypes
  <1>2. r[1] = WILL /\ r[2] = option
    BY DEF telnetOptionAcknowledge, DO, DONT, WILL, WONT
  <1>3. \A other \in Once : ~Accepts(r, other)
    BY <1>2 DEF Accepts, Once, TELOPT_BINARY, TELOPT_SGA, TELOPT_TTYPE, TELOPT_NAWS
  <1>4. NawsReply[1] = SB
    BY DEF NawsReply
  <1>5. \A other \in Once : ~Accepts(NawsReply, other)
    BY <1>4 DEF Accepts, SB, WILL, DO
  <1> HIDE DEF r
  <1>6. rs \in Seq(Reply) /\ LoopInv(rs, active_sequence, completed)
    <2>1. r[1] \notin {DONT, WONT}
      BY <1>2 DEF WILL, DONT, WONT
    <2>2. LoopInv(Append(replies, r), active_sequence, completed)
      BY <1>0, <1>1, <1>3, <2>1, NeutralReply DEF ReplyInv
    <2> QED
      BY <1>0, <1>1, <2>2, DeliveredType DEF Delivered, ReplyInv
  <1>7. LoopInv(Delivered(rs, NawsReply), active_sequence, completed)
    <2> HIDE DEF rs
    <2>1. NawsReply[1] \notin {DONT, WONT}
      BY <1>4 DEF SB, DONT, WONT
    <2>2. LoopInv(Append(rs, NawsReply), active_sequence, completed)
      BY <1>1, <1>5, <1>6, <2>1, NeutralReply
    <2> QED
      BY <1>6, <2>2 DEF Delivered
  <1>8. replies' \in {rs, Delivered(rs, NawsReply)}
    BY DEF Accept, DeliverAll, r
  <1> QED
    BY <1>0, <1>6, <1>7, <1>8 DEF ReplyInv

LEMMA NextReplyInv == TypeOK /\ ReplyInv /\ [Next]_vars => ReplyInv'
  <1> SUFFICES ASSUME TypeOK, ReplyInv, [Next]_vars PROVE ReplyInv'
    OBVIOUS
  <1>1. CASE Server \/ EndOfBuffer \/ UNCHANGED vars
    BY <1>1, SameReplies
       DEF Server, ServerText, ServerEscape, ServerNop, ServerAsks,
           ServerAsksType, ConnectionCloses, Sends, EndOfBuffer, vars,
           optionVars, replyVars
  <1>2. CASE FindIAC \/ DoubleIAC \/ PassThroughCommand \/ FindCommand
             \/ InvalidCommand \/ ReceiveWont \/ ReceiveSubnegotiation
             \/ FindQualifier
    BY <1>2, SameReplies
       DEF FindIAC, DoubleIAC, PassThroughCommand, FindCommand, InvalidCommand,
           ReceiveWont, ReceiveSubnegotiation, FindQualifier, optionVars,
           replyVars
  <1>3. CASE ReceiveDont
    <2>1. CASE c = IAC
      BY <1>3, <2>1, SameReplies DEF ReceiveDont, optionVars, replyVars
    <2>2. CASE c # IAC
      <3> DEFINE r == <<telnetOptionAcknowledge(DONT), c>>
      <3>1. c \in Bytes /\ m_teloptCommand = DONT /\ RefuseOnce(r)
        BY <1>3, <2>2, ReadsType DEF ReceiveDont, FindOptionOf
      <3>2. r \in Reply
        BY <3>1, ReplyTypes
      <3>3. r[1] = IF m_teloptCommand = WILL THEN DONT ELSE WONT
        BY <3>1 DEF telnetOptionAcknowledge, DO, DONT, WILL
      <3> HIDE DEF r
      <3> QED
        BY <3>1, <3>2, <3>3, RefuseOnceLoop
    <2> QED
      BY <2>1, <2>2
  <1>4. CASE ReceiveDo
    <2>0. c \in Bytes /\ m_teloptCommand = DO
      BY <1>4, ReadsType DEF ReceiveDo, FindOptionOf
    <2>1. CASE IgnoreEcho
      BY <2>1, SameReplies DEF IgnoreEcho, optionVars, replyVars
    <2>2. CASE c \in {TELOPT_BINARY, TELOPT_SGA} /\ AcceptOnce(c)
      BY <2>0, <2>2, AcceptOnceLoop DEF Once
    <2>3. CASE c \in {TELOPT_TTYPE, TELOPT_NAWS} /\ Accept(c)
      BY <2>0, <2>3, AcceptLoop
    <2>4. CASE RefuseOnce(<<telnetOptionDeny(DO), c>>)
      <3> DEFINE r == <<telnetOptionDeny(DO), c>>
      <3>1. r \in Reply
        BY <2>0, ReplyTypes
      <3>2. r[1] = IF m_teloptCommand = WILL THEN DONT ELSE WONT
        BY <2>0 DEF telnetOptionDeny, DO, DONT, WILL, WONT
      <3>3. RefuseOnce(r)
        BY <2>4
      <3> HIDE DEF r
      <3> QED
        BY <2>0, <3>1, <3>2, <3>3, RefuseOnceLoop
    <2> QED
      BY <1>4, <2>1, <2>2, <2>3, <2>4 DEF ReceiveDo
  <1>5. CASE ReceiveWill
    <2>0. c \in Bytes /\ m_teloptCommand = WILL
      BY <1>5, ReadsType DEF ReceiveWill, FindOptionOf
    <2>1. CASE IgnoreEcho
      BY <2>1, SameReplies DEF IgnoreEcho, optionVars, replyVars
    <2>2. CASE c \in {TELOPT_BINARY, TELOPT_SGA} /\ AcceptOnce(c)
      BY <2>0, <2>2, AcceptOnceLoop DEF Once
    <2>3. CASE RefuseOnce(<<telnetOptionDeny(WILL), c>>)
      <3> DEFINE r == <<telnetOptionDeny(WILL), c>>
      <3>1. r \in Reply
        BY <2>0, ReplyTypes
      <3>2. r[1] = IF m_teloptCommand = WILL THEN DONT ELSE WONT
        BY <2>0 DEF telnetOptionDeny, DO, DONT, WILL, WONT
      <3>3. RefuseOnce(r)
        BY <2>3
      <3> HIDE DEF r
      <3> QED
        BY <2>0, <3>1, <3>2, <3>3, RefuseOnceLoop
    <2> QED
      BY <1>5, <2>1, <2>2, <2>3 DEF ReceiveWill
  <1>6. CASE FindEnd
    <2>0. UNCHANGED <<active_sequence, completed>> /\ replies \in Seq(Reply)
      BY <1>6 DEF FindEnd, optionVars, TypeOK
    <2>1. TerminalTypeReply \in Reply /\ TerminalTypeReply[1] = SB
      BY DEF TerminalTypeReply, Reply, SB, TELOPT_TTYPE
    <2>2. LoopInv(Append(replies, TerminalTypeReply), active_sequence, completed)
      <3>1. TerminalTypeReply[1] \notin {DONT, WONT}
        BY <2>1 DEF SB, DONT, WONT
      <3>2. \A other \in Once : ~Accepts(TerminalTypeReply, other)
        BY <2>1 DEF Accepts, SB, WILL, DO
      <3> QED
        BY <2>0, <2>1, <3>1, <3>2, NeutralReply DEF ReplyInv
    <2>3. replies' \in {replies, Append(replies, TerminalTypeReply)}
      BY <1>6 DEF FindEnd, Deliver, DeliverAll, Delivered, replyVars
    <2> QED
      BY <2>0, <2>2, <2>3 DEF ReplyInv
  <1> QED
    BY <1>1, <1>2, <1>3, <1>4, <1>5, <1>6 DEF Next, Server, telnetOptionParse

\* However often the server repeats its requests, and however the reads cut
\* them, BINARY and SGA are accepted at most once, a WILL is refused at most
\* once and the client refuses to use an option at most twice: no negotiation
\* with a server that answers in kind goes on for ever.
THEOREM NegotiationEnds == Spec => []NoLoop
  <1>1. Init => ReplyInv
    BY DEF Init, ReplyInv, LoopInv
  <1>2. ReplyInv => NoLoop
    BY DEF ReplyInv, LoopInv, NoLoop, Once
  <1> QED
    BY <1>1, <1>2, InitTypeOK, NextTypeOK, NextReplyInv, PTL DEF Spec

(***************************************************************************)
(* The text, and the replies, as long as every read ends with a message of *)
(* the server.  Neither property is inductive: InSync ties the stage of    *)
(* the parser to what is left of the message it is in.                     *)
(***************************************************************************)
At(stage, bytes) == m_teloptStage = stage /\ wire = bytes /\ padding = 0

Idle == m_teloptStage = 0 /\ wire = <<>> /\ output = sent

InText == \E t \in Text : At(0, <<t>>) /\ sent = Append(output, t)

InEscape ==
    /\ TELOPT_BINARY \in is_active
    /\ sent = Append(output, IAC)
    /\ At(0, <<IAC, IAC>>) \/ At(1, <<IAC>>)

InNop == output = sent /\ (At(0, <<IAC, NOP>>) \/ At(1, <<NOP>>))

InRequest(command, option) ==
    /\ output = sent
    /\ <<command, option>> \in asked
    /\ \/ At(0, <<IAC, command, option>>)
       \/ At(1, <<command, option>>)
       \/ At(2, <<option>>) /\ m_teloptCommand = command

InTypeRequest ==
    /\ output = sent
    /\ <<SB, TELOPT_TTYPE>> \in asked
    /\ \/ At(0, <<IAC, SB, TELOPT_TTYPE, TELQUAL_SEND, IAC, SE>>)
       \/ At(1, <<SB, TELOPT_TTYPE, TELQUAL_SEND, IAC, SE>>)
       \/ At(2, <<TELOPT_TTYPE, TELQUAL_SEND, IAC, SE>>) /\ m_teloptCommand = SB
       \/ At(3, <<TELQUAL_SEND, IAC, SE>>)
       \/ At(4, <<IAC, SE>>)
       \/ At(4, <<SE>>)

Commands == {DO, DONT, WILL, WONT}

InSync ==
    \/ Idle
    \/ InText
    \/ InEscape
    \/ InNop
    \/ \E command \in Commands, option \in Options : InRequest(command, option)
    \/ InTypeRequest

LEMMA SyncInit == Init => InSync /\ RepliesAreAnswersAlways
  BY DEF Init, InSync, Idle, RepliesAreAnswersAlways, ToSet

LEMMA Heads ==
    /\ \A a : Head(<<a>>) = a /\ Tail(<<a>>) = <<>>
    /\ \A a, b : Head(<<a, b>>) = a /\ Tail(<<a, b>>) = <<b>>
    /\ \A a, b, d : Head(<<a, b, d>>) = a /\ Tail(<<a, b, d>>) = <<b, d>>
    /\ \A a, b, d, e : /\ Head(<<a, b, d, e>>) = a
                       /\ Tail(<<a, b, d, e>>) = <<b, d, e>>
    /\ \A a, b, d, e, f : /\ Head(<<a, b, d, e, f>>) = a
                          /\ Tail(<<a, b, d, e, f>>) = <<b, d, e, f>>
    /\ \A a, b, d, e, f, g :
          /\ Head(<<a, b, d, e, f, g>>) = a
          /\ Tail(<<a, b, d, e, f, g>>) = <<b, d, e, f, g>>
  OBVIOUS

LEMMA NotEmpty ==
    ASSUME InSync, wire = <<>>
    PROVE  Idle
  BY DEF InSync, InText, InEscape, InNop, InRequest, InTypeRequest, At

\* The parser takes the next byte of the message.
NextByte ==
    /\ wire # <<>> /\ c = Head(wire)
    /\ wire' = Tail(wire) /\ padding' = padding
    /\ UNCHANGED serverVars

LEMMA ReadsByte ==
    ASSUME padding = 0, NEW stage, Reads(stage)
    PROVE  NextByte
  BY DEF NextByte, Reads, c

LEMMA StageActions ==
    ASSUME telnetOptionParse
    PROVE  /\ padding = 0 => NextByte
           /\ m_teloptStage = 0 => FindIAC
           /\ m_teloptStage = 1 => DoubleIAC \/ PassThroughCommand \/ FindCommand
           /\ m_teloptStage = 2 =>
                 \/ InvalidCommand \/ ReceiveDont \/ ReceiveDo \/ ReceiveWill
                 \/ ReceiveWont \/ ReceiveSubnegotiation
           /\ m_teloptStage = 3 => FindQualifier
           /\ m_teloptStage = 4 => FindEnd
  <1>1. \E stage \in 0..4 : Reads(stage)
    BY DEF telnetOptionParse, FindIAC, DoubleIAC, PassThroughCommand,
           FindCommand, InvalidCommand, ReceiveDont, ReceiveDo, ReceiveWill,
           ReceiveWont, ReceiveSubnegotiation, FindQualifier, FindEnd,
           FindOptionOf
  <1>2. padding = 0 => NextByte
    BY <1>1, ReadsByte
  <1>3. \A stage \in 0..4 : Reads(stage) => m_teloptStage = stage
    BY DEF Reads
  <1> QED
    BY <1>2, <1>3
       DEF telnetOptionParse, FindIAC, DoubleIAC, PassThroughCommand,
           FindCommand, InvalidCommand, ReceiveDont, ReceiveDo, ReceiveWill,
           ReceiveWont, ReceiveSubnegotiation, FindQualifier, FindEnd,
           FindOptionOf

\* The zeros of a buffer leave an idle parser idle.
LEMMA IdleStep ==
    ASSUME Idle, telnetOptionParse
    PROVE  Idle'
  <1>1. FindIAC
    BY StageActions DEF Idle
  <1>2. padding > 0 /\ c = NUL /\ wire' = wire /\ UNCHANGED serverVars
    BY <1>1 DEF FindIAC, Reads, Idle, c
  <1> QED
    BY <1>1, <1>2 DEF FindIAC, Idle, Stage, Returns, NUL, IAC, serverVars

LEMMA TextStep ==
    ASSUME InText, telnetOptionParse
    PROVE  Idle'
  <1>1. PICK t \in Text : At(0, <<t>>) /\ sent = Append(output, t)
    BY DEF InText
  <1>2. FindIAC /\ NextByte
    BY <1>1, StageActions DEF At
  <1>3. c = t /\ wire' = <<>> /\ sent' = sent
    BY <1>1, <1>2, Heads DEF NextByte, At, serverVars
  <1>4. t # IAC /\ t # NUL
    BY TelnetAssumption DEF TelnetAssumption, IAC, NUL
  <1> QED
    BY <1>1, <1>2, <1>3, <1>4 DEF FindIAC, Idle, Stage, Returns

LEMMA EscapeStep ==
    ASSUME InEscape, telnetOptionParse
    PROVE  Idle' \/ InEscape'
  <1>1. CASE At(0, <<IAC, IAC>>)
    <2>1. FindIAC /\ NextByte
      BY <1>1, StageActions DEF At
    <2>2. c = IAC /\ wire' = <<IAC>> /\ sent' = sent /\ padding' = 0
      BY <1>1, <2>1, Heads DEF NextByte, At, serverVars
    <2> QED
      BY <2>1, <2>2 DEF InEscape, FindIAC, Stage, At, optionVars
  <1>2. CASE At(1, <<IAC>>)
    <2>1. /\ DoubleIAC \/ PassThroughCommand \/ FindCommand
          /\ NextByte
      BY <1>2, StageActions DEF At
    <2>2. c = IAC /\ wire' = <<>> /\ sent' = sent
      BY <1>2, <2>1, Heads DEF NextByte, At, serverVars
    <2>3. DoubleIAC
      BY <2>1, <2>2 DEF PassThroughCommand, FindCommand, PassThrough, IAC
    <2> QED
      BY <2>2, <2>3 DEF InEscape, Idle, DoubleIAC, Stage, Returns, IAC, NUL
  <1> QED
    BY <1>1, <1>2 DEF InEscape

LEMMA NopStep ==
    ASSUME InNop, telnetOptionParse
    PROVE  Idle' \/ InNop'
  <1>1. CASE At(0, <<IAC, NOP>>)
    <2>1. FindIAC /\ NextByte
      BY <1>1, StageActions DEF At
    <2>2. c = IAC /\ wire' = <<NOP>> /\ sent' = sent /\ padding' = 0
      BY <1>1, <2>1, Heads DEF NextByte, At, serverVars
    <2> QED
      BY <2>1, <2>2 DEF InNop, FindIAC, Stage, At
  <1>2. CASE At(1, <<NOP>>)
    <2>1. /\ DoubleIAC \/ PassThroughCommand \/ FindCommand
          /\ NextByte
      BY <1>2, StageActions DEF At
    <2>2. c = NOP /\ wire' = <<>> /\ sent' = sent
      BY <1>2, <2>1, Heads DEF NextByte, At, serverVars
    <2>3. PassThroughCommand
      BY <2>1, <2>2 DEF DoubleIAC, FindCommand, PassThrough, IAC, NOP
    <2> QED
      BY <2>2, <2>3 DEF InNop, Idle, PassThroughCommand, Stage
  <1> QED
    BY <1>1, <1>2 DEF InNop

LEMMA RequestStep ==
    ASSUME NEW command \in Commands, NEW option \in Options,
           InRequest(command, option), telnetOptionParse
    PROVE  Idle' \/ InRequest(command, option)'
  <1>0. option # IAC /\ command # IAC /\ command \notin PassThrough
    BY TelnetAssumption
       DEF TelnetAssumption, Commands, PassThrough, IAC, DO, DONT, WILL, WONT
  <1>1. CASE At(0, <<IAC, command, option>>)
    <2>1. FindIAC /\ NextByte
      BY <1>1, StageActions DEF At
    <2>2. c = IAC /\ wire' = <<command, option>> /\ padding' = 0
          /\ UNCHANGED <<sent, asked>>
      BY <1>1, <2>1, Heads DEF NextByte, At, serverVars
    <2> QED
      BY <2>1, <2>2 DEF InRequest, FindIAC, Stage, At
  <1>2. CASE At(1, <<command, option>>)
    <2>1. /\ DoubleIAC \/ PassThroughCommand \/ FindCommand
          /\ NextByte
      BY <1>2, StageActions DEF At
    <2>2. c = command /\ wire' = <<option>> /\ padding' = 0
          /\ UNCHANGED <<sent, asked>>
      BY <1>2, <2>1, Heads DEF NextByte, At, serverVars
    <2>3. FindCommand
      BY <1>0, <2>1, <2>2 DEF DoubleIAC, PassThroughCommand
    <2> QED
      BY <2>2, <2>3 DEF InRequest, FindCommand, At
  <1>3. CASE At(2, <<option>>) /\ m_teloptCommand = command
    <2>1. /\ \/ InvalidCommand \/ ReceiveDont \/ ReceiveDo \/ ReceiveWill
             \/ ReceiveWont \/ ReceiveSubnegotiation
          /\ NextByte
      BY <1>3, StageActions DEF At
    <2>2. c = option /\ wire' = <<>> /\ UNCHANGED <<sent, asked>>
      BY <1>3, <2>1, Heads DEF NextByte, At, serverVars
    <2>3. ReceiveDont \/ ReceiveDo \/ ReceiveWill \/ ReceiveWont
      BY <1>3, <2>1
         DEF InvalidCommand, ReceiveSubnegotiation, FindOptionOf, TELCMD_OK,
             Commands, DO, DONT, WILL, WONT, SB
    <2>4. m_teloptStage' = 0 /\ output' = output
      BY <1>0, <2>2, <2>3
         DEF ReceiveDont, ReceiveDo, ReceiveWill, ReceiveWont, FindOptionOf, Stage
    <2> QED
      BY <2>2, <2>4 DEF InRequest, Idle
  <1> QED
    BY <1>1, <1>2, <1>3 DEF InRequest

LEMMA TypeRequestStep ==
    ASSUME InTypeRequest, telnetOptionParse
    PROVE  Idle' \/ InTypeRequest'
  <1>1. CASE At(0, <<IAC, SB, TELOPT_TTYPE, TELQUAL_SEND, IAC, SE>>)
    <2>1. FindIAC /\ NextByte
      BY <1>1, StageActions DEF At
    <2>2. /\ c = IAC /\ wire' = <<SB, TELOPT_TTYPE, TELQUAL_SEND, IAC, SE>>
          /\ padding' = 0 /\ UNCHANGED <<sent, asked>>
      BY <1>1, <2>1, Heads DEF NextByte, At, serverVars
    <2> QED
      BY <2>1, <2>2 DEF InTypeRequest, FindIAC, Stage, At
  <1>2. CASE At(1, <<SB, TELOPT_TTYPE, TELQUAL_SEND, IAC, SE>>)
    <2>1. /\ DoubleIAC \/ PassThroughCommand \/ FindCommand
          /\ NextByte
      BY <1>2, StageActions DEF At
    <2>2. /\ c = SB /\ wire' = <<TELOPT_TTYPE, TELQUAL_SEND, IAC, SE>>
          /\ padding' = 0 /\ UNCHANGED <<sent, asked>>
      BY <1>2, <2>1, Heads DEF NextByte, At, serverVars
    <2>3. FindCommand
      BY <2>1, <2>2 DEF DoubleIAC, PassThroughCommand, PassThrough, SB, IAC
    <2> QED
      BY <2>2, <2>3 DEF InTypeRequest, FindCommand, At
  <1>3. CASE At(2, <<TELOPT_TTYPE, TELQUAL_SEND, IAC, SE>>) /\ m_teloptCommand = SB
    <2>1. /\ \/ InvalidCommand \/ ReceiveDont \/ ReceiveDo \/ ReceiveWill
             \/ ReceiveWont \/ ReceiveSubnegotiation
          /\ NextByte
      BY <1>3, StageActions DEF At
    <2>2. /\ c = TELOPT_TTYPE /\ wire' = <<TELQUAL_SEND, IAC, SE>>
          /\ padding' = 0 /\ UNCHANGED <<sent, asked>>
      BY <1>3, <2>1, Heads DEF NextByte, At, serverVars
    <2>3. ReceiveSubnegotiation
      BY <1>3, <2>1
         DEF InvalidCommand, ReceiveDont, ReceiveDo, ReceiveWill, ReceiveWont,
             FindOptionOf, TELCMD_OK, DO, DONT, WILL, WONT, SB
    <2> QED
      BY <2>2, <2>3 DEF InTypeRequest, ReceiveSubnegotiation, FindOptionOf, At
  <1>4. CASE At(3, <<TELQUAL_SEND, IAC, SE>>)
    <2>1. FindQualifier /\ NextByte
      BY <1>4, StageActions DEF At
    <2>2. /\ c = TELQUAL_SEND /\ wire' = <<IAC, SE>>
          /\ padding' = 0 /\ UNCHANGED <<sent, asked>>
      BY <1>4, <2>1, Heads DEF NextByte, At, serverVars
    <2> QED
      BY <2>1, <2>2 DEF InTypeRequest, FindQualifier, Stage, At
  <1>5. CASE At(4, <<IAC, SE>>)
    <2>1. FindEnd /\ NextByte
      BY <1>5, StageActions DEF At
    <2>2. /\ c = IAC /\ wire' = <<SE>>
          /\ padding' = 0 /\ UNCHANGED <<sent, asked>>
      BY <1>5, <2>1, Heads DEF NextByte, At, serverVars
    <2> QED
      BY <2>1, <2>2 DEF InTypeRequest, FindEnd, Stage, At, IAC, SE
  <1>6. CASE At(4, <<SE>>)
    <2>1. FindEnd /\ NextByte
      BY <1>6, StageActions DEF At
    <2>2. c = SE /\ wire' = <<>> /\ UNCHANGED <<sent, asked>>
      BY <1>6, <2>1, Heads DEF NextByte, At, serverVars
    <2> QED
      BY <2>1, <2>2 DEF InTypeRequest, Idle, FindEnd, Stage
  <1> QED
    BY <1>1, <1>2, <1>3, <1>4, <1>5, <1>6 DEF InTypeRequest

LEMMA SyncParse ==
    ASSUME InSync, telnetOptionParse
    PROVE  InSync'
  <1>1. CASE Idle
    BY <1>1, IdleStep DEF InSync
  <1>2. CASE InText
    BY <1>2, TextStep DEF InSync
  <1>3. CASE InEscape
    BY <1>3, EscapeStep DEF InSync
  <1>4. CASE InNop
    BY <1>4, NopStep DEF InSync
  <1>5. CASE \E command \in Commands, option \in Options :
                 InRequest(command, option)
    <2>1. PICK command \in Commands, option \in Options : InRequest(command, option)
      BY <1>5
    <2>2. Idle' \/ InRequest(command, option)'
      BY <2>1, RequestStep
    <2> QED
      BY <2>2 DEF InSync
  <1>6. CASE InTypeRequest
    BY <1>6, TypeRequestStep DEF InSync
  <1> QED
    BY <1>1, <1>2, <1>3, <1>4, <1>5, <1>6 DEF InSync

\* The server starts a message when the parser is idle.
LEMMA SyncServer ==
    ASSUME InSync, ServerEscape => TELOPT_BINARY \in is_active, Server
    PROVE  InSync'
  <1>1. CASE ServerText
    <2>1. PICK t \in Text : Sends(<<t>>) /\ sent' = Append(sent, t)
      BY <1>1 DEF ServerText
    <2>2. Idle
      BY <2>1, NotEmpty DEF Sends
    <2> QED
      BY <2>1, <2>2 DEF Sends, Idle, InSync, InText, At, parserVars
  <1>2. CASE ServerEscape
    <2>1. Idle
      BY <1>2, NotEmpty DEF ServerEscape, Sends
    <2> QED
      BY <1>2, <2>1
         DEF ServerEscape, Sends, Idle, InSync, InEscape, At, parserVars, optionVars
  <1>3. CASE ServerNop
    <2>1. Idle
      BY <1>3, NotEmpty DEF ServerNop, Sends
    <2> QED
      BY <1>3, <2>1 DEF ServerNop, Sends, Idle, InSync, InNop, At, parserVars
  <1>4. CASE ServerAsks
    <2>1. PICK command \in Commands, option \in Options :
              /\ Sends(<<IAC, command, option>>)
              /\ asked' = asked \union {<<command, option>>}
              /\ UNCHANGED sent
      BY <1>4 DEF ServerAsks, Commands
    <2>2. Idle
      BY <2>1, NotEmpty DEF Sends
    <2>3. InRequest(command, option)'
      BY <2>1, <2>2 DEF Sends, Idle, InRequest, At, parserVars
    <2> QED
      BY <2>3 DEF InSync
  <1>5. CASE ServerAsksType
    <2>1. Idle
      BY <1>5, NotEmpty DEF ServerAsksType, Sends
    <2> QED
      BY <1>5, <2>1
         DEF ServerAsksType, Sends, Idle, InSync, InTypeRequest, At, parserVars
  <1>6. CASE ConnectionCloses
    BY <1>6
       DEF ConnectionCloses, InSync, Idle, InText, InEscape, InNop, InRequest,
           InTypeRequest, At, parserVars, optionVars
  <1> QED
    BY <1>1, <1>2, <1>3, <1>4, <1>5, <1>6 DEF Server

\* What the history variable remembers is not forgotten, and a step that leaves
\* it true has kept its message whole.
LEMMA WholeStep ==
    ASSUME [Next]_vars, whole'
    PROVE  /\ whole
           /\ ServerEscape => TELOPT_BINARY \in is_active
           /\ EndOfBuffer => wire = <<>>
  <1>1. ServerEscape => whole /\ TELOPT_BINARY \in is_active
    BY Zenon DEF ServerEscape
  <1>2. EndOfBuffer => whole /\ wire = <<>>
    BY Zenon DEF EndOfBuffer
  <1>3. CASE \/ ServerText \/ ServerNop \/ ServerAsks \/ ServerAsksType
             \/ ConnectionCloses
    <2>1. UNCHANGED whole
      BY <1>3
         DEF ServerText, ServerNop, ServerAsks, ServerAsksType, ConnectionCloses
    <2> QED
      BY <1>1, <1>2, <2>1
  <1>4. CASE telnetOptionParse
    <2>1. \E stage \in 0..4 : Reads(stage)
      BY <1>4
         DEF telnetOptionParse, FindIAC, DoubleIAC, PassThroughCommand,
             FindCommand, InvalidCommand, ReceiveDont, ReceiveDo, ReceiveWill,
             ReceiveWont, ReceiveSubnegotiation, FindQualifier, FindEnd,
             FindOptionOf
    <2>2. UNCHANGED whole
      BY <2>1 DEF Reads
    <2> QED
      BY <1>1, <1>2, <2>2
  <1>5. CASE UNCHANGED vars
    BY <1>1, <1>2, <1>5 DEF vars
  <1> QED
    BY <1>1, <1>2, <1>3, <1>4, <1>5 DEF Next, Server

LEMMA NextInSync == InSync /\ [Next]_vars /\ whole' => InSync'
  <1> SUFFICES ASSUME InSync, [Next]_vars, whole' PROVE InSync'
    OBVIOUS
  <1>1. CASE Server
    BY <1>1, WholeStep, SyncServer
  <1>2. CASE telnetOptionParse
    BY <1>2, SyncParse
  <1>3. CASE EndOfBuffer
    <2>1. Idle
      BY <1>3, WholeStep, NotEmpty
    <2> QED
      BY <1>3, <2>1 DEF EndOfBuffer, InSync, Idle, parserVars, serverVars
  <1>4. CASE UNCHANGED vars
    BY <1>4
       DEF vars, InSync, Idle, InText, InEscape, InNop, InRequest,
           InTypeRequest, At, parserVars, optionVars, serverVars
  <1> QED
    BY <1>1, <1>2, <1>3, <1>4 DEF Next

\* As long as every read has ended with a message of the server, and IAC was
\* doubled in binary mode only, the text comes through unchanged, whatever is
\* negotiated in between.
THEOREM TextUnchanged == Spec => []TextComesThrough
  <1> DEFINE Inv == whole => InSync
  <1>1. Init => Inv
    BY SyncInit
  <1>2. Inv /\ [Next]_vars => Inv'
    BY WholeStep, NextInSync
  <1>3. Inv => TextComesThrough
    BY NotEmpty DEF TextComesThrough, Idle
  <1> HIDE DEF Inv
  <1> QED
    BY <1>1, <1>2, <1>3, PTL DEF Spec

(***************************************************************************)
(* Each reply answers a request.                                           *)
(***************************************************************************)

\* The request the parser has just read the option of.
LEMMA RequestRead ==
    ASSUME InSync, NEW command \in {DO, DONT, WILL}, FindOptionOf(command)
    PROVE  c \in Options /\ <<command, c>> \in asked
  <1>1. m_teloptStage = 2 /\ m_teloptCommand = command
    BY DEF FindOptionOf, Reads
  <1>2. PICK other \in Commands, option \in Options : InRequest(other, option)
    BY <1>1
       DEF InSync, Idle, InText, InEscape, InNop, InTypeRequest, At, SB, DO,
           DONT, WILL
  <1>3. At(2, <<option>>) /\ other = command /\ <<other, option>> \in asked
    BY <1>1, <1>2 DEF InRequest, At
  <1>4. c = option
    BY <1>3, Heads DEF At, c
  <1> QED
    BY <1>3, <1>4

LEMMA MoreAnswers ==
    ASSUME TypeOK, RepliesAreAnswersAlways, asked \subseteq asked',
           NEW request \in asked, NEW r \in AnswersTo(request),
           \/ UNCHANGED replies
           \/ r \in Reply /\ replies' = Append(replies, r)
    PROVE  RepliesAreAnswersAlways'
  <1>1. replies \in Seq(Reply)
    BY DEF TypeOK
  <1>2. ToSet(replies') \subseteq ToSet(replies) \union {r}
    <2>1. CASE UNCHANGED replies
      BY <2>1
    <2>2. CASE r \in Reply /\ replies' = Append(replies, r)
      BY <1>1, <2>2, AppendedReply DEF ToSet
    <2> QED
      BY <2>1, <2>2
  <1> QED
    BY <1>2 DEF RepliesAreAnswersAlways, IsAnswer

LEMMA SameAnswers ==
    ASSUME RepliesAreAnswersAlways, asked \subseteq asked', UNCHANGED replies
    PROVE  RepliesAreAnswersAlways'
  BY DEF RepliesAreAnswersAlways, IsAnswer

LEMMA Answers ==
    ASSUME NEW option
    PROVE  /\ <<telnetOptionAcknowledge(DO), option>> \in AnswersTo(<<DO, option>>)
           /\ <<telnetOptionDeny(DO), option>> \in AnswersTo(<<DO, option>>)
           /\ <<telnetOptionAcknowledge(DONT), option>> \in AnswersTo(<<DONT, option>>)
           /\ <<telnetOptionAcknowledge(WILL), option>> \in AnswersTo(<<WILL, option>>)
           /\ <<telnetOptionDeny(WILL), option>> \in AnswersTo(<<WILL, option>>)
           /\ option = TELOPT_NAWS => NawsReply \in AnswersTo(<<DO, option>>)
           /\ TerminalTypeReply \in AnswersTo(<<SB, TELOPT_TTYPE>>)
  <1>1. /\ telnetOptionAcknowledge(DO) = WILL
        /\ telnetOptionAcknowledge(DONT) = WONT
        /\ telnetOptionAcknowledge(WILL) = DO
        /\ telnetOptionDeny(DO) = WONT
        /\ telnetOptionDeny(WILL) = DONT
    BY DEF telnetOptionAcknowledge, telnetOptionDeny, DO, DONT, WILL, WONT
  <1>2. AnswersTo(<<DO, option>>) =
            {<<WILL, option>>, <<WONT, option>>} \union
                {r \in {NawsReply} : option = TELOPT_NAWS}
    BY DEF AnswersTo, DO, DONT, WILL, WONT, SB
  <1>3. AnswersTo(<<DONT, option>>) = {<<WONT, option>>}
    BY DEF AnswersTo, DO, DONT, WILL, WONT, SB
  <1>4. AnswersTo(<<WILL, option>>) = {<<DO, option>>, <<DONT, option>>}
    BY DEF AnswersTo, DO, DONT, WILL, WONT, SB
  <1>5. AnswersTo(<<SB, TELOPT_TTYPE>>) = {TerminalTypeReply}
    BY DEF AnswersTo, DO, DONT, WILL, WONT, SB
  <1> QED
    BY <1>1, <1>2, <1>3, <1>4, <1>5

LEMMA RefuseOnceAnswers ==
    ASSUME TypeOK, RepliesAreAnswersAlways, UNCHANGED asked,
           NEW request \in asked, NEW r \in AnswersTo(request), r \in Reply,
           RefuseOnce(r)
    PROVE  RepliesAreAnswersAlways'
  BY MoreAnswers DEF RefuseOnce, Deliver, DeliverAll, Delivered, replyVars

LEMMA AcceptOnceAnswers ==
    ASSUME TypeOK, RepliesAreAnswersAlways, UNCHANGED asked,
           NEW option \in Bytes, m_teloptCommand \in {DO, WILL},
           <<m_teloptCommand, option>> \in asked, AcceptOnce(option)
    PROVE  RepliesAreAnswersAlways'
  <1> DEFINE r == <<telnetOptionAcknowledge(m_teloptCommand), option>>
  <1>1. r \in AnswersTo(<<m_teloptCommand, option>>)
    BY Answers
  <1>2. r \in Reply
    <2>1. m_teloptCommand \in {DO, DONT, WILL}
      OBVIOUS
    <2> QED
      BY <2>1, ReplyTypes
  <1>3. replies' \in {replies, Append(replies, r)}
    BY DEF AcceptOnce, Deliver, DeliverAll, Delivered, replyVars
  <1> HIDE DEF r
  <1> QED
    BY <1>1, <1>2, <1>3, MoreAnswers

LEMMA AcceptAnswers ==
    ASSUME TypeOK, RepliesAreAnswersAlways, UNCHANGED asked, m_teloptCommand = DO,
           NEW option \in {TELOPT_TTYPE, TELOPT_NAWS},
           <<DO, option>> \in asked, Accept(option)
    PROVE  RepliesAreAnswersAlways'
  <1> DEFINE r == <<telnetOptionAcknowledge(m_teloptCommand), option>>
  <1>1. r \in AnswersTo(<<DO, option>>)
    BY Answers
  <1>2. r \in Reply /\ NawsReply \in Reply
    <2>1. option \in Bytes
      BY DEF Bytes, TELOPT_TTYPE, TELOPT_NAWS
    <2>2. m_teloptCommand \in {DO, DONT, WILL}
      OBVIOUS
    <2> QED
      BY <2>1, <2>2, ReplyTypes
  <1>3. option = TELOPT_NAWS => NawsReply \in AnswersTo(<<DO, option>>)
    BY Answers
  <1>4. \/ replies' \in {replies, Append(replies, r)}
        \/ option = TELOPT_NAWS /\ replies' = Append(Append(replies, r), NawsReply)
    BY DEF Accept, DeliverAll, Delivered
  <1> HIDE DEF r
  <1>5. CASE replies' \in {replies, Append(replies, r)}
    BY <1>1, <1>2, <1>5, MoreAnswers
  <1>6. CASE option = TELOPT_NAWS /\ replies' = Append(Append(replies, r), NawsReply)
    <2>1. replies \in Seq(Reply)
      BY DEF TypeOK
    <2>2. ToSet(Append(replies, r)) \subseteq ToSet(replies) \union {r}
      BY <1>2, <2>1, AppendedReply DEF ToSet
    <2>3. Append(replies, r) \in Seq(Reply)
      BY <1>2, <2>1
    <2>4. ToSet(replies') \subseteq ToSet(Append(replies, r)) \union {NawsReply}
      BY <1>2, <1>6, <2>3, AppendedReply DEF ToSet
    <2> QED
      BY <1>1, <1>3, <1>6, <2>2, <2>4 DEF RepliesAreAnswersAlways, IsAnswer
  <1> QED
    BY <1>4, <1>5, <1>6

LEMMA NextAnswers ==
    TypeOK /\ InSync /\ RepliesAreAnswersAlways /\ [Next]_vars => RepliesAreAnswersAlways'
  <1> SUFFICES ASSUME TypeOK, InSync, RepliesAreAnswersAlways, [Next]_vars
               PROVE  RepliesAreAnswersAlways'
    OBVIOUS
  <1>1. CASE Server \/ EndOfBuffer \/ UNCHANGED vars
    BY <1>1, SameAnswers
       DEF Server, ServerText, ServerEscape, ServerNop, ServerAsks,
           ServerAsksType, ConnectionCloses, Sends, EndOfBuffer, vars,
           replyVars, serverVars
  <1>2. CASE FindIAC \/ DoubleIAC \/ PassThroughCommand \/ FindCommand
             \/ InvalidCommand \/ ReceiveWont \/ ReceiveSubnegotiation
             \/ FindQualifier
    BY <1>2, SameAnswers
       DEF FindIAC, DoubleIAC, PassThroughCommand, FindCommand, InvalidCommand,
           ReceiveWont, ReceiveSubnegotiation, FindQualifier, FindOptionOf,
           Reads, replyVars, serverVars
  <1>3. CASE ReceiveDont
    <2>0. FindOptionOf(DONT) /\ UNCHANGED asked /\ c \in Bytes
      BY <1>3, ReadsType DEF ReceiveDont, FindOptionOf, Reads, serverVars
    <2>1. c \in Options /\ <<DONT, c>> \in asked
      BY <2>0, RequestRead
    <2>2. RefuseOnce(<<telnetOptionAcknowledge(DONT), c>>)
      BY <1>3, <2>1, TelnetAssumption DEF ReceiveDont, TelnetAssumption, IAC
    <2>3. /\ <<telnetOptionAcknowledge(DONT), c>> \in Reply
          /\ <<telnetOptionAcknowledge(DONT), c>> \in AnswersTo(<<DONT, c>>)
      BY <2>0, ReplyTypes, Answers
    <2> QED
      BY <2>0, <2>1, <2>2, <2>3, RefuseOnceAnswers
  <1>4. CASE ReceiveDo
    <2>0. /\ FindOptionOf(DO) /\ UNCHANGED asked /\ c \in Bytes
          /\ m_teloptCommand = DO
      BY <1>4, ReadsType DEF ReceiveDo, FindOptionOf, Reads, serverVars
    <2>1. <<DO, c>> \in asked
      BY <2>0, RequestRead
    <2>2. CASE IgnoreEcho
      BY <2>0, <2>2, SameAnswers DEF IgnoreEcho, replyVars
    <2>3. CASE AcceptOnce(c)
      BY <2>0, <2>1, <2>3, AcceptOnceAnswers
    <2>4. CASE c \in {TELOPT_TTYPE, TELOPT_NAWS} /\ Accept(c)
      BY <2>0, <2>1, <2>4, AcceptAnswers
    <2>5. CASE RefuseOnce(<<telnetOptionDeny(DO), c>>)
      <3>1. /\ <<telnetOptionDeny(DO), c>> \in Reply
            /\ <<telnetOptionDeny(DO), c>> \in AnswersTo(<<DO, c>>)
        BY <2>0, ReplyTypes, Answers
      <3> QED
        BY <2>0, <2>1, <2>5, <3>1, RefuseOnceAnswers
    <2> QED
      BY <1>4, <2>2, <2>3, <2>4, <2>5 DEF ReceiveDo
  <1>5. CASE ReceiveWill
    <2>0. /\ FindOptionOf(WILL) /\ UNCHANGED asked /\ c \in Bytes
          /\ m_teloptCommand = WILL
      BY <1>5, ReadsType DEF ReceiveWill, FindOptionOf, Reads, serverVars
    <2>1. <<WILL, c>> \in asked
      BY <2>0, RequestRead
    <2>2. CASE IgnoreEcho
      BY <2>0, <2>2, SameAnswers DEF IgnoreEcho, replyVars
    <2>3. CASE AcceptOnce(c)
      BY <2>0, <2>1, <2>3, AcceptOnceAnswers
    <2>4. CASE RefuseOnce(<<telnetOptionDeny(WILL), c>>)
      <3>1. /\ <<telnetOptionDeny(WILL), c>> \in Reply
            /\ <<telnetOptionDeny(WILL), c>> \in AnswersTo(<<WILL, c>>)
        BY <2>0, ReplyTypes, Answers
      <3> QED
        BY <2>0, <2>1, <2>4, <3>1, RefuseOnceAnswers
    <2> QED
      BY <1>5, <2>2, <2>3, <2>4 DEF ReceiveWill
  <1>6. CASE FindEnd
    <2>0. UNCHANGED asked /\ m_teloptStage = 4
      BY <1>6 DEF FindEnd, Reads, serverVars
    <2>1. <<SB, TELOPT_TTYPE>> \in asked
      BY <2>0
         DEF InSync, Idle, InText, InEscape, InNop, InRequest, InTypeRequest, At
    <2>2. /\ TerminalTypeReply \in AnswersTo(<<SB, TELOPT_TTYPE>>)
          /\ TerminalTypeReply \in Reply
      <3>1. TerminalTypeReply \in Reply
        BY DEF TerminalTypeReply, Reply, SB, TELOPT_TTYPE
      <3> QED
        BY <3>1, Answers
    <2>3. replies' \in {replies, Append(replies, TerminalTypeReply)}
      BY <1>6 DEF FindEnd, Deliver, DeliverAll, Delivered, replyVars
    <2> QED
      BY <2>0, <2>1, <2>2, <2>3, MoreAnswers
  <1> QED
    BY <1>1, <1>2, <1>3, <1>4, <1>5, <1>6 DEF Next, Server, telnetOptionParse

\* As long as every read has ended with a message of the server, the client has
\* never agreed to, refused or described anything it was not asked about.
THEOREM OnlyAnswers == Spec => []RepliesAreAnswers
  <1> DEFINE Inv == whole => InSync /\ RepliesAreAnswersAlways
  <1>1. Init => Inv
    BY SyncInit
  <1>2. TypeOK /\ Inv /\ [Next]_vars => Inv'
    BY WholeStep, NextInSync, NextAnswers
  <1>3. Inv => RepliesAreAnswers
    BY DEF RepliesAreAnswers, RepliesAreAnswersAlways
  <1> HIDE DEF Inv
  <1> QED
    BY <1>1, <1>2, <1>3, InitTypeOK, NextTypeOK, PTL DEF Spec

(***************************************************************************)
(* What the replies are, whatever the reads cut: Growth says how one step  *)
(* may change them.  Nothing delivered is taken back, a connection that    *)
(* has closed stays closed, and BINARY becomes active only with an answer  *)
(* to the request, or on a connection found closed when it was due.        *)
(***************************************************************************)
Answer == ({DO, DONT, WILL, WONT} \X Bytes) \union {NawsReply, TerminalTypeReply}

BinaryAnswer == {<<WILL, TELOPT_BINARY>>, <<DO, TELOPT_BINARY>>}

Growth ==
    /\ ToSet(replies) \subseteq ToSet(replies')
    /\ ToSet(replies') \subseteq ToSet(replies) \union Answer
    /\ m_isShutdown => m_isShutdown'
    /\ ~is_open => ~is_open'
    /\ TELOPT_BINARY \in is_active' =>
          \/ TELOPT_BINARY \in is_active
          \/ BinaryAnswer \intersect ToSet(replies') # {}
          \/ m_isShutdown' /\ ~is_open'

LEMMA NoReply ==
    ASSUME UNCHANGED <<replies, m_isShutdown, is_active>>, ~is_open => ~is_open'
    PROVE  Growth
  BY DEF Growth

LEMMA AppendedSet ==
    ASSUME NEW rs \in Seq(Reply), NEW r \in Reply
    PROVE  ToSet(Append(rs, r)) = ToSet(rs) \union {r}
  BY AppendedReply DEF ToSet

LEMMA DeliveredSet ==
    ASSUME NEW rs \in Seq(Reply), NEW r \in Reply
    PROVE  /\ Delivered(rs, r) \in Seq(Reply)
           /\ ToSet(Delivered(rs, r)) = IF is_open THEN ToSet(rs) \union {r} ELSE ToSet(rs)
  BY AppendedSet, DeliveredType DEF Delivered

\* One reply that switches nothing on but what it says.
LEMMA OneReply ==
    ASSUME TypeOK, NEW r \in Reply, r \in Answer, Deliver(r), UNCHANGED is_open,
           TELOPT_BINARY \in is_active' =>
               TELOPT_BINARY \in is_active \/ r \in BinaryAnswer
    PROVE  Growth
  <1>1. ToSet(replies') = IF is_open THEN ToSet(replies) \union {r} ELSE ToSet(replies)
    BY DeliveredSet DEF TypeOK, Deliver, DeliverAll
  <1>2. m_isShutdown' = (m_isShutdown \/ ~is_open)
    BY DEF Deliver, DeliverAll
  <1>3. {m_isShutdown, is_open} \subseteq BOOLEAN
    BY DEF TypeOK
  <1>4. CASE is_open
    BY <1>1, <1>2, <1>3, <1>4 DEF Growth
  <1>5. CASE ~is_open
    BY <1>1, <1>2, <1>3, <1>5 DEF Growth
  <1> QED
    BY <1>4, <1>5

LEMMA RefuseOnceGrowth ==
    ASSUME TypeOK, NEW r \in Reply, r \in Answer, RefuseOnce(r), UNCHANGED is_open
    PROVE  Growth
  <1>1. CASE m_teloptCommand \in active_sequence
    BY <1>1, NoReply DEF RefuseOnce, replyVars
  <1>2. CASE m_teloptCommand \notin active_sequence
    BY <1>2, OneReply DEF RefuseOnce
  <1> QED
    BY <1>1, <1>2

LEMMA AcknowledgeIsAnswer ==
    ASSUME NEW command \in {DO, DONT, WILL}, NEW option \in Bytes
    PROVE  /\ <<telnetOptionAcknowledge(command), option>> \in Answer
           /\ <<telnetOptionDeny(command), option>> \in Answer
  BY DEF Answer, telnetOptionAcknowledge, telnetOptionDeny, DO, DONT, WILL, WONT

LEMMA AcceptOnceGrowth ==
    ASSUME TypeOK, m_teloptCommand \in {DO, WILL}, NEW option \in Once,
           AcceptOnce(option), UNCHANGED is_open
    PROVE  Growth
  <1> DEFINE r == <<telnetOptionAcknowledge(m_teloptCommand), option>>
  <1>1. CASE option \in completed
    BY <1>1, NoReply DEF AcceptOnce, replyVars
  <1>2. CASE option \notin completed
    <2>1. option \in Bytes /\ m_teloptCommand \in {DO, DONT, WILL}
      BY DEF Once, Bytes, TELOPT_BINARY, TELOPT_SGA
    <2>2. r \in Reply /\ r \in Answer
      BY <2>1, ReplyTypes, AcknowledgeIsAnswer
    <2>3. option = TELOPT_BINARY => r \in BinaryAnswer
      BY DEF BinaryAnswer, telnetOptionAcknowledge, DO, DONT, WILL, WONT
    <2>4. Deliver(r) /\ is_active' = is_active \union {option}
      BY <1>2 DEF AcceptOnce
    <2> HIDE DEF r
    <2> QED
      BY <2>2, <2>3, <2>4, OneReply
  <1> QED
    BY <1>1, <1>2

LEMMA AcceptGrowth ==
    ASSUME TypeOK, m_teloptCommand = DO, NEW option \in {TELOPT_TTYPE, TELOPT_NAWS},
           Accept(option), UNCHANGED is_open
    PROVE  Growth
  <1> DEFINE r == <<telnetOptionAcknowledge(m_teloptCommand), option>>
             rs == Delivered(replies, r)
  <1>1. option \in Bytes /\ m_teloptCommand \in {DO, DONT, WILL}
    BY DEF Bytes, TELOPT_TTYPE, TELOPT_NAWS
  <1>2. r \in Reply /\ r \in Answer /\ NawsReply \in Reply /\ NawsReply \in Answer
    BY <1>1, ReplyTypes, AcknowledgeIsAnswer DEF Answer
  <1>3. TELOPT_BINARY \in is_active' => TELOPT_BINARY \in is_active
    BY DEF Accept, TELOPT_BINARY, TELOPT_TTYPE, TELOPT_NAWS
  <1>4. /\ replies' \in {rs, Delivered(rs, NawsReply)}
        /\ m_isShutdown' = (m_isShutdown \/ ~is_open)
    BY DEF Accept, DeliverAll
  <1> HIDE DEF r
  <1>5. /\ rs \in Seq(Reply)
        /\ ToSet(replies) \subseteq ToSet(rs)
        /\ ToSet(rs) \subseteq ToSet(replies) \union Answer
    <2>1. replies \in Seq(Reply)
      BY DEF TypeOK
    <2>2. /\ rs \in Seq(Reply)
          /\ ToSet(rs) = IF is_open THEN ToSet(replies) \union {r} ELSE ToSet(replies)
      BY <1>2, <2>1, DeliveredSet
    <2> QED
      BY ONLY <1>2, <2>2
  <1> HIDE DEF rs
  <1>6. /\ ToSet(rs) \subseteq ToSet(Delivered(rs, NawsReply))
        /\ ToSet(Delivered(rs, NawsReply)) \subseteq ToSet(rs) \union Answer
    <2>1. ToSet(Delivered(rs, NawsReply)) =
            IF is_open THEN ToSet(rs) \union {NawsReply} ELSE ToSet(rs)
      BY <1>2, <1>5, DeliveredSet
    <2> QED
      BY ONLY <1>2, <2>1
  <1> QED
    BY <1>3, <1>4, <1>5, <1>6 DEF Growth

LEMMA NextGrowth == TypeOK /\ [Next]_vars => Growth
  <1> SUFFICES ASSUME TypeOK, [Next]_vars PROVE Growth
    OBVIOUS
  <1>1. CASE Server \/ EndOfBuffer \/ UNCHANGED vars
    BY <1>1, NoReply
       DEF Server, ServerText, ServerEscape, ServerNop, ServerAsks,
           ServerAsksType, ConnectionCloses, Sends, EndOfBuffer, vars,
           optionVars, replyVars, serverVars
  <1>2. CASE FindIAC \/ DoubleIAC \/ PassThroughCommand \/ FindCommand
             \/ InvalidCommand \/ ReceiveWont \/ ReceiveSubnegotiation
             \/ FindQualifier
    BY <1>2, NoReply
       DEF FindIAC, DoubleIAC, PassThroughCommand, FindCommand, InvalidCommand,
           ReceiveWont, ReceiveSubnegotiation, FindQualifier, FindOptionOf,
           Reads, optionVars, replyVars, serverVars
  <1>3. CASE ReceiveDont
    <2>1. CASE c = IAC
      BY <1>3, <2>1, NoReply
         DEF ReceiveDont, FindOptionOf, Reads, optionVars, replyVars, serverVars
    <2>2. CASE c # IAC
      <3>1. c \in Bytes /\ UNCHANGED is_open
        BY <1>3, ReadsType DEF ReceiveDont, FindOptionOf, serverVars
      <3>2. RefuseOnce(<<telnetOptionAcknowledge(DONT), c>>)
        BY <1>3, <2>2 DEF ReceiveDont
      <3> QED
        BY <3>1, <3>2, ReplyTypes, AcknowledgeIsAnswer, RefuseOnceGrowth
    <2> QED
      BY <2>1, <2>2
  <1>4. CASE ReceiveDo
    <2>0. c \in Bytes /\ m_teloptCommand = DO /\ UNCHANGED is_open
      BY <1>4, ReadsType DEF ReceiveDo, FindOptionOf, serverVars
    <2>1. CASE IgnoreEcho
      BY <2>0, <2>1, NoReply DEF IgnoreEcho, optionVars, replyVars
    <2>2. CASE c \in {TELOPT_BINARY, TELOPT_SGA} /\ AcceptOnce(c)
      BY <2>0, <2>2, AcceptOnceGrowth DEF Once
    <2>3. CASE c \in {TELOPT_TTYPE, TELOPT_NAWS} /\ Accept(c)
      BY <2>0, <2>3, AcceptGrowth
    <2>4. CASE RefuseOnce(<<telnetOptionDeny(DO), c>>)
      BY <2>0, <2>4, ReplyTypes, AcknowledgeIsAnswer, RefuseOnceGrowth
    <2> QED
      BY <1>4, <2>1, <2>2, <2>3, <2>4 DEF ReceiveDo
  <1>5. CASE ReceiveWill
    <2>0. c \in Bytes /\ m_teloptCommand = WILL /\ UNCHANGED is_open
      BY <1>5, ReadsType DEF ReceiveWill, FindOptionOf, serverVars
    <2>1. CASE IgnoreEcho
      BY <2>0, <2>1, NoReply DEF IgnoreEcho, optionVars, replyVars
    <2>2. CASE c \in {TELOPT_BINARY, TELOPT_SGA} /\ AcceptOnce(c)
      BY <2>0, <2>2, AcceptOnceGrowth DEF Once
    <2>3. CASE RefuseOnce(<<telnetOptionDeny(WILL), c>>)
      BY <2>0, <2>3, ReplyTypes, AcknowledgeIsAnswer, RefuseOnceGrowth
    <2> QED
      BY <1>5, <2>1, <2>2, <2>3 DEF ReceiveWill
  <1>6. CASE FindEnd
    <2>0. UNCHANGED is_open /\ UNCHANGED is_active
      BY <1>6 DEF FindEnd, Reads, serverVars, optionVars
    <2>1. CASE c = SE
      <3>1. TerminalTypeReply \in Reply /\ TerminalTypeReply \in Answer
        BY DEF TerminalTypeReply, Reply, Answer, SB, TELOPT_TTYPE
      <3> QED
        BY <1>6, <2>0, <2>1, <3>1, OneReply DEF FindEnd
    <2>2. CASE c # SE
      BY <1>6, <2>0, <2>2, NoReply DEF FindEnd, replyVars
    <2> QED
      BY <2>1, <2>2
  <1> QED
    BY <1>1, <1>2, <1>3, <1>4, <1>5, <1>6 DEF Next, Server, telnetOptionParse

\* The parser never reads IAC IAC as a data byte unless the server was told,
\* in a WILL or a DO, that binary mode is on: whatever the server repeats or
\* withdraws, and wherever the reads cut it.
THEOREM BinaryToldFirst == Spec => []BinaryIsAgreed
  <1>1. Init => BinaryIsAgreed
    BY DEF Init, BinaryIsAgreed
  <1>2. BinaryIsAgreed /\ Growth => BinaryIsAgreed'
    BY DEF BinaryIsAgreed, Growth, BinaryAnswer
  <1> QED
    BY <1>1, <1>2, InitTypeOK, NextTypeOK, NextGrowth, PTL DEF Spec

\* No size but that of the terminal is ever sent: with fewer than 256 columns
\* and rows the two bytes of telnetOptionNawsReply() are a number of base 256.
THEOREM SizeIsTold == Spec => []NawsTellsSize
  <1> DEFINE OnlyAnswer == ToSet(replies) \subseteq Answer
  <1>1. Init => OnlyAnswer
    BY DEF Init, ToSet
  <1>2. OnlyAnswer /\ Growth => OnlyAnswer'
    BY DEF Growth
  <1>3. OnlyAnswer => NawsTellsSize
    <2> SUFFICES ASSUME OnlyAnswer, NEW r \in ToSet(replies),
                        r[1] = SB, r[2] = TELOPT_NAWS
                 PROVE  256 * r[3] + r[4] = TermWidth /\ 256 * r[5] + r[6] = TermHeight
      BY DEF NawsTellsSize
    <2>1. r = NawsReply
      BY DEF Answer, TerminalTypeReply, SB, DO, DONT, WILL, WONT, TELOPT_NAWS,
             TELOPT_TTYPE
    <2> QED
      BY <2>1, TelnetAssumption DEF NawsReply, TelnetAssumption
  <1> HIDE DEF OnlyAnswer
  <1> QED
    BY <1>1, <1>2, <1>3, InitTypeOK, NextTypeOK, NextGrowth, PTL DEF Spec
=============================================================================
