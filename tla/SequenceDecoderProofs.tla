------------------------ MODULE SequenceDecoderProofs ------------------------
(* Proofs about the state SequenceDecoder keeps between two characters, and  *)
(* about what has reached the session of the stream.                         *)
EXTENDS SequenceDecoder, DataInduction, TLAPS

LEMMA TypeInductive ==
    /\ Init => TypeOK
    /\ TypeOK /\ [Next]_vars => TypeOK'
<1>1. Init => TypeOK
  <2>1. <<>> \in Seq(Characters)
    OBVIOUS
  <2> SUFFICES ASSUME Init
               PROVE  TypeOK
    OBVIOUS
  <2>2. /\ m_sequence_builder \in Seq(Characters)
        /\ m_valid_output_data \in Seq(Characters)
    BY <2>1 DEF Init
  <2>3. m_sequence_level \in 0..2
    <3>1. m_sequence_level = 0
      BY DEF Init
    <3>2. QED
      BY ONLY <3>1
  <2>4. decoding \in BOOLEAN
    BY DEF Init
  <2>5. QED
    BY <2>2, <2>3, <2>4 DEF Init, TypeOK
<1>2. TypeOK /\ [Next]_vars => TypeOK'
  <2> SUFFICES ASSUME TypeOK, [Next]_vars
               PROVE  TypeOK'
    OBVIOUS
  <2>1. ASSUME NEW item \in Items, ServerSends(item)
        PROVE  TypeOK'
    BY <2>1 DEF TypeOK, ServerSends, decoder
  <2>2. CASE BeginDecode
    BY <2>2 DEF TypeOK, BeginDecode, decoder
  <2>3. ASSUME NEW c \in Characters, SkipBell(c)
        PROVE  TypeOK'
    BY <2>3 DEF TypeOK, SkipBell, NextCharacter, decoder
  <2>4. ASSUME NEW c \in Characters, NormalText(c)
        PROVE  TypeOK'
    BY <2>4 DEF TypeOK, NormalText, NextCharacter
  <2>5. ASSUME NEW c \in Characters, StartSequence(c)
        PROVE  TypeOK'
    <3>1. m_sequence_builder' = Append(m_sequence_builder, c) /\ c = ESC
      BY <2>5 DEF StartSequence
    <3>2. /\ m_sequence_builder' \in Seq(Characters)
          /\ m_sequence_builder' # <<>>
      BY <3>1 DEF TypeOK
    <3>3. Head(m_sequence_builder') = ESC
      <4>1. CASE m_sequence_builder = <<>>
        BY <3>1, <4>1
      <4>2. CASE m_sequence_builder # <<>>
        BY <3>1, <4>2 DEF TypeOK
      <4>3. QED
        BY <4>1, <4>2
    <3>4. <<>> \in Seq(Characters)
      OBVIOUS
    <3>5. QED
      BY <2>5, <3>2, <3>3, <3>4 DEF TypeOK, StartSequence, NextCharacter
  <2>6. ASSUME NEW c \in Characters, ContinueSequence(c)
        PROVE  TypeOK'
    <3>1. m_sequence_builder' = Append(m_sequence_builder, c)
      BY <2>6 DEF ContinueSequence
    <3>2. /\ m_sequence_builder' \in Seq(Characters)
          /\ m_sequence_builder' # <<>>
          /\ Head(m_sequence_builder') = ESC
      BY <2>6, <3>1 DEF TypeOK, ContinueSequence, InSequence
    <3>3. m_sequence_level' \in 0..2
      <4>1. CASE ToNextLevel(c)
        <5>1. m_sequence_level \in {0, 1}
          BY <4>1 DEF ToNextLevel
        <5>2. m_sequence_level' = m_sequence_level + 1
          BY <2>6, <4>1 DEF ContinueSequence
        <5>3. QED
          BY ONLY <5>1, <5>2
      <4>2. CASE ~ToNextLevel(c)
        BY <2>6, <4>2 DEF TypeOK, ContinueSequence
      <4>3. QED
        BY <4>1, <4>2
    <3>4. QED
      BY <2>6, <3>2, <3>3
      DEF TypeOK, ContinueSequence, InSequence, NextCharacter
  <2>7. ASSUME NEW c \in Characters, CompleteSequence(c)
        PROVE  TypeOK'
    BY <2>7 DEF TypeOK, CompleteSequence, InSequence, NextCharacter
  <2>8. ASSUME NEW c \in Characters, InvalidSequence(c)
        PROVE  TypeOK'
    <3> DEFINE b == Append(m_sequence_builder, c)
    <3>1. b \in Seq(Characters)
      BY DEF TypeOK
    <3>2. SubSeq(b, 4, Len(b)) \in Seq(Characters)
      BY <3>1
    <3>3. m_valid_output_data' = m_valid_output_data \o SubSeq(b, 4, Len(b))
      BY <2>8 DEF InvalidSequence
    <3>4. m_valid_output_data' \in Seq(Characters)
      BY <3>2, <3>3 DEF TypeOK
    <3>5. QED
      BY <2>8, <3>4 DEF TypeOK, InvalidSequence, InSequence, NextCharacter
  <2>9. CASE EndDecode
    <3>1. <<>> \in Seq(Characters)
      OBVIOUS
    <3>2. QED
      BY <2>9, <3>1 DEF TypeOK, EndDecode
  <2>10. CASE UNCHANGED vars
    BY <2>10 DEF TypeOK, vars, decoder
  <2>11. QED
    BY <2>1, <2>2, <2>3, <2>4, <2>5, <2>6, <2>7, <2>8, <2>9, <2>10
    DEF Next, Decode
<1>3. QED
  BY <1>1, <1>2

(***************************************************************************)
(* Between two characters the state, the level, the builder and the text   *)
(* agree, whatever the server sends and wherever the reads cut it: in      *)
(* SEQ_NORMAL nothing of a sequence is left over, and in SEQ_PROCESSING no *)
(* text waits behind it (decodeEscSequenceData).                           *)
(***************************************************************************)
THEOREM TypeCorrect == Spec => []TypeOK
BY TypeInductive, PTL DEF Spec

-----------------------------------------------------------------------------
(* What is shown.                                                          *)

\* What a terminal shows: a character or a command.
Unit == [char : Characters] \union {validateSequence(item.chars) : item \in Items}

(* A text is shown as one unit per character.                              *)
LEMMA GlyphsType ==
    ASSUME NEW s \in Seq(Characters)
    PROVE  Glyphs(s) \in Seq(Unit) /\ Len(Glyphs(s)) = Len(s)
<1>1. DOMAIN s = 1 .. Len(s) /\ Len(s) \in Nat
  OBVIOUS
<1>2. \A i \in 1 .. Len(s) : [char |-> s[i]] \in Unit
  BY DEF Unit
<1> QED
  BY <1>1, <1>2 DEF Glyphs

LEMMA GlyphsConcat ==
    ASSUME NEW a \in Seq(Characters), NEW b \in Seq(Characters)
    PROVE  Glyphs(a \o b) = Glyphs(a) \o Glyphs(b)
<1> DEFINE f == [c \in Characters |-> [char |-> c]]
<1>1. ASSUME NEW s \in Seq(Characters) PROVE Glyphs(s) = Image(f, s)
  <2>1. \A i \in DOMAIN s : f[s[i]] = [char |-> s[i]]
    OBVIOUS
  <2> QED
    BY <2>1 DEF Glyphs, Image
<1>2. Maps(f, Characters, Unit)
  BY DEF Maps, Unit
<1> HIDE DEF f
<1>3. Image(f, a \o b) = Image(f, a) \o Image(f, b)
  BY <1>2, ImageConcat
<1>4. a \o b \in Seq(Characters)
  OBVIOUS
<1>5. Glyphs(a) = Image(f, a) /\ Glyphs(b) = Image(f, b)
  BY <1>1
<1>6. Glyphs(a \o b) = Image(f, a \o b)
  BY <1>1, <1>4
<1> QED
  BY <1>3, <1>5, <1>6

(* What the grammar of an item says of its characters: an ESC is the first *)
(* and not the last.                                                       *)
NoDouble(s) == \A k \in 1 .. Len(s) : s[k] = ESC => k < Len(s) /\ s[k + 1] # ESC

LEMMA InsideOpens ==
    ASSUME NEW s \in Seq(Characters), Opens(s), NEW k \in 2 .. Len(s)
    PROVE  s[k] \notin {ESC, BEL}
<1>1. ESC \notin Parameter \union {"?", Space, "["} /\ BEL \notin Parameter \union {"?", Space, "["}
  BY DEF ESC, BEL, Space, Parameter, Digit
<1>2. CASE k = 2
  <2>1. Len(s) >= 2
    BY <1>2
  <2> QED
    BY <1>1, <1>2, <2>1 DEF Opens
<1>3. CASE k # 2
  <2>1. k \in 3 .. Len(s)
    BY <1>3
  <2>2. s[k] \in Parameter \union {"?", Space}
    <3>1. CASE \A j \in 3 .. Len(s) : s[j] \in Parameter
      BY <2>1, <3>1
    <3>2. CASE \E m \in 3 .. Len(s) :
                 /\ s[m] = "?" \/ (s[m] = Space /\ m = Len(s))
                 /\ \A j \in 3 .. Len(s) \ {m} : s[j] \in Parameter
      BY <2>1, <3>2
    <3> QED
      BY <3>1, <3>2 DEF Opens
  <2> QED
    BY <1>1, <2>2
<1> QED
  BY <1>2, <1>3

LEMMA SequenceChars ==
    ASSUME NEW item, SequenceItem(item), NEW s \in Seq(Characters), item.chars = s,
           NEW n, n = Len(s) - 1
    PROVE  /\ n \in Nat \ {0}
           /\ Front(s) \in Seq(Characters) /\ Len(Front(s)) = n /\ Opens(Front(s))
           /\ \A k \in 1 .. n : Front(s)[k] = s[k]
           /\ s[1] = ESC
           /\ s = Append(Front(s), s[n + 1]) /\ Last(s) = s[n + 1]
           /\ \A k \in 2 .. n + 1 : s[k] \notin {ESC, BEL}
<1> DEFINE f == Front(s)
<1>1. n \in Nat \ {0} /\ f = SubSeq(s, 1, n) /\ Last(s) = s[n + 1]
  <2>1. Len(s) \in Nat /\ Len(s) >= 2
    BY DEF SequenceItem
  <2>2. n \in Nat \ {0} /\ n + 1 = Len(s)
    BY <2>1
  <2> QED
    BY <2>2 DEF Front, Last
<1>2. f \in Seq(Characters) /\ Len(f) = n /\ \A k \in 1 .. n : f[k] = s[k]
  BY <1>1
<1>3. Opens(f) /\ Last(s) \notin {ESC, BEL}
  BY DEF SequenceItem
<1>4. s = Append(f, s[n + 1])
  BY <1>1
<1>5. s[1] = ESC
  <2> HIDE DEF f
  <2>1. f[1] = ESC
    BY <1>3 DEF Opens
  <2>2. 1 \in 1 .. n
    <3>1. n \in Nat /\ n # 0
      BY <1>1
    <3> QED
      BY ONLY <3>1
  <2> QED
    BY <1>2, <2>1, <2>2
<1> HIDE DEF f
<1>6. ASSUME NEW k \in 2 .. n + 1 PROVE s[k] \notin {ESC, BEL}
  <2>1. CASE k = n + 1
    BY <1>1, <1>3, <2>1
  <2>2. CASE k # n + 1
    <3>1. k \in 2 .. Len(f) /\ k \in 1 .. n
      BY <1>1, <1>2, <2>2
    <3>2. f[k] \notin {ESC, BEL}
      BY <1>2, <1>3, <3>1, InsideOpens
    <3> QED
      BY <1>2, <3>1, <3>2
  <2> QED
    BY <2>1, <2>2
<1> QED
  BY <1>1, <1>2, <1>3, <1>4, <1>5, <1>6 DEF f

LEMMA PlainTypes ==
    ASSUME ItemsArePlain, NEW item \in Items
    PROVE  /\ item.chars \in Seq(Characters) /\ item.chars # <<>>
           /\ item.shown \in Seq(Unit)
           /\ NoDouble(item.chars)
<1>1. item.chars \in Seq(Characters) /\ item.chars # <<>> /\ PlainItem(item)
  BY DecoderAssumption DEF ItemsArePlain, PlainItem
<1>2. CASE \E c \in Characters \ {ESC, BEL} : item.chars = <<c>> /\ item.shown = Glyphs(<<c>>)
  <2>1. PICK c \in Characters \ {ESC, BEL} : item.chars = <<c>> /\ item.shown = Glyphs(<<c>>)
    BY <1>2
  <2>2. Glyphs(<<c>>) \in Seq(Unit)
    <3>1. <<c>> \in Seq(Characters)
      OBVIOUS
    <3> QED
      BY <3>1, GlyphsType
  <2> QED
    BY <1>1, <2>1, <2>2 DEF NoDouble
<1>3. CASE item.chars = <<BEL>> /\ item.shown = <<>>
  BY <1>1, <1>3 DEF NoDouble, ESC, BEL
<1>4. CASE SequenceItem(item)
  <2> DEFINE s == item.chars
  <2>1. NoDouble(s)
    <3> DEFINE n == Len(s) - 1
    <3>1. n \in Nat \ {0} /\ \A k \in 2 .. n + 1 : s[k] \notin {ESC, BEL}
      BY <1>1, <1>4, SequenceChars
    <3>2. Len(s) = n + 1
      BY <1>1
    <3> HIDE DEF n, s
    <3>3. ASSUME NEW k \in 1 .. Len(s), s[k] = ESC PROVE k < Len(s) /\ s[k + 1] # ESC
      <4>1. k = 1
        BY <3>1, <3>2, <3>3
      <4>2. 2 \in 2 .. n + 1 /\ 1 < Len(s)
        BY <3>1, <3>2
      <4> QED
        BY <3>1, <4>1, <4>2
    <3> QED
      BY <3>3 DEF NoDouble
  <2>2. SubSeq(s, 4, Len(s)) \in Seq(Characters)
    BY <1>1
  <2>3. Glyphs(SubSeq(s, 4, Len(s))) \in Seq(Unit)
    BY <2>2, GlyphsType
  <2>4. <<validateSequence(s)>> \in Seq(Unit)
    <3>1. validateSequence(s) \in Unit
      BY DEF Unit
    <3> QED
      BY <3>1
  <2>5. \/ item.shown = <<validateSequence(s)>>
        \/ item.shown = Glyphs(SubSeq(s, 4, Len(s)))
    BY <1>4 DEF SequenceItem
  <2> QED
    BY <1>1, <2>1, <2>3, <2>4, <2>5
<1> QED
  BY <1>1, <1>2, <1>3, <1>4 DEF PlainItem

-----------------------------------------------------------------------------
(* A stream of items, and a queue of messages.                             *)

Message == {TextMessage(text) : text \in Seq(Characters)}
           \union {validateSequence(item.chars) : item \in Items}

charsOf == [item \in Items |-> item.chars]
shownOf == [item \in Items |-> item.shown]
unitsOf == [message \in Message |-> Units(message)]

\* The characters of a stream and what a terminal shows for it.
Chars(items) == FlatMap(charsOf, items)
Pictures(items) == FlatMap(shownOf, items)
Drawn(queue) == FlatMap(unitsOf, queue)

LEMMA TextUnits ==
    ASSUME NEW text \in Seq(Characters)
    PROVE  TextMessage(text) \in Message /\ Units(TextMessage(text)) = Glyphs(text)
BY DEF Message, TextMessage, Units, IsText

LEMMA CommandUnits ==
    ASSUME NEW s
    PROVE  Units(validateSequence(s)) = <<validateSequence(s)>>
<1>1. ~IsText(validateSequence(s))
  <2>1. ASSUME NEW x, NEW y, NEW z PROVE ~IsText(Command(x, y, z))
    BY DEF IsText, Command
  <2>2. \E x, y, z : validateSequence(s) = Command(x, y, z)
    BY DEF validateSequence
  <2> QED
    BY <2>1, <2>2
<1> QED
  BY <1>1 DEF Units

LEMMA ItemMaps ==
    ASSUME ItemsArePlain
    PROVE  /\ Maps(charsOf, Items, Seq(Characters))
           /\ Maps(shownOf, Items, Seq(Unit))
BY PlainTypes DEF Maps, charsOf, shownOf

LEMMA MessageMap == Maps(unitsOf, Message, Seq(Unit))
<1> SUFFICES ASSUME NEW message \in Message PROVE Units(message) \in Seq(Unit)
  BY DEF Maps, unitsOf
<1>1. CASE message \in {TextMessage(text) : text \in Seq(Characters)}
  BY <1>1, TextUnits, GlyphsType
<1>2. CASE message \in {validateSequence(item.chars) : item \in Items}
  <2>1. message \in Unit /\ Units(message) = <<message>>
    BY <1>2, CommandUnits DEF Unit
  <2> QED
    BY <2>1
<1> QED
  BY <1>1, <1>2 DEF Message

LEMMA ShownIsDrawn ==
    ASSUME m_data_queue \in Seq(Message)
    PROVE  Shown = Drawn(m_data_queue)
<1>1. [i \in DOMAIN m_data_queue |-> Units(m_data_queue[i])] = Image(unitsOf, m_data_queue)
  <2>1. \A i \in DOMAIN m_data_queue : unitsOf[m_data_queue[i]] = Units(m_data_queue[i])
    BY DEF unitsOf
  <2> QED
    BY <2>1 DEF Image
<1> QED
  BY <1>1 DEF Shown, Drawn, FlatMap

LEMMA ExpectedIsPicture ==
    ASSUME sent \in Seq(Items)
    PROVE  Expected = Pictures(sent)
<1>1. [i \in DOMAIN sent |-> sent[i].shown] = Image(shownOf, sent)
  <2>1. \A i \in DOMAIN sent : shownOf[sent[i]] = sent[i].shown
    BY DEF shownOf
  <2> QED
    BY <2>1 DEF Image
<1> QED
  BY <1>1 DEF Expected, Pictures, FlatMap

(* What is true of a stream, from its parts.                               *)
LEMMA StreamTypes ==
    ASSUME ItemsArePlain, NEW items \in Seq(Items)
    PROVE  Chars(items) \in Seq(Characters) /\ Pictures(items) \in Seq(Unit)
<1>1. Chars(items) \in Seq(Characters)
  BY ItemMaps, FlatMapType DEF Chars
<1>2. Pictures(items) \in Seq(Unit)
  BY ItemMaps, FlatMapType DEF Pictures
<1> QED
  BY <1>1, <1>2

LEMMA StreamEmpty ==
    ASSUME ItemsArePlain
    PROVE  Chars(<<>>) = <<>> /\ Pictures(<<>>) = <<>>
BY ItemMaps, FlatMapEmpty DEF Chars, Pictures

LEMMA StreamAppend ==
    ASSUME ItemsArePlain, NEW items \in Seq(Items), NEW item \in Items
    PROVE  /\ Chars(Append(items, item)) = Chars(items) \o item.chars
           /\ Pictures(Append(items, item)) = Pictures(items) \o item.shown
<1>1. charsOf[item] = item.chars /\ shownOf[item] = item.shown
  BY DEF charsOf, shownOf
<1>2. FlatMap(charsOf, Append(items, item)) = FlatMap(charsOf, items) \o charsOf[item]
  BY ItemMaps, FlatMapAppend
<1>3. FlatMap(shownOf, Append(items, item)) = FlatMap(shownOf, items) \o shownOf[item]
  BY ItemMaps, FlatMapAppend
<1> QED
  BY <1>1, <1>2, <1>3 DEF Chars, Pictures

LEMMA StreamHead ==
    ASSUME ItemsArePlain, NEW items \in Seq(Items), items # <<>>
    PROVE  /\ Head(items) \in Items /\ Tail(items) \in Seq(Items)
           /\ Chars(items) = Head(items).chars \o Chars(Tail(items))
<1>1. Head(items) \in Items /\ Tail(items) \in Seq(Items)
  OBVIOUS
<1>2. charsOf[Head(items)] = Head(items).chars
  BY <1>1 DEF charsOf
<1>3. FlatMap(charsOf, items) = charsOf[Head(items)] \o FlatMap(charsOf, Tail(items))
  BY ItemMaps, FlatMapHead
<1> QED
  BY <1>1, <1>2, <1>3 DEF Chars

LEMMA PicturesConcat ==
    ASSUME ItemsArePlain, NEW a \in Seq(Items), NEW b \in Seq(Items)
    PROVE  Pictures(a \o b) = Pictures(a) \o Pictures(b)
BY ItemMaps, FlatMapConcat DEF Pictures

LEMMA DrawnAppend ==
    ASSUME NEW queue \in Seq(Message), NEW message \in Message
    PROVE  /\ Append(queue, message) \in Seq(Message)
           /\ Drawn(Append(queue, message)) = Drawn(queue) \o Units(message)
           /\ Drawn(queue) \in Seq(Unit)
<1>1. unitsOf[message] = Units(message)
  BY DEF unitsOf
<1>2. FlatMap(unitsOf, Append(queue, message)) = FlatMap(unitsOf, queue) \o unitsOf[message]
  BY MessageMap, FlatMapAppend
<1>3. FlatMap(unitsOf, queue) \in Seq(Unit)
  BY MessageMap, FlatMapType
<1> QED
  BY <1>1, <1>2, <1>3 DEF Drawn

-----------------------------------------------------------------------------
(* The beginnings of sequences.                                            *)

(* A part of the front of one is one.                                      *)
LEMMA OpensFront ==
    ASSUME NEW s \in Seq(Characters), Opens(s), NEW k \in 1 .. Len(s)
    PROVE  Opens(SubSeq(s, 1, k))
<1> DEFINE f == SubSeq(s, 1, k)
<1>1. f \in Seq(Characters) /\ Len(f) = k /\ \A i \in 1 .. k : f[i] = s[i]
  OBVIOUS
<1>2. Len(s) \in Nat /\ k \in Nat /\ 1 <= k /\ k <= Len(s)
  OBVIOUS
<1> HIDE DEF f
<1>3. f # <<>> /\ f[1] = ESC
  <2>1. s[1] = ESC
    BY DEF Opens
  <2>2. 1 \in 1 .. k
    BY ONLY <1>2
  <2>3. f[1] = s[1]
    BY <1>1, <2>2
  <2>4. f # <<>>
    BY <1>1, <1>2
  <2> QED
    BY <2>1, <2>3, <2>4
<1>4. Len(f) >= 2 => f[2] = "["
  <2> SUFFICES ASSUME Len(f) >= 2 PROVE f[2] = "["
    OBVIOUS
  <2>1. 2 \in 1 .. k /\ Len(s) >= 2
    BY <1>1, <1>2
  <2> QED
    BY <1>1, <2>1 DEF Opens
<1>5. CASE \A i \in 3 .. Len(s) : s[i] \in Parameter
  <2>1. ASSUME NEW i \in 3 .. Len(f) PROVE f[i] \in Parameter
    <3>1. i \in 3 .. Len(s) /\ i \in 1 .. k
      BY <1>1, <1>2
    <3> QED
      BY <1>1, <1>5, <3>1
  <2> QED
    BY <1>3, <1>4, <2>1 DEF Opens
<1>6. ASSUME NEW m \in 3 .. Len(s), s[m] = "?" \/ (s[m] = Space /\ m = Len(s)),
             \A i \in 3 .. Len(s) \ {m} : s[i] \in Parameter
      PROVE  Opens(f)
  <2>1. CASE m > k
    <3>1. ASSUME NEW i \in 3 .. Len(f) PROVE f[i] \in Parameter
      <4>1. i \in 3 .. Len(s) \ {m} /\ i \in 1 .. k
        BY <1>1, <1>2, <2>1
      <4> QED
        BY <1>1, <1>6, <4>1
    <3> QED
      BY <1>3, <1>4, <3>1 DEF Opens
  <2>2. CASE m <= k
    <3>1. m \in 3 .. Len(f) /\ m \in 1 .. k /\ (m = Len(s) => m = Len(f))
      BY <1>1, <1>2, <2>2
    <3>2. ASSUME NEW i \in 3 .. Len(f) \ {m} PROVE f[i] \in Parameter
      <4>1. i \in 3 .. Len(s) \ {m} /\ i \in 1 .. k
        BY <1>1, <1>2
      <4> QED
        BY <1>1, <1>6, <4>1
    <3>3. f[m] = "?" \/ (f[m] = Space /\ m = Len(f))
      BY <1>1, <1>6, <3>1
    <3> QED
      BY <1>3, <1>4, <3>1, <3>2, <3>3 DEF Opens
  <2> QED
    BY <1>2, <2>1, <2>2
<1> QED
  <2>1. \/ \A i \in 3 .. Len(s) : s[i] \in Parameter
        \/ \E m \in 3 .. Len(s) : /\ s[m] = "?" \/ (s[m] = Space /\ m = Len(s))
                                  /\ \A i \in 3 .. Len(s) \ {m} : s[i] \in Parameter
    BY DEF Opens
  <2>2. CASE \A i \in 3 .. Len(s) : s[i] \in Parameter
    BY <1>5, <2>2 DEF f
  <2>3. CASE \E m \in 3 .. Len(s) : /\ s[m] = "?" \/ (s[m] = Space /\ m = Len(s))
                                  /\ \A i \in 3 .. Len(s) \ {m} : s[i] \in Parameter
    <3>1. PICK m \in 3 .. Len(s) : /\ s[m] = "?" \/ (s[m] = Space /\ m = Len(s))
                                  /\ \A i \in 3 .. Len(s) \ {m} : s[i] \in Parameter
      BY <2>3
    <3>2. Opens(f)
      BY <1>6, <3>1
    <3> QED
      BY <3>2 DEF f
  <2> QED
    BY <2>1, <2>2, <2>3

LEMMA OtherCharacters ==
    /\ "D" \notin Parameter /\ "?" \notin Parameter /\ Space \notin Parameter
    /\ Space # "?" /\ "[" \notin Parameter /\ "[" \notin Level0Final
    /\ \A c \in Level1Final : c \notin Parameter \union {"?", Space}
    /\ \A c \in Level2Final : c \notin Parameter
BY DEF Space, Parameter, Digit, Level0Final, Level1Final, Level2Final

(* What may follow one, and its level then.                                *)
LEMMA OpensNext ==
    ASSUME NEW b \in Seq(Characters), Opens(b), NEW c \in Characters,
           NEW s, s = Append(b, c)
    PROVE  /\ LevelOf(b) \in 0 .. 2
           /\ LevelOf(b) = 0 => IF c = "[" THEN Opens(s) /\ LevelOf(s) = 1 ELSE ~Opens(s)
           /\ LevelOf(b) = 1 => IF c \in Parameter THEN Opens(s) /\ LevelOf(s) = 1
                               ELSE IF c \in {"?", Space} THEN Opens(s) /\ LevelOf(s) = 2
                               ELSE ~Opens(s)
           /\ LevelOf(b) = 2 => IF c \in Parameter /\ Last(b) # Space
                               THEN Opens(s) /\ LevelOf(s) = 2 ELSE ~Opens(s)
<1> DEFINE n == Len(b)
<1>1. n \in Nat /\ n >= 1 /\ b[1] = ESC
  <2>1. b # <<>> /\ b[1] = ESC
    BY DEF Opens
  <2>2. Len(b) \in Nat /\ Len(b) # 0
    BY <2>1
  <2> QED
    BY <2>1, <2>2
<1>2. /\ s \in Seq(Characters) /\ Len(s) = n + 1 /\ s[n + 1] = c
      /\ \A k \in 1 .. n : s[k] = b[k]
  OBVIOUS
<1>3. s # <<>> /\ s[1] = ESC /\ Last(b) = b[n]
  BY <1>1, <1>2 DEF Last
<1> HIDE DEF n
<1>4. CASE n = 1
  <2>1. LevelOf(b) = 0
    BY <1>4 DEF LevelOf, n
  <2>2. Len(s) = 2 /\ s[2] = c
    BY <1>2, <1>4
  <2>3. 3 .. Len(s) = {}
    BY <2>2
  <2>4. Opens(s) <=> c = "["
    <3>1. Len(s) >= 2 /\ \A k \in 3 .. Len(s) : s[k] \in Parameter
      BY <2>2, <2>3
    <3> QED
      BY <1>3, <2>2, <3>1 DEF Opens
  <2>5. LevelOf(s) = 1
    BY <2>2, <2>3 DEF LevelOf
  <2> QED
    BY <2>1, <2>4, <2>5
<1>5. CASE n >= 2 /\ \A k \in 3 .. n : b[k] \in Parameter
  <2>1. LevelOf(b) = 1
    BY <1>1, <1>5 DEF LevelOf, n
  <2>2. b[2] = "["
    BY <1>5 DEF Opens, n
  <2>3. s[2] = "[" /\ Len(s) >= 2 /\ ~(Len(s) < 2) /\ n + 1 \in 3 .. Len(s)
    BY <1>1, <1>2, <1>5, <2>2
  <2>4. \A k \in 3 .. Len(s) \ {n + 1} : s[k] \in Parameter
    <3> SUFFICES ASSUME NEW k \in 3 .. Len(s) \ {n + 1} PROVE s[k] \in Parameter
      OBVIOUS
    <3>1. k \in 3 .. n /\ k \in 1 .. n
      BY <1>1, <1>2
    <3> QED
      BY <1>2, <1>5, <3>1
  <2>5. CASE c \in Parameter
    <3>1. ASSUME NEW k \in 3 .. Len(s) PROVE s[k] \in Parameter
      <4>1. CASE k = n + 1
        BY <1>2, <2>5, <4>1
      <4>2. CASE k # n + 1
        BY <2>4, <4>2
      <4> QED
        BY <4>1, <4>2
    <3>2. Opens(s) /\ LevelOf(s) = 1
      BY <1>3, <2>3, <3>1 DEF Opens, LevelOf
    <3> QED
      BY ONLY <2>1, <2>5, <3>2
  <2>6. CASE c \notin Parameter
    <3>1. ~(\A k \in 3 .. Len(s) : s[k] \in Parameter)
      BY <1>2, <2>3, <2>6
    <3>2. Opens(s) <=> c \in {"?", Space}
      <4>1. ASSUME NEW m \in 3 .. Len(s), s[m] \in {"?", Space} PROVE m = n + 1
        BY <2>4, <4>1, OtherCharacters
      <4>2. CASE c \in {"?", Space}
        BY <1>2, <1>3, <2>3, <2>4, <4>2 DEF Opens
      <4>3. CASE c \notin {"?", Space}
        BY <1>2, <1>3, <3>1, <4>1, <4>3 DEF Opens
      <4> QED
        BY <4>2, <4>3
    <3>3. LevelOf(s) = 2
      BY <2>3, <3>1 DEF LevelOf
    <3> QED
      <4>1. LevelOf(b) # 0 /\ LevelOf(b) # 2
        BY <2>1
      <4>2. IF c \in {"?", Space} THEN Opens(s) /\ LevelOf(s) = 2 ELSE ~Opens(s)
        BY <3>2, <3>3
      <4> QED
        BY ONLY <2>1, <2>6, <4>1, <4>2
  <2> QED
    BY <2>5, <2>6
<1>6. CASE n >= 2 /\ ~(\A k \in 3 .. n : b[k] \in Parameter)
  <2>1. LevelOf(b) = 2
    BY <1>1, <1>6 DEF LevelOf, n
  <2>2. b[2] = "["
    BY <1>6 DEF Opens, n
  <2>3. s[2] = "[" /\ Len(s) >= 2 /\ ~(Len(s) < 2)
    BY <1>1, <1>2, <1>6, <2>2
  <2>4. PICK m \in 3 .. n : /\ b[m] = "?" \/ (b[m] = Space /\ m = n)
                            /\ \A k \in 3 .. n \ {m} : b[k] \in Parameter
    BY <1>6 DEF Opens, n
  <2>5. /\ m \in 1 .. n /\ m \in 3 .. Len(s) /\ s[m] = b[m] /\ b[m] \notin Parameter
        /\ m # n + 1 /\ n + 1 \in 3 .. Len(s) /\ n \in 3 .. n
    <3>1. m \in 1 .. n /\ m \in 3 .. n + 1 /\ m # n + 1 /\ n + 1 \in 3 .. n + 1 /\ n \in 3 .. n
      BY <1>1
    <3>2. b[m] \notin Parameter
      BY <2>4, OtherCharacters
    <3> QED
      BY <1>2, <3>1, <3>2
  <2>6. ~(\A k \in 3 .. Len(s) : s[k] \in Parameter)
    BY <2>5
  <2>7. LevelOf(s) = 2
    BY <2>3, <2>6 DEF LevelOf
  <2>8. b[m] = "?" <=> b[n] # Space
    <3>1. CASE m = n
      BY <2>4, <3>1, OtherCharacters
    <3>2. CASE m # n
      BY <2>4, <2>5, <3>2, OtherCharacters
    <3> QED
      BY <3>1, <3>2
  <2>9. CASE c \in Parameter /\ b[n] # Space
    <3>1. \A k \in 3 .. Len(s) \ {m} : s[k] \in Parameter
      <4> SUFFICES ASSUME NEW k \in 3 .. Len(s) \ {m} PROVE s[k] \in Parameter
        OBVIOUS
      <4>1. CASE k = n + 1
        BY <1>2, <2>9, <4>1
      <4>2. CASE k # n + 1
        <5>1. k \in 3 .. n \ {m} /\ k \in 1 .. n
          BY <1>1, <1>2, <4>2
        <5> QED
          BY <1>2, <2>4, <5>1
      <4> QED
        BY <4>1, <4>2
    <3>2. s[m] = "?"
      BY <2>5, <2>8, <2>9
    <3>3. Opens(s)
      BY <1>3, <2>3, <2>5, <3>1, <3>2 DEF Opens
    <3> QED
      <4>1. c \in Parameter /\ Last(b) # Space /\ LevelOf(b) # 0 /\ LevelOf(b) # 1
        BY <1>3, <2>1, <2>9
      <4> QED
        BY ONLY <2>1, <2>7, <3>3, <4>1
  <2>10. CASE ~(c \in Parameter /\ b[n] # Space)
    <3>1. ~Opens(s)
      <4> SUFFICES ASSUME Opens(s) PROVE FALSE
        OBVIOUS
      <4>1. PICK q \in 3 .. Len(s) : /\ s[q] = "?" \/ (s[q] = Space /\ q = Len(s))
                                     /\ \A k \in 3 .. Len(s) \ {q} : s[k] \in Parameter
        BY <2>6 DEF Opens
      <4>2. q = m
        BY <2>5, <4>1
      <4>3. s[m] = "?" /\ s[n + 1] \in Parameter
        BY <1>2, <2>5, <4>1, <4>2
      <4> QED
        BY <1>2, <2>5, <2>8, <2>10, <4>3
    <3> QED
      <4>1. ~(c \in Parameter /\ Last(b) # Space) /\ LevelOf(b) # 0 /\ LevelOf(b) # 1
        BY <1>3, <2>1, <2>10
      <4> QED
        BY ONLY <2>1, <3>1, <4>1
  <2> QED
    BY <2>9, <2>10
<1> QED
  <2>1. n = 1 \/ n >= 2
    BY <1>1
  <2> QED
    BY <1>4, <1>5, <1>6, <2>1

-----------------------------------------------------------------------------
(* RemoveDoubleEsc leaves a string alone that has no two ESC in a row.     *)

LEMMA NoEscTwice ==
    ASSUME NEW s \in Seq(Characters), \A k \in 1 .. Len(s) - 1 : ~(s[k] = ESC /\ s[k + 1] = ESC)
    PROVE  RemoveDoubleEsc(s) = s
<1> DEFINE Add(r, c) == IF c = ESC /\ r # <<>> /\ Last(r) = ESC THEN r ELSE Append(r, c)
           n == Len(s)
           Eq(it) == it = [t \in SUBSET (1 .. n) |->
                             IF t = {} THEN <<>> ELSE Add(it[t \ {Max(t)}], s[Max(t)])]
           g == CHOOSE it : Eq(it)
           S == Seq(Characters)
           F == [p \in S \X (1 .. n) |-> Add(p[1], s[p[2]])]
<1>1. n \in Nat /\ DOMAIN s = 1 .. n /\ \A i \in 1 .. n : s[i] \in Characters
  OBVIOUS
<1>2. RemoveDoubleEsc(s) = g[1 .. n]
  BY <1>1 DEF RemoveDoubleEsc, FoldLeft, MapThenFoldSet
<1>3. F \in [S \X (1 .. n) -> S] /\ <<>> \in S
  <2>1. ASSUME NEW p \in S \X (1 .. n) PROVE Add(p[1], s[p[2]]) \in S
    <3>1. p[1] \in S /\ s[p[2]] \in Characters
      BY <1>1
    <3> HIDE DEF n
    <3> QED
      BY <3>1
  <2> QED
    BY <2>1
<1>4. \E it : Eq(it)
  <2> HIDE DEF F, S, n, Add
  <2>1. PICK it \in [SUBSET (1 .. n) -> S] : FoldsUpTo(it, n, <<>>, F)
    BY <1>1, <1>3, FoldExists DEF FoldableTo
  <2>2. ASSUME NEW t \in SUBSET (1 .. n)
        PROVE  it[t] = IF t = {} THEN <<>> ELSE Add(it[t \ {Max(t)}], s[Max(t)])
    <3>1. CASE t = {}
      BY <2>1, <3>1 DEF FoldsUpTo
    <3>2. CASE t # {}
      <4>1. Max(t) \in t
        BY <1>1, <3>2, MaxOfSet
      <4>2. it[t] = F[<<it[t \ {Max(t)}], Max(t)>>]
        BY <2>1, <3>2 DEF FoldsUpTo
      <4>3. it[t \ {Max(t)}] \in S /\ Max(t) \in 1 .. n
        BY <2>1, <4>1
      <4> DEFINE r == it[t \ {Max(t)}]
                 m == Max(t)
      <4> HIDE DEF r, m
      <4>4. <<r, m>> \in S \X (1 .. n)
        BY <4>3 DEF r, m
      <4>5. F[<<r, m>>] = Add(r, s[m])
        BY <4>4 DEF F
      <4> QED
        BY <3>2, <4>2, <4>5 DEF r, m
    <3> QED
      BY <3>1, <3>2
  <2>3. Eq(it)
    BY <2>1, <2>2
  <2> QED
    BY <2>3
<1>5. Eq(g)
  <2> HIDE DEF Eq
  <2> QED
    BY <1>4
<1>6. ASSUME NEW t \in SUBSET (1 .. n)
      PROVE  g[t] = IF t = {} THEN <<>> ELSE Add(g[t \ {Max(t)}], s[Max(t)])
  <2> HIDE DEF g, Add, n
  <2> QED
    BY <1>5
<1> HIDE DEF g, F, Add
<1>7. g[1 .. 0] = <<>>
  <2>1. 1 .. 0 = {} /\ {} \in SUBSET (1 .. n)
    OBVIOUS
  <2> HIDE DEF n
  <2>2. g[{}] = <<>>
    BY <1>6, <2>1
  <2> QED
    BY <2>1, <2>2
<1>8. ASSUME NEW i \in Nat, i + 1 <= n
      PROVE  g[1 .. i + 1] = Add(g[1 .. i], s[i + 1])
  <2> DEFINE t == 1 .. i + 1
  <2>1. t \in SUBSET (1 .. n) /\ t # {} /\ i + 1 \in t /\ t \ {i + 1} = 1 .. i
    <3>1. i + 1 <= n /\ n \in Nat /\ i \in Nat
      BY <1>1, <1>8
    <3> HIDE DEF n
    <3>2. t \in SUBSET (1 .. n)
      BY <3>1
    <3>3. i + 1 \in t /\ t \ {i + 1} = 1 .. i
      BY <3>1
    <3> QED
      BY <3>2, <3>3
  <2>2. Max(t) = i + 1
    <3>1. i + 1 \in Nat /\ t \in SUBSET (1 .. i + 1) /\ \A j \in t : j <= i + 1
      OBVIOUS
    <3> HIDE DEF t
    <3> QED
      BY <2>1, <3>1, MaxIs
  <2> HIDE DEF t, n
  <2>3. g[t] = Add(g[t \ {Max(t)}], s[Max(t)])
    BY <1>6, <2>1
  <2>4. t \ {Max(t)} = 1 .. i
    BY <2>1, <2>2
  <2> QED
    BY <2>2, <2>3, <2>4 DEF t
<1> DEFINE T == {i \in Nat : i <= n => g[1 .. i] = SubSeq(s, 1, i)}
<1>9. 0 \in T
  <2>1. SubSeq(s, 1, 0) = <<>>
    OBVIOUS
  <2> QED
    BY <1>7, <2>1
<1>10. ASSUME NEW i \in Nat, i \in T PROVE i + 1 \in T
  <2> SUFFICES ASSUME i + 1 <= n PROVE g[1 .. i + 1] = SubSeq(s, 1, i + 1)
    OBVIOUS
  <2> DEFINE r == SubSeq(s, 1, i)
             c == s[i + 1]
  <2>1. g[1 .. i] = r
    BY <1>1, <1>10
  <2>2. /\ r \in Seq(Characters) /\ Len(r) = i /\ \A k \in 1 .. i : r[k] = s[k]
        /\ SubSeq(s, 1, i + 1) = Append(r, c)
    BY <1>1
  <2>3. ~(c = ESC /\ r # <<>> /\ Last(r) = ESC)
    <3> HIDE DEF r
    <3> SUFFICES ASSUME c = ESC, r # <<>>, Last(r) = ESC PROVE FALSE
      OBVIOUS
    <3>1. i >= 1 /\ i \in 1 .. n - 1 /\ i \in 1 .. i
      BY <1>1, <2>2
    <3>2. r[i] = ESC
      BY <2>2 DEF Last
    <3>3. s[i] = ESC
      BY <2>2, <3>1, <3>2
    <3> QED
      BY <3>1, <3>3
  <2> HIDE DEF r, c
  <2>4. Add(r, c) = Append(r, c)
    BY <2>3 DEF Add
  <2>5. g[1 .. i + 1] = Add(g[1 .. i], c)
    BY <1>8 DEF c
  <2> QED
    BY <2>1, <2>2, <2>4, <2>5
<1> HIDE DEF T
<1>11. n \in T
  BY <1>1, <1>9, <1>10, NatSet
<1>12. g[1 .. n] = SubSeq(s, 1, n)
  BY <1>1, <1>11 DEF T
<1>13. SubSeq(s, 1, n) = s
  OBVIOUS
<1> QED
  BY <1>2, <1>12, <1>13

(* Strings and their parts without an ESC at the end or two in a row.      *)
LEMMA NoDoubleConcat ==
    ASSUME NEW a \in Seq(Characters), NEW b \in Seq(Characters), NoDouble(a), NoDouble(b)
    PROVE  NoDouble(a \o b)
<1> DEFINE s == a \o b
           n == Len(a)
<1>1. /\ n \in Nat /\ Len(b) \in Nat /\ Len(s) = n + Len(b)
      /\ \A i \in 1 .. Len(s) : s[i] = IF i <= n THEN a[i] ELSE b[i - n]
  OBVIOUS
<1> HIDE DEF s, n
<1>2. ASSUME NEW k \in 1 .. Len(s), s[k] = ESC PROVE k < Len(s) /\ s[k + 1] # ESC
  <2>0. k \in Nat /\ k >= 1 /\ k <= n + Len(b)
    BY <1>1
  <2>1. CASE k <= n
    <3>1. k \in 1 .. Len(a) /\ a[k] = ESC
      BY <1>1, <1>2, <2>0, <2>1 DEF n
    <3>2. k < n /\ a[k + 1] # ESC
      BY <3>1 DEF NoDouble, n
    <3>3. k + 1 \in 1 .. Len(s) /\ k + 1 <= n /\ k < Len(s)
      BY <1>1, <2>0, <3>2
    <3> QED
      BY <1>1, <3>2, <3>3
  <2>2. CASE ~(k <= n)
    <3>1. k - n \in 1 .. Len(b) /\ b[k - n] = ESC
      <4>1. k - n \in 1 .. Len(b)
        BY <1>1, <2>0, <2>2
      <4>2. s[k] = b[k - n]
        BY <1>1, <2>2
      <4> QED
        BY <1>2, <4>1, <4>2
    <3>2. k - n < Len(b) /\ b[k - n + 1] # ESC
      BY <3>1 DEF NoDouble
    <3>3. k + 1 \in 1 .. Len(s) /\ ~(k + 1 <= n) /\ k < Len(s) /\ k + 1 - n = k - n + 1
      BY <1>1, <2>0, <2>2, <3>2
    <3>4. s[k + 1] = b[k + 1 - n]
      BY <1>1, <3>3
    <3> QED
      BY <3>2, <3>3, <3>4
  <2> QED
    BY <2>1, <2>2
<1>3. NoDouble(s)
  BY <1>2 DEF NoDouble
<1> QED
  BY <1>3 DEF s

LEMMA NoDoubleCut ==
    ASSUME NEW s \in Seq(Characters), NoDouble(s), NEW n \in Nat, n <= Len(s),
           NEW a, a = SubSeq(s, 1, n), NEW b, b = SubSeq(s, n + 1, Len(s))
    PROVE  /\ a \in Seq(Characters) /\ b \in Seq(Characters) /\ a \o b = s
           /\ RemoveDoubleEsc(a) = a
           /\ NoDouble(b)
<1>0. Len(s) \in Nat
  OBVIOUS
<1>1. a \in Seq(Characters) /\ Len(a) = n /\ \A i \in 1 .. n : a[i] = s[i]
  BY <1>0
<1>2. b \in Seq(Characters) /\ Len(b) = Len(s) - n /\ \A i \in 1 .. Len(s) - n : b[i] = s[n + i]
  BY <1>0
<1>3. a \o b = s
  <2> DEFINE t == a \o b
  <2>0. /\ t \in Seq(Characters) /\ Len(t) = Len(a) + Len(b)
        /\ \A i \in 1 .. Len(a) + Len(b) : t[i] = IF i <= Len(a) THEN a[i] ELSE b[i - Len(a)]
    <3>1. a \in Seq(Characters) /\ b \in Seq(Characters)
      BY <1>1, <1>2
    <3> QED
      BY ONLY <3>1
  <2> HIDE DEF t
  <2>1. t \in Seq(Characters) /\ Len(t) = Len(s) /\ Len(a) + Len(b) = Len(s)
    <3>1. n + (Len(s) - n) = Len(s)
      BY ONLY <1>0, n \in Nat
    <3>2. Len(a) = n /\ Len(b) = Len(s) - n /\ Len(t) = Len(a) + Len(b)
      BY <1>1, <1>2, <2>0
    <3> HIDE DEF t
    <3> QED
      BY ONLY <2>0, <3>1, <3>2
  <2>2. \A i \in 1 .. Len(s) : t[i] = IF i <= n THEN a[i] ELSE b[i - n]
    BY <1>1, <2>0, <2>1
  <2>3. ASSUME NEW i \in 1 .. Len(s) PROVE t[i] = s[i]
    <3>1. CASE i <= n
      <4>1. i \in 1 .. n
        BY <1>0, <3>1
      <4> QED
        BY <1>1, <2>2, <3>1, <4>1
    <3>2. CASE ~(i <= n)
      <4>1. i - n \in 1 .. Len(s) - n /\ n + (i - n) = i
        BY <1>0, <3>2
      <4>2. b[i - n] = s[i]
        BY <1>2, <4>1
      <4> QED
        BY <2>2, <3>2, <4>2
    <3> QED
      BY <3>1, <3>2
  <2>4. t = s
    BY <2>1, <2>3
  <2> QED
    BY <2>4 DEF t
<1>4. RemoveDoubleEsc(a) = a
  <2>1. ASSUME NEW k \in 1 .. Len(a) - 1 PROVE ~(a[k] = ESC /\ a[k + 1] = ESC)
    <3>1. k \in 1 .. n /\ k + 1 \in 1 .. n /\ k \in 1 .. Len(s)
      BY <1>0, <1>1
    <3>2. s[k] = ESC => s[k + 1] # ESC
      BY <3>1 DEF NoDouble
    <3> QED
      BY <1>1, <3>1, <3>2
  <2> QED
    BY <1>1, <2>1, NoEscTwice
<1>5. ASSUME NEW k \in 1 .. Len(b), b[k] = ESC PROVE k < Len(b) /\ b[k + 1] # ESC
  <2>1. n + k \in 1 .. Len(s) /\ k \in 1 .. Len(s) - n /\ k \in Nat
    BY <1>0, <1>2
  <2>2. s[n + k] = ESC
    BY <1>2, <1>5, <2>1
  <2>3. n + k < Len(s) /\ s[n + k + 1] # ESC
    BY <2>1, <2>2 DEF NoDouble
  <2>4. k < Len(b) /\ k + 1 \in 1 .. Len(s) - n /\ n + (k + 1) = n + k + 1
    BY <1>0, <1>2, <2>1, <2>3
  <2>5. b[k + 1] = s[n + (k + 1)]
    BY <1>2, <2>4
  <2> QED
    BY <2>3, <2>4, <2>5
<1>6. NoDouble(b)
  BY <1>5 DEF NoDouble
<1> QED
  BY <1>1, <1>2, <1>3, <1>4, <1>6

(* The tests of the code on the character that comes next are those of the *)
(* grammar.                                                                *)
LEMMA NextIsTested ==
    ASSUME NEW b \in Seq(Characters), b = m_sequence_builder, Opens(b),
           m_sequence_level = LevelOf(b), NEW c \in Characters,
           NEW s, s = Append(b, c)
    PROVE  /\ (Completes(c) => Ends(b, c)) /\ (Ends(b, c) => Completes(c))
           /\ Opens(s) => /\ ~IsInvalid(c) /\ ~Completes(c)
                          /\ LevelOf(s) = IF ToNextLevel(c) THEN m_sequence_level + 1
                                                            ELSE m_sequence_level
           /\ ~Opens(s) => (IsInvalid(c) \/ Completes(c)) /\ ~(IsInvalid(c) /\ Completes(c))
<1> DEFINE level == LevelOf(b)
<1>1. /\ level \in 0 .. 2
      /\ level = 0 => IF c = "[" THEN Opens(s) /\ LevelOf(s) = 1 ELSE ~Opens(s)
      /\ level = 1 => IF c \in Parameter THEN Opens(s) /\ LevelOf(s) = 1
                      ELSE IF c \in {"?", Space} THEN Opens(s) /\ LevelOf(s) = 2
                      ELSE ~Opens(s)
      /\ level = 2 => IF c \in Parameter /\ Last(b) # Space
                      THEN Opens(s) /\ LevelOf(s) = 2 ELSE ~Opens(s)
  BY OpensNext
<1>2. m_sequence_level = level
  OBVIOUS
<1> HIDE DEF level
<1>3. CASE level = 0
  <2>1. /\ Completes(c) <=> c \in Level0Final
        /\ ToNextLevel(c) <=> c = "["
        /\ ~IsParameter(c) /\ ~SpacedWrongly(c)
    BY <1>2, <1>3 DEF Completes, ToNextLevel, IsParameter, SpacedWrongly
  <2>2. IsInvalid(c) <=> ~(c = "[" \/ c \in Level0Final)
    BY <2>1 DEF IsInvalid
  <2>3. Ends(b, c) <=> c \in Level0Final
    BY <1>3 DEF Ends, level
  <2>4. IF c = "[" THEN Opens(s) /\ LevelOf(s) = 1 ELSE ~Opens(s)
    BY <1>1, <1>3
  <2>5. "[" \notin Level0Final
    BY OtherCharacters
  <2>6. m_sequence_level + 1 = 1
    BY <1>2, <1>3
  <2> QED
    BY ONLY <2>1, <2>2, <2>3, <2>4, <2>5, <2>6
<1>4. CASE level = 1
  <2>1. /\ Completes(c) <=> c \in Level1Final
        /\ ToNextLevel(c) <=> c \in {"?", Space}
        /\ IsParameter(c) <=> c \in Parameter
        /\ ~SpacedWrongly(c)
    BY <1>2, <1>4 DEF Completes, ToNextLevel, IsParameter, SpacedWrongly
  <2>2. IsInvalid(c) <=> ~(c \in Parameter \/ c \in {"?", Space} \/ c \in Level1Final)
    BY <2>1 DEF IsInvalid
  <2>3. Ends(b, c) <=> c \in Level1Final
    BY <1>4 DEF Ends, level
  <2>4. IF c \in Parameter THEN Opens(s) /\ LevelOf(s) = 1
        ELSE IF c \in {"?", Space} THEN Opens(s) /\ LevelOf(s) = 2
        ELSE ~Opens(s)
    BY <1>1, <1>4
  <2>5. /\ c \in Level1Final => c \notin Parameter /\ c \notin {"?", Space}
        /\ c \in {"?", Space} => c \notin Parameter
    BY OtherCharacters
  <2>6. m_sequence_level = 1 /\ m_sequence_level + 1 = 2
    BY <1>2, <1>4
  <2> QED
    BY ONLY <2>1, <2>2, <2>3, <2>4, <2>5, <2>6
<1>5. CASE level = 2
  <2> DEFINE spaced == Last(b) = Space
  <2>1. /\ SpacedWrongly(c) <=> spaced /\ c # "D"
        /\ Completes(c) <=> c \in Level2Final /\ ~(spaced /\ c # "D")
        /\ ~ToNextLevel(c)
        /\ IsParameter(c) <=> c \in Parameter
    BY <1>2, <1>5 DEF Completes, ToNextLevel, IsParameter, SpacedWrongly
  <2>2. Ends(b, c) <=> c \in Level2Final /\ (spaced => c = "D")
    BY <1>5 DEF Ends, level
  <2>3. IF c \in Parameter /\ ~spaced THEN Opens(s) /\ LevelOf(s) = 2 ELSE ~Opens(s)
    BY <1>1, <1>5
  <2> HIDE DEF spaced
  <2>4. IsInvalid(c) <=> \/ spaced /\ c # "D"
                         \/ ~(c \in Parameter \/ c \in Level2Final)
    BY <2>1 DEF IsInvalid
  <2>5. c \in Level2Final => c \notin Parameter
    BY OtherCharacters
  <2>6. m_sequence_level = 2 /\ (c \in Parameter => c # "D")
    BY <1>2, <1>5, OtherCharacters
  <2> QED
    BY ONLY <2>1, <2>2, <2>3, <2>4, <2>5, <2>6
<1>6. level = 0 \/ level = 1 \/ level = 2
  BY <1>1
<1> QED
  BY <1>3, <1>4, <1>5, <1>6

-----------------------------------------------------------------------------
(* The next character x[1] of what is left, x in the decoder and w on the  *)
(* wire, when the items still to be shown are todo.                        *)

(* Outside of a sequence it begins an item.                                *)
LEMMA NextItem ==
    ASSUME ItemsArePlain, NEW todo \in Seq(Items), NEW x \in Seq(Characters),
           NEW w \in Seq(Characters), x # <<>>, x \o w = Chars(todo),
           NEW c, c = Head(x)
    PROVE  /\ todo # <<>> /\ Head(todo) \in Items /\ Tail(todo) \in Seq(Items)
           /\ c \in Characters
           /\ Head(todo).chars[1] = c
           /\ c = ESC => SequenceItem(Head(todo))
           /\ c = BEL => Head(todo).shown = <<>>
           /\ c \notin {ESC, BEL} => Head(todo).shown = Glyphs(<<c>>)
           /\ c # ESC => Tail(x) \o w = Chars(Tail(todo))
<1> DEFINE y == x \o w
           h == Head(todo)
           s == h.chars
           r == Chars(Tail(todo))
<1>1. /\ y \in Seq(Characters) /\ y # <<>> /\ Head(y) = c /\ Tail(y) = Tail(x) \o w
      /\ c \in Characters
  <2>1. Head(y) = c /\ Tail(y) = Tail(x) \o w /\ y # <<>>
    BY ConcatHead
  <2>2. c \in Characters
    OBVIOUS
  <2>3. y \in Seq(Characters)
    BY ONLY x \in Seq(Characters), w \in Seq(Characters)
  <2> HIDE DEF y
  <2> QED
    BY <2>1, <2>2, <2>3 DEF y
<1>2. todo # <<>>
  BY <1>1, StreamEmpty
<1>3. h \in Items /\ Tail(todo) \in Seq(Items) /\ y = s \o r
  BY <1>2, StreamHead
<1>4. s \in Seq(Characters) /\ s # <<>> /\ r \in Seq(Characters) /\ PlainItem(h)
  BY <1>3, PlainTypes, StreamTypes DEF ItemsArePlain
<1> HIDE DEF y, h, r
<1>5. Head(s \o r) = Head(s) /\ Tail(s \o r) = Tail(s) \o r
  <2> HIDE DEF s
  <2> QED
    BY <1>4, ConcatHead
<1>6. s[1] = c /\ Tail(s) \o r = Tail(x) \o w
  <2>1. Head(s) = s[1]
    BY <1>4
  <2> HIDE DEF s
  <2>2. Head(s) = c
    BY <1>1, <1>3, <1>5
  <2>3. Tail(s) \o r = Tail(x) \o w
    BY <1>1, <1>3, <1>5
  <2> QED
    BY <2>1, <2>2, <2>3
<1>7. Len(s) = 1 => Tail(x) \o w = r
  <2> SUFFICES ASSUME Len(s) = 1 PROVE Tail(x) \o w = r
    OBVIOUS
  <2>1. Tail(s) = <<>>
    <3>1. s \in Seq(Characters) /\ s # <<>>
      BY <1>4
    <3> HIDE DEF s
    <3>2. PICK t : t = Tail(s)
      OBVIOUS
    <3>3. t \in Seq(Characters) /\ Len(t) = 0
      BY ONLY <3>1, <3>2, Len(s) = 1
    <3>4. t = <<>>
      BY ONLY <3>3
    <3> QED
      BY <3>2, <3>4
  <2>2. <<>> \o r = r
    BY <1>4
  <2> QED
    BY <1>6, <2>1, <2>2
<1>8. CASE \E d \in Characters \ {ESC, BEL} : s = <<d>> /\ h.shown = Glyphs(<<d>>)
  <2>1. PICK d \in Characters \ {ESC, BEL} : s = <<d>> /\ h.shown = Glyphs(<<d>>)
    BY <1>8
  <2>2. d = c /\ Len(s) = 1
    BY <1>6, <2>1
  <2>3. c \notin {ESC, BEL} /\ h.shown = Glyphs(<<c>>) /\ Tail(x) \o w = r
    BY <1>7, <2>1, <2>2
  <2> QED
    BY <1>1, <1>2, <1>3, <1>6, <2>3 DEF h, r
<1>9. CASE s = <<BEL>> /\ h.shown = <<>>
  <2>1. c = BEL /\ Len(s) = 1 /\ ESC # BEL
    BY <1>6, <1>9 DEF ESC, BEL
  <2>2. Tail(x) \o w = r
    BY <1>7, <2>1
  <2> QED
    BY <1>1, <1>2, <1>3, <1>6, <1>9, <2>1, <2>2 DEF h, r
<1>10. CASE SequenceItem(h)
  <2>1. s[1] = ESC
    BY <1>4, <1>10, SequenceChars
  <2>2. c = ESC /\ ESC # BEL
    BY <1>6, <2>1 DEF ESC, BEL
  <2> QED
    BY <1>1, <1>2, <1>3, <1>6, <1>10, <2>2 DEF h, r
<1> QED
  BY <1>4, <1>8, <1>9, <1>10 DEF PlainItem

(* Inside of a sequence, of which b was read, it is the next character of  *)
(* it, and no other ESC.                                                   *)
GoesOn(todo, b, x, w, c, a) ==
    /\ c \in Characters \ {ESC, BEL}
    /\ a \in Seq(Characters) /\ Len(a) = Len(b) + 1
    /\ a \o (Tail(x) \o w) = Chars(todo)
    /\ Len(a) < Len(Head(todo).chars) => Opens(a)
    /\ ~(Len(a) < Len(Head(todo).chars)) =>
          /\ a = Head(todo).chars /\ ~Opens(a) /\ b = Front(a) /\ c = Last(a)
          /\ Tail(x) \o w = Chars(Tail(todo))

LEMMA NextInside ==
    ASSUME ItemsArePlain, NEW todo \in Seq(Items), todo # <<>>,
           NEW b \in Seq(Characters), NEW x \in Seq(Characters), NEW w \in Seq(Characters),
           x # <<>>, b \o (x \o w) = Chars(todo),
           SequenceItem(Head(todo)), b # <<>>, Len(b) < Len(Head(todo).chars),
           NEW c, c = Head(x), NEW a, a = Append(b, c)
    PROVE  GoesOn(todo, b, x, w, c, a)
<1>0. PICK s : s = Head(todo).chars
  OBVIOUS
<1> DEFINE y == x \o w
           r == Chars(Tail(todo))
           n == Len(b)
           m == Len(s) - 1
<1>1. y \in Seq(Characters) /\ Head(y) = c /\ Tail(y) = Tail(x) \o w
  <2>1. Head(y) = c /\ Tail(y) = Tail(x) \o w
    BY ConcatHead
  <2> QED
    BY <2>1
<1>2. Head(todo) \in Items /\ Tail(todo) \in Seq(Items) /\ b \o y = s \o r
  BY <1>0, StreamHead
<1>3. s \in Seq(Characters) /\ r \in Seq(Characters)
  BY <1>0, <1>2, PlainTypes, StreamTypes
<1> HIDE DEF y, r
<1>4. n \in Nat /\ n >= 1 /\ n < Len(s) /\ Len(s) \in Nat
  BY <1>0, <1>3
<1>5. /\ c = s[n + 1] /\ c \in Characters
      /\ a = SubSeq(s, 1, n + 1) /\ b = SubSeq(s, 1, n)
      /\ a \o Tail(y) = s \o r
      /\ n + 1 = Len(s) => a = s /\ Tail(y) = r
  <2>1. /\ y # <<>> /\ Head(y) = s[n + 1] /\ Head(y) \in Characters
        /\ b = SubSeq(s, 1, n) /\ Append(b, Head(y)) = SubSeq(s, 1, n + 1)
        /\ Append(b, Head(y)) \o Tail(y) = s \o r
        /\ n + 1 = Len(s) => Append(b, Head(y)) = s /\ Tail(y) = r
    <3>1. y \in Seq(Characters) /\ b \o y = s \o r /\ Len(b) < Len(s)
      BY <1>1, <1>2, <1>4
    <3>2. Aligned(b, y, s, r)
      BY ONLY <1>3, <3>1, b \in Seq(Characters), ConcatAligned
    <3>3. y # <<>> /\ Head(y) \in Characters
      BY <1>1, <3>1, <3>2 DEF Aligned
    <3> QED
      BY <3>2, <3>3 DEF Aligned
  <2> QED
    BY <1>1, <2>1
<1>6. a \in Seq(Characters) /\ Len(a) = n + 1
  BY <1>5
<1>7. /\ m \in Nat \ {0} /\ m + 1 = Len(s)
      /\ Front(s) \in Seq(Characters) /\ Len(Front(s)) = m /\ Opens(Front(s))
      /\ \A k \in 1 .. m : Front(s)[k] = s[k]
      /\ Last(s) = s[m + 1]
      /\ \A k \in 2 .. m + 1 : s[k] \notin {ESC, BEL}
  <2>1. m + 1 = Len(s)
    BY <1>4
  <2>2. s = Head(todo).chars /\ SequenceItem(Head(todo))
    BY <1>0
  <2> HIDE DEF m
  <2> QED
    BY <1>3, <2>1, <2>2, SequenceChars DEF m
<1>8. c \notin {ESC, BEL}
  <2>1. n + 1 \in 2 .. m + 1
    BY <1>4, <1>7
  <2> QED
    BY <1>5, <1>7, <2>1
<1>9. ASSUME n + 1 < Len(s) PROVE Opens(a)
  <2> DEFINE f == Front(s)
             g == SubSeq(f, 1, n + 1)
  <2>1. n + 1 \in 1 .. Len(f) /\ n + 1 \in 1 .. m
    BY <1>4, <1>7, <1>9
  <2>2. Opens(g)
    <3> HIDE DEF f
    <3> QED
      BY <1>7, <2>1, OpensFront DEF f
  <2>3. g \in Seq(Characters) /\ Len(g) = n + 1 /\ \A i \in 1 .. n + 1 : g[i] = f[i]
    <3> HIDE DEF f
    <3>1. f \in Seq(Characters)
      BY <1>7 DEF f
    <3> QED
      BY <1>4, <2>1, <3>1
  <2>4. \A i \in 1 .. n + 1 : a[i] = s[i]
    BY <1>3, <1>4, <1>5
  <2> HIDE DEF g
  <2>5. a = g
    <3>1. ASSUME NEW i \in 1 .. n + 1 PROVE a[i] = g[i]
      <4>1. i \in 1 .. m
        BY <1>4, <1>7, <1>9
      <4> QED
        BY <1>7, <2>3, <2>4, <4>1
    <3>2. Len(a) = Len(g) /\ a \in Seq(Characters) /\ g \in Seq(Characters)
      BY <1>6, <2>3
    <3>3. \A i \in 1 .. Len(a) : a[i] = g[i]
      BY <1>6, <3>1
    <3> QED
      BY ONLY <3>2, <3>3, SeqEqual
  <2> QED
    BY <2>2, <2>5
<1>10. ASSUME n + 1 = Len(s)
       PROVE  a = s /\ ~Opens(a) /\ b = Front(s) /\ c = Last(s) /\ Tail(y) = r
  <2>1. a = s /\ Tail(y) = r
    BY <1>5, <1>10
  <2>2. ~Opens(s)
    BY <1>0 DEF SequenceItem
  <2>3. c = Last(s) /\ n = m
    BY <1>4, <1>5, <1>7, <1>10
  <2>4. b = Front(s)
    BY <1>5, <2>3 DEF Front
  <2> QED
    BY <2>1, <2>2, <2>3, <2>4
<1>11. n + 1 < Len(s) \/ n + 1 = Len(s)
  BY <1>4
<1>12. a \o Tail(y) = Chars(todo)
  BY <1>2, <1>5 DEF y
<1> QED
  <2>1. /\ Len(a) < Len(s) => Opens(a)
        /\ ~(Len(a) < Len(s)) => /\ a = s /\ ~Opens(a) /\ b = Front(s) /\ c = Last(s)
                                 /\ Tail(y) = r
    BY <1>6, <1>9, <1>10, <1>11
  <2>2. c \in Characters \ {ESC, BEL} /\ a \in Seq(Characters) /\ Len(a) = Len(b) + 1
    BY <1>5, <1>6, <1>8
  <2> QED
    BY <1>0, <1>1, <1>12, <2>1, <2>2 DEF r, GoesOn

-----------------------------------------------------------------------------
(* The items of the stream are shown one after the other.                  *)

LEMMA NextIsShown ==
    ASSUME ItemsArePlain, NEW done \in Seq(Items), NEW todo \in Seq(Items), todo # <<>>,
           NEW h, h = Head(todo)
    PROVE  /\ Append(done, h) \in Seq(Items) /\ Tail(todo) \in Seq(Items)
           /\ Append(done, h) \o Tail(todo) = done \o todo
           /\ Pictures(Append(done, h)) = Pictures(done) \o h.shown
<1>1. h \in Items /\ Tail(todo) \in Seq(Items)
  OBVIOUS
<1>2. PICK r : r = Tail(todo)
  OBVIOUS
<1>3. PICK e : e = <<h>>
  OBVIOUS
<1>4. r \in Seq(Items) /\ e \in Seq(Items)
  BY <1>1, <1>2, <1>3
<1>5. todo = e \o r
  BY <1>1, <1>2, <1>3
<1>6. Append(done, h) = done \o e
  BY <1>1, <1>3
<1>7. (done \o e) \o r = done \o (e \o r)
  BY ONLY <1>4, done \in Seq(Items), ConcatAssoc
<1>8. Pictures(Append(done, h)) = Pictures(done) \o h.shown
  BY <1>1, StreamAppend
<1>9. Append(done, h) \o r = done \o todo
  BY ONLY <1>5, <1>6, <1>7
<1>10. Append(done, h) \in Seq(Items)
  BY ONLY <1>1, done \in Seq(Items)
<1> QED
  BY ONLY <1>1, <1>2, <1>8, <1>9, <1>10

\* What the session has of the stream: the messages queued and the text at hand.
OnScreen(queue, text) == Drawn(queue) \o Glyphs(text)

LEMMA NoGlyphs == Glyphs(<<>>) = <<>> /\ <<>> \in Seq(Characters) /\ <<>> \in Seq(Unit)
<1>1. DOMAIN <<>> = {}
  OBVIOUS
<1> QED
  BY <1>1 DEF Glyphs

(* One more character of text.                                             *)
LEMMA TextGrows ==
    ASSUME NEW queue \in Seq(Message), NEW text \in Seq(Characters), NEW more \in Seq(Characters)
    PROVE  OnScreen(queue, text \o more) = OnScreen(queue, text) \o Glyphs(more)
<1>1. Glyphs(text \o more) = Glyphs(text) \o Glyphs(more)
  BY GlyphsConcat
<1>2. PICK d, g, m : d = Drawn(queue) /\ g = Glyphs(text) /\ m = Glyphs(more)
  OBVIOUS
<1>3. d \in Seq(Unit) /\ g \in Seq(Unit) /\ m \in Seq(Unit)
  <2>1. d \in Seq(Unit)
    BY <1>2, MessageMap, FlatMapType DEF Drawn
  <2> QED
    BY <1>2, <2>1, GlyphsType
<1>4. (d \o g) \o m = d \o (g \o m)
  BY ONLY <1>3, ConcatAssoc
<1> QED
  BY <1>1, <1>2, <1>4 DEF OnScreen

(* The text is queued.                                                     *)
LEMMA TextIsQueued ==
    ASSUME NEW queue \in Seq(Message), NEW text \in Seq(Characters)
    PROVE  /\ Append(queue, TextMessage(text)) \in Seq(Message)
           /\ OnScreen(Append(queue, TextMessage(text)), <<>>) = OnScreen(queue, text)
<1>1. PICK m : m = TextMessage(text)
  OBVIOUS
<1>2. m \in Message /\ Units(m) = Glyphs(text)
  BY <1>1, TextUnits
<1>3. PICK q : q = Append(queue, m)
  OBVIOUS
<1>4. q \in Seq(Message) /\ Drawn(q) = Drawn(queue) \o Units(m) /\ Drawn(q) \in Seq(Unit)
  <2>1. q \in Seq(Message) /\ Drawn(q) = Drawn(queue) \o Units(m)
    BY <1>2, <1>3, DrawnAppend
  <2>2. Drawn(q) \in Seq(Unit)
    BY <2>1, MessageMap, FlatMapType DEF Drawn
  <2> QED
    BY <2>1, <2>2
<1>5. Drawn(q) \o <<>> = Drawn(q)
  BY <1>4, ConcatEmpty
<1> QED
  BY <1>1, <1>2, <1>3, <1>4, <1>5, NoGlyphs DEF OnScreen

(* A command is queued when no text waits.                                 *)
LEMMA CommandIsQueued ==
    ASSUME NEW queue \in Seq(Message), NEW item \in Items, NEW s, s = item.chars
    PROVE  /\ Append(queue, validateSequence(s)) \in Seq(Message)
           /\ OnScreen(Append(queue, validateSequence(s)), <<>>)
                = OnScreen(queue, <<>>) \o <<validateSequence(s)>>
<1>1. PICK m : m = validateSequence(s)
  OBVIOUS
<1>2. m \in Message /\ Units(m) = <<m>>
  BY <1>1, CommandUnits DEF Message
<1>3. PICK q : q = Append(queue, m)
  OBVIOUS
<1>4. q \in Seq(Message) /\ Drawn(q) = Drawn(queue) \o Units(m)
  BY <1>2, <1>3, DrawnAppend
<1>5. Drawn(q) \in Seq(Unit) /\ Drawn(queue) \in Seq(Unit)
  BY <1>4, MessageMap, FlatMapType DEF Drawn
<1>6. Drawn(q) \o <<>> = Drawn(q)
  BY <1>5, ConcatEmpty
<1>7. Drawn(queue) \o <<>> = Drawn(queue)
  BY <1>5, ConcatEmpty
<1> QED
  BY <1>1, <1>2, <1>3, <1>4, <1>6, <1>7, NoGlyphs DEF OnScreen

-----------------------------------------------------------------------------
(* The invariant: the items sent are done or to do.  The decoder and the   *)
(* wire hold the characters of those to do; the session has what those     *)
(* done show.                                                              *)

Within(todo) ==
    /\ todo # <<>> /\ SequenceItem(Head(todo))
    /\ Opens(m_sequence_builder)
    /\ m_sequence_level = LevelOf(m_sequence_builder)
    /\ Len(m_sequence_builder) < Len(Head(todo).chars)

CutAt(done, todo) ==
    /\ sent = done \o todo
    /\ m_sequence_builder \o (input_string \o wire) = Chars(todo)
    /\ OnScreen(m_data_queue, m_valid_output_data) = Pictures(done)
    /\ m_sequence_state = "SEQ_PROCESSING" => Within(todo)

StreamTypeOK ==
    /\ TypeOK
    /\ sent \in Seq(Items)
    /\ m_data_queue \in Seq(Message)
    /\ wire \in Seq(Characters)
    /\ input_string \in Seq(Characters)
    /\ NoDouble(wire)
    /\ ~decoding => input_string = <<>> /\ m_valid_output_data = <<>>

StreamInv ==
    /\ StreamTypeOK
    /\ \E done, todo \in Seq(Items) : CutAt(done, todo)

LEMMA StreamInit ==
    ASSUME ItemsArePlain, Init
    PROVE  StreamInv
<1>1. /\ m_sequence_state = "SEQ_NORMAL" /\ m_sequence_builder = <<>>
      /\ m_valid_output_data = <<>> /\ input_string = <<>> /\ m_data_queue = <<>>
      /\ wire = <<>> /\ sent = <<>>
  BY DEF Init
<1>2. StreamTypeOK
  <2>1. TypeOK
    BY TypeInductive
  <2>2. <<>> \in Seq(Items) /\ <<>> \in Seq(Message) /\ <<>> \in Seq(Characters)
    OBVIOUS
  <2>3. NoDouble(<<>>)
    BY DEF NoDouble
  <2> QED
    BY <1>1, <2>1, <2>2, <2>3 DEF StreamTypeOK
<1>3. CutAt(<<>>, <<>>)
  <2>1. <<>> \o <<>> = <<>>
    OBVIOUS
  <2>2. Drawn(<<>>) = <<>>
    BY MessageMap, FlatMapEmpty DEF Drawn
  <2> QED
    BY <1>1, <2>1, <2>2, NoGlyphs, StreamEmpty DEF CutAt, OnScreen
<1>4. <<>> \in Seq(Items)
  OBVIOUS
<1> QED
  BY <1>2, <1>3, <1>4 DEF StreamInv

(* What the invariant says of the parts.                                   *)
LEMMA StreamParts ==
    ASSUME StreamInv
    PROVE  /\ TypeOK /\ StreamTypeOK
           /\ m_sequence_builder \in Seq(Characters) /\ m_valid_output_data \in Seq(Characters)
           /\ input_string \in Seq(Characters) /\ wire \in Seq(Characters)
           /\ m_data_queue \in Seq(Message) /\ sent \in Seq(Items)
           /\ m_sequence_state # "SEQ_PROCESSING" =>
                 m_sequence_builder = <<>> /\ m_sequence_level = 0
           /\ m_sequence_state = "SEQ_PROCESSING" =>
                 m_sequence_builder # <<>> /\ m_valid_output_data = <<>>
BY DEF StreamInv, StreamTypeOK, TypeOK

LEMMA StreamServerSends ==
    ASSUME ItemsArePlain, StreamInv, TypeOK', NEW item \in Items, ServerSends(item)
    PROVE  StreamInv'
<1>1. PICK done \in Seq(Items), todo \in Seq(Items) : CutAt(done, todo)
  BY DEF StreamInv
<1>2. /\ sent' = Append(sent, item) /\ wire' = wire \o item.chars
      /\ UNCHANGED <<m_sequence_state, m_sequence_level, m_sequence_builder,
                     m_valid_output_data, input_string, decoding, m_data_queue>>
  BY DEF ServerSends, decoder
<1>3. PICK s : s = item.chars
  OBVIOUS
<1>4. s \in Seq(Characters) /\ NoDouble(s)
  BY <1>3, PlainTypes
<1>5. StreamTypeOK'
  <2>1. wire' \in Seq(Characters) /\ NoDouble(wire')
    <3>1. wire \in Seq(Characters) /\ NoDouble(wire)
      BY DEF StreamInv, StreamTypeOK
    <3>2. wire' = wire \o s
      BY <1>2, <1>3
    <3>3. NoDouble(wire \o s)
      BY <1>4, <3>1, NoDoubleConcat
    <3> QED
      BY <1>4, <3>1, <3>2, <3>3
  <2>2. sent' \in Seq(Items)
    BY <1>2, StreamParts
  <2> QED
    BY <1>2, <2>1, <2>2 DEF StreamInv, StreamTypeOK
<1>6. PICK more : more = Append(todo, item)
  OBVIOUS
<1>7. more \in Seq(Items) /\ Chars(more) = Chars(todo) \o s
  BY <1>3, <1>6, StreamAppend
<1>8. sent' = done \o more
  <2>1. sent = done \o todo
    BY <1>1 DEF CutAt
  <2>2. Append(done \o todo, item) = done \o Append(todo, item)
    <3>1. PICK e : e = <<item>>
      OBVIOUS
    <3>2. e \in Seq(Items)
      BY <3>1
    <3>3. (done \o todo) \o e = done \o (todo \o e)
      BY ONLY <3>2, done \in Seq(Items), todo \in Seq(Items), ConcatAssoc
    <3>4. PICK t : t = done \o todo
      OBVIOUS
    <3>5. t \in Seq(Items)
      BY <3>4
    <3>6. Append(t, item) = t \o e /\ Append(todo, item) = todo \o e
      BY ONLY <3>1, <3>5, todo \in Seq(Items), item \in Items
    <3> QED
      BY <3>3, <3>4, <3>6
  <2> QED
    BY <1>2, <1>6, <2>1, <2>2
<1>9. m_sequence_builder \o (input_string \o (wire \o s)) = Chars(more)
  <2>1. PICK b, x, w : b = m_sequence_builder /\ x = input_string /\ w = wire
    OBVIOUS
  <2>2. b \in Seq(Characters) /\ x \in Seq(Characters) /\ w \in Seq(Characters)
    BY <2>1, StreamParts
  <2>3. b \o (x \o w) = Chars(todo)
    BY <1>1, <2>1 DEF CutAt
  <2>4. PICK y : y = x \o w
    OBVIOUS
  <2>5. y \in Seq(Characters)
    BY <2>2, <2>4
  <2>6. (x \o w) \o s = x \o (w \o s)
    BY ONLY <1>4, <2>2
  <2>7. (b \o y) \o s = b \o (y \o s)
    BY ONLY <1>4, <2>2, <2>5
  <2> QED
    BY ONLY <1>7, <2>1, <2>3, <2>4, <2>6, <2>7
<1>10. CutAt(done, more)'
  <2>1. (Within(todo) => Within(more))
    <3> SUFFICES ASSUME Within(todo) PROVE Within(more)
      OBVIOUS
    <3>1. todo # <<>>
      BY DEF Within
    <3>2. more # <<>> /\ Head(more) = Head(todo)
      BY <1>6, <3>1
    <3> QED
      BY <3>2 DEF Within
  <2>2. Within(more)' = Within(more)
    BY <1>2 DEF Within
  <2>3. OnScreen(m_data_queue, m_valid_output_data)' = Pictures(done)
    BY <1>1, <1>2 DEF CutAt
  <2>4. (m_sequence_builder \o (input_string \o wire))' = Chars(more)
    BY <1>2, <1>3, <1>9
  <2> QED
    BY <1>1, <1>2, <1>8, <2>1, <2>2, <2>3, <2>4 DEF CutAt
<1> QED
  BY <1>5, <1>7, <1>10 DEF StreamInv

LEMMA StreamBeginDecode ==
    ASSUME ItemsArePlain, StreamInv, TypeOK', BeginDecode
    PROVE  StreamInv'
<1>1. PICK done \in Seq(Items), todo \in Seq(Items) : CutAt(done, todo)
  BY DEF StreamInv
<1>2. PICK n \in 1 .. MaxChunk :
         /\ n <= Len(wire)
         /\ input_string' = RemoveDoubleEsc(SubSeq(wire, 1, n))
         /\ wire' = SubSeq(wire, n + 1, Len(wire))
  BY DEF BeginDecode
<1>3. /\ ~decoding /\ decoding' = TRUE
      /\ UNCHANGED <<m_sequence_state, m_sequence_level, m_sequence_builder,
                     m_valid_output_data, m_data_queue, sent>>
  BY DEF BeginDecode, decoder
<1>4. input_string = <<>> /\ wire \in Seq(Characters) /\ NoDouble(wire)
  BY <1>3 DEF StreamInv, StreamTypeOK
<1>5. PICK a, b, w : /\ w = wire /\ a = SubSeq(w, 1, n) /\ b = SubSeq(w, n + 1, Len(w))
  OBVIOUS
<1>6. /\ a \in Seq(Characters) /\ b \in Seq(Characters) /\ a \o b = w
      /\ RemoveDoubleEsc(a) = a /\ NoDouble(b)
  <2>1. n \in Nat /\ n <= Len(w) /\ w \in Seq(Characters) /\ NoDouble(w)
    BY <1>2, <1>4, <1>5, DecoderAssumption
  <2>2. a = SubSeq(w, 1, n) /\ b = SubSeq(w, n + 1, Len(w))
    BY <1>5
  <2> QED
    BY ONLY <2>1, <2>2, NoDoubleCut, ZenonT(40)
<1>7. input_string' = a /\ wire' = b
  BY <1>2, <1>5, <1>6
<1>8. StreamTypeOK'
  BY <1>3, <1>6, <1>7 DEF StreamInv, StreamTypeOK
<1>9. (m_sequence_builder \o (input_string \o wire))' = Chars(todo)
  <2>1. <<>> \o w = w
    BY <1>4, <1>5
  <2>2. m_sequence_builder \o w = Chars(todo)
    BY <1>1, <1>4, <1>5, <2>1 DEF CutAt
  <2> QED
    BY <1>3, <1>6, <1>7, <2>2
<1>10. CutAt(done, todo)'
  <2>1. Within(todo)' = Within(todo)
    BY <1>3 DEF Within
  <2>2. OnScreen(m_data_queue, m_valid_output_data)' = Pictures(done)
    BY <1>1, <1>3 DEF CutAt
  <2> QED
    BY <1>1, <1>3, <1>9, <2>1, <2>2 DEF CutAt
<1> QED
  BY <1>8, <1>10 DEF StreamInv

LEMMA StreamEndDecode ==
    ASSUME ItemsArePlain, StreamInv, TypeOK', EndDecode
    PROVE  StreamInv'
<1>1. PICK done \in Seq(Items), todo \in Seq(Items) : CutAt(done, todo)
  BY DEF StreamInv
<1>2. /\ input_string = <<>> /\ decoding' = FALSE
      /\ UNCHANGED <<m_sequence_state, m_sequence_level, m_sequence_builder,
                     input_string, wire, sent>>
  BY DEF EndDecode
<1>3. /\ m_data_queue' \in Seq(Message) /\ m_valid_output_data' = <<>>
      /\ OnScreen(m_data_queue, m_valid_output_data)'
           = OnScreen(m_data_queue, m_valid_output_data)
  <2>1. CASE m_sequence_state = "SEQ_NORMAL" /\ m_valid_output_data # <<>>
    <3>1. /\ m_data_queue' = Append(m_data_queue, TextMessage(m_valid_output_data))
          /\ m_valid_output_data' = <<>>
      BY <2>1 DEF EndDecode, Enqueue
    <3>2. /\ Append(m_data_queue, TextMessage(m_valid_output_data)) \in Seq(Message)
          /\ OnScreen(Append(m_data_queue, TextMessage(m_valid_output_data)), <<>>)
               = OnScreen(m_data_queue, m_valid_output_data)
      BY StreamParts, TextIsQueued
    <3> QED
      BY <3>1, <3>2
  <2>2. CASE ~(m_sequence_state = "SEQ_NORMAL" /\ m_valid_output_data # <<>>)
    <3>1. UNCHANGED <<m_data_queue, m_valid_output_data>>
      BY <2>2 DEF EndDecode
    <3>2. m_valid_output_data = <<>>
      BY <2>2, StreamParts DEF TypeOK
    <3> QED
      BY <3>1, <3>2, StreamParts
  <2> QED
    BY <2>1, <2>2
<1>4. StreamTypeOK'
  BY <1>2, <1>3 DEF StreamInv, StreamTypeOK
<1>5. CutAt(done, todo)'
  <2>1. Within(todo)' = Within(todo)
    BY <1>2 DEF Within
  <2> QED
    BY <1>1, <1>2, <1>3, <2>1 DEF CutAt
<1> QED
  BY <1>4, <1>5 DEF StreamInv

(* A step of the loop takes one character.                                 *)
LEMMA OneTaken ==
    ASSUME StreamInv, TypeOK', NEW c \in Characters, NextCharacter(c)
    PROVE  /\ input_string \in Seq(Characters) /\ input_string # <<>> /\ c = Head(input_string)
           /\ input_string' = Tail(input_string)
           /\ wire' = wire /\ sent' = sent
           /\ m_data_queue' \in Seq(Message) => StreamTypeOK'
<1>1. /\ decoding /\ input_string # <<>> /\ c = Head(input_string)
      /\ input_string' = Tail(input_string)
      /\ decoding' = decoding /\ wire' = wire /\ sent' = sent
  BY DEF NextCharacter
<1>2. StreamTypeOK
  BY StreamParts
<1>3. input_string \in Seq(Characters)
  BY StreamParts
<1>4. input_string' \in Seq(Characters)
  BY <1>1, <1>3
<1> QED
  BY <1>1, <1>2, <1>3, <1>4 DEF StreamTypeOK

(* Outside of a sequence, and inside of one.                               *)
LEMMA AtItem ==
    ASSUME ItemsArePlain, StreamInv, NEW done \in Seq(Items), NEW todo \in Seq(Items),
           CutAt(done, todo), input_string # <<>>, m_sequence_state # "SEQ_PROCESSING",
           NEW c, c = Head(input_string)
    PROVE  /\ todo # <<>>
           /\ m_sequence_builder = <<>>
           /\ input_string \o wire = Chars(todo)
           /\ Head(todo).chars[1] = c
           /\ c = ESC => SequenceItem(Head(todo))
           /\ c = BEL => Head(todo).shown = <<>>
           /\ c \notin {ESC, BEL} => Head(todo).shown = Glyphs(<<c>>)
           /\ c # ESC => Tail(input_string) \o wire = Chars(Tail(todo))
<1>1. PICK x, w : x = input_string /\ w = wire
  OBVIOUS
<1>2. x \in Seq(Characters) /\ w \in Seq(Characters) /\ m_sequence_builder = <<>>
  BY <1>1, StreamParts
<1>3. x \o w = Chars(todo)
  <2>1. <<>> \o (x \o w) = Chars(todo)
    BY <1>1, <1>2 DEF CutAt
  <2>2. <<>> \o (x \o w) = x \o w
    BY ONLY <1>2
  <2> QED
    BY ONLY <2>1, <2>2
<1>4. x # <<>> /\ c = Head(x)
  BY <1>1
<1>5. /\ todo # <<>> /\ Head(todo) \in Items /\ Tail(todo) \in Seq(Items)
      /\ c \in Characters
      /\ Head(todo).chars[1] = c
      /\ c = ESC => SequenceItem(Head(todo))
      /\ c = BEL => Head(todo).shown = <<>>
      /\ c \notin {ESC, BEL} => Head(todo).shown = Glyphs(<<c>>)
      /\ c # ESC => Tail(x) \o w = Chars(Tail(todo))
  BY ONLY <1>2, <1>3, <1>4, ItemsArePlain, todo \in Seq(Items), NextItem, ZenonT(40)
<1> QED
  BY <1>1, <1>2, <1>3, <1>5

LEMMA AtInside ==
    ASSUME ItemsArePlain, StreamInv, NEW done \in Seq(Items), NEW todo \in Seq(Items),
           CutAt(done, todo), input_string # <<>>, m_sequence_state = "SEQ_PROCESSING",
           NEW c, c = Head(input_string)
    PROVE  GoesOn(todo, m_sequence_builder, input_string, wire, c, Append(m_sequence_builder, c))
<1>1. PICK b, x, w : b = m_sequence_builder /\ x = input_string /\ w = wire
  OBVIOUS
<1>2. /\ b \in Seq(Characters) /\ x \in Seq(Characters) /\ w \in Seq(Characters) /\ b # <<>>
      /\ x # <<>> /\ c = Head(x)
  BY <1>1, StreamParts
<1>3. /\ todo # <<>> /\ SequenceItem(Head(todo)) /\ Len(b) < Len(Head(todo).chars)
      /\ b \o (x \o w) = Chars(todo)
  BY <1>1 DEF CutAt, Within
<1>4. PICK a : a = Append(b, c)
  OBVIOUS
<1>5. GoesOn(todo, b, x, w, c, a)
  BY ONLY <1>2, <1>3, <1>4, ItemsArePlain, todo \in Seq(Items), NextInside
<1> QED
  BY <1>1, <1>4, <1>5

(* The head of those to do is shown.                                       *)
LEMMA HeadIsDone ==
    ASSUME ItemsArePlain, StreamInv, NEW done \in Seq(Items), NEW todo \in Seq(Items),
           CutAt(done, todo), todo # <<>>, StreamTypeOK', sent' = sent,
           m_sequence_state' # "SEQ_PROCESSING", m_sequence_builder' = <<>>,
           (input_string \o wire)' = Chars(Tail(todo)),
           OnScreen(m_data_queue, m_valid_output_data)'
             = OnScreen(m_data_queue, m_valid_output_data) \o Head(todo).shown
    PROVE  StreamInv'
<1>1. PICK h, e, r : h = Head(todo) /\ e = Append(done, h) /\ r = Tail(todo)
  OBVIOUS
<1>2. /\ e \in Seq(Items) /\ r \in Seq(Items) /\ e \o r = done \o todo
      /\ Pictures(e) = Pictures(done) \o h.shown
  <2>1. h = Head(todo)
    BY <1>1
  <2>2. /\ Append(done, h) \in Seq(Items) /\ Tail(todo) \in Seq(Items)
        /\ Append(done, h) \o Tail(todo) = done \o todo
        /\ Pictures(Append(done, h)) = Pictures(done) \o h.shown
    BY <2>1, NextIsShown
  <2> QED
    BY <1>1, <2>2
<1>3. sent' = e \o r
  BY <1>2 DEF CutAt
<1>4. OnScreen(m_data_queue, m_valid_output_data)' = Pictures(e)
  BY <1>1, <1>2 DEF CutAt
<1>5. (m_sequence_builder \o (input_string \o wire))' = Chars(r)
  <2>1. Chars(r) \in Seq(Characters)
    BY <1>2, StreamTypes
  <2>2. <<>> \o Chars(r) = Chars(r)
    BY <2>1, ConcatEmpty
  <2> QED
    BY <1>1, <2>2
<1>6. CutAt(e, r)'
  BY <1>3, <1>4, <1>5 DEF CutAt
<1> QED
  BY <1>2, <1>6 DEF StreamInv

-----------------------------------------------------------------------------
(* Each character keeps the invariant.                                     *)

LEMMA StreamSkipBell ==
    ASSUME ItemsArePlain, StreamInv, TypeOK', NEW c \in Characters, SkipBell(c)
    PROVE  StreamInv'
<1>1. PICK done \in Seq(Items), todo \in Seq(Items) : CutAt(done, todo)
  BY DEF StreamInv
<1>2. /\ NextCharacter(c) /\ c = BEL
      /\ UNCHANGED <<m_sequence_state, m_sequence_level, m_sequence_builder,
                     m_valid_output_data, m_data_queue>>
  BY DEF SkipBell, decoder
<1>3. /\ input_string # <<>> /\ c = Head(input_string) /\ input_string' = Tail(input_string)
      /\ wire' = wire /\ sent' = sent /\ StreamTypeOK'
  BY <1>2, OneTaken, StreamParts
<1>4. m_sequence_state # "SEQ_PROCESSING"
  <2> SUFFICES ASSUME m_sequence_state = "SEQ_PROCESSING" PROVE FALSE
    OBVIOUS
  <2>1. GoesOn(todo, m_sequence_builder, input_string, wire, c, Append(m_sequence_builder, c))
    BY <1>1, <1>3, AtInside
  <2> QED
    BY <1>2, <2>1 DEF GoesOn
<1>5. /\ todo # <<>> /\ m_sequence_builder = <<>> /\ Head(todo).shown = <<>>
      /\ Tail(input_string) \o wire = Chars(Tail(todo))
  <2>1. c # ESC
    BY <1>2 DEF ESC, BEL
  <2> QED
    BY <1>1, <1>2, <1>3, <1>4, <2>1, AtItem
<1>6. OnScreen(m_data_queue, m_valid_output_data) \o <<>>
        = OnScreen(m_data_queue, m_valid_output_data)
  <2>1. OnScreen(m_data_queue, m_valid_output_data) \in Seq(Unit)
    BY <1>1, StreamTypes DEF CutAt
  <2> QED
    BY <2>1, ConcatEmpty
<1>7. /\ (input_string \o wire)' = Chars(Tail(todo))
      /\ OnScreen(m_data_queue, m_valid_output_data)'
           = OnScreen(m_data_queue, m_valid_output_data) \o Head(todo).shown
  BY <1>2, <1>3, <1>5, <1>6
<1> QED
  BY <1>1, <1>2, <1>3, <1>4, <1>5, <1>7, HeadIsDone

LEMMA StreamNormalText ==
    ASSUME ItemsArePlain, StreamInv, TypeOK', NEW c \in Characters, NormalText(c)
    PROVE  StreamInv'
<1>1. PICK done \in Seq(Items), todo \in Seq(Items) : CutAt(done, todo)
  BY DEF StreamInv
<1>2. /\ NextCharacter(c) /\ c \notin {ESC, BEL} /\ m_sequence_state # "SEQ_PROCESSING"
      /\ m_valid_output_data' = Append(m_valid_output_data, c)
      /\ UNCHANGED <<m_sequence_state, m_sequence_level, m_sequence_builder, m_data_queue>>
  BY DEF NormalText
<1>3. /\ input_string # <<>> /\ c = Head(input_string) /\ input_string' = Tail(input_string)
      /\ wire' = wire /\ sent' = sent /\ StreamTypeOK'
  BY <1>2, OneTaken, StreamParts
<1>4. /\ todo # <<>> /\ m_sequence_builder = <<>> /\ Head(todo).shown = Glyphs(<<c>>)
      /\ Tail(input_string) \o wire = Chars(Tail(todo))
  BY <1>1, <1>2, <1>3, AtItem
<1>5. OnScreen(m_data_queue, Append(m_valid_output_data, c))
        = OnScreen(m_data_queue, m_valid_output_data) \o Glyphs(<<c>>)
  <2>1. PICK e : e = <<c>>
    OBVIOUS
  <2>2. e \in Seq(Characters)
    BY <2>1
  <2>3. m_valid_output_data \in Seq(Characters) /\ m_data_queue \in Seq(Message)
    BY StreamParts
  <2>4. m_valid_output_data \o e = Append(m_valid_output_data, c)
    BY <2>1, <2>3
  <2>5. OnScreen(m_data_queue, m_valid_output_data \o e)
          = OnScreen(m_data_queue, m_valid_output_data) \o Glyphs(e)
    BY <2>2, <2>3, TextGrows
  <2> QED
    BY <2>1, <2>4, <2>5
<1>6. /\ (input_string \o wire)' = Chars(Tail(todo))
      /\ OnScreen(m_data_queue, m_valid_output_data)'
           = OnScreen(m_data_queue, m_valid_output_data) \o Head(todo).shown
  BY <1>2, <1>3, <1>4, <1>5
<1> QED
  BY <1>1, <1>2, <1>3, <1>4, <1>6, HeadIsDone

LEMMA StreamStartSequence ==
    ASSUME ItemsArePlain, StreamInv, TypeOK', NEW c \in Characters, StartSequence(c)
    PROVE  StreamInv'
<1>1. PICK done \in Seq(Items), todo \in Seq(Items) : CutAt(done, todo)
  BY DEF StreamInv
<1>2. /\ NextCharacter(c) /\ c = ESC
      /\ m_data_queue' = Append(m_data_queue, TextMessage(m_valid_output_data))
      /\ m_valid_output_data' = <<>>
      /\ m_sequence_state' = "SEQ_PROCESSING"
      /\ m_sequence_builder' = Append(m_sequence_builder, ESC)
      /\ m_sequence_level' = m_sequence_level
  BY DEF StartSequence, Enqueue
<1>3. /\ m_data_queue' \in Seq(Message)
      /\ OnScreen(m_data_queue, m_valid_output_data)' = Pictures(done)
  <2>1. /\ Append(m_data_queue, TextMessage(m_valid_output_data)) \in Seq(Message)
        /\ OnScreen(Append(m_data_queue, TextMessage(m_valid_output_data)), <<>>)
             = OnScreen(m_data_queue, m_valid_output_data)
    BY StreamParts, TextIsQueued
  <2> QED
    BY <1>1, <1>2, <2>1 DEF CutAt
<1>4. /\ input_string # <<>> /\ c = Head(input_string) /\ input_string' = Tail(input_string)
      /\ wire' = wire /\ sent' = sent /\ StreamTypeOK'
  BY <1>2, <1>3, OneTaken
<1>5. m_sequence_state # "SEQ_PROCESSING"
  <2> SUFFICES ASSUME m_sequence_state = "SEQ_PROCESSING" PROVE FALSE
    OBVIOUS
  <2>1. GoesOn(todo, m_sequence_builder, input_string, wire, c, Append(m_sequence_builder, c))
    BY <1>1, <1>4, AtInside
  <2> QED
    BY <1>2, <2>1 DEF GoesOn
<1>6. /\ todo # <<>> /\ m_sequence_builder = <<>> /\ SequenceItem(Head(todo))
      /\ input_string \o wire = Chars(todo)
  BY <1>1, <1>2, <1>4, <1>5, AtItem
<1>7. PICK e, x, w : e = <<ESC>> /\ x = input_string /\ w = wire
  OBVIOUS
<1>8. /\ m_sequence_builder' = e /\ e \in Seq(Characters) /\ Len(e) = 1 /\ e[1] = ESC
      /\ e # <<>>
  BY <1>2, <1>6, <1>7
<1>9. x \in Seq(Characters) /\ w \in Seq(Characters) /\ x # <<>> /\ ESC = Head(x)
  BY <1>2, <1>4, <1>7, StreamParts
<1>10. e \o (Tail(x) \o w) = Chars(todo)
  <2>1. PICK t : t = Tail(x)
    OBVIOUS
  <2>2. t \in Seq(Characters) /\ e \o t = x
    BY <1>7, <1>9, <2>1
  <2>3. (e \o t) \o w = e \o (t \o w)
    <3>1. e \in Seq(Characters) /\ t \in Seq(Characters) /\ w \in Seq(Characters)
      BY <1>8, <1>9, <2>2
    <3> QED
      BY ONLY <3>1, ConcatAssoc
  <2> QED
    BY <1>6, <1>7, <2>1, <2>2, <2>3
<1>11. Opens(e) /\ LevelOf(e) = 0
  <2>1. 3 .. Len(e) = {} /\ ~(Len(e) >= 2) /\ Len(e) < 2
    BY <1>8
  <2>2. \A k \in 3 .. Len(e) : e[k] \in Parameter
    BY <2>1
  <2>3. Opens(e)
    BY ONLY <1>8, <2>1, <2>2 DEF Opens
  <2>4. LevelOf(e) = 0
    BY ONLY <2>1 DEF LevelOf
  <2> QED
    BY <2>3, <2>4
<1>12. 1 < Len(Head(todo).chars)
  <2>1. PICK s : s = Head(todo).chars
    OBVIOUS
  <2>2. Len(s) >= 2 /\ s \in Seq(Characters)
    <3>1. Head(todo) \in Items
      BY <1>6
    <3> QED
      BY <1>6, <2>1, <3>1, PlainTypes DEF SequenceItem
  <2> QED
    BY <2>1, <2>2
<1>13. Within(todo)'
  <2>1. m_sequence_level' = 0
    BY <1>2, <1>5, StreamParts
  <2> QED
    BY <1>6, <1>8, <1>11, <1>12, <2>1 DEF Within
<1>14. CutAt(done, todo)'
  <2>1. (m_sequence_builder \o (input_string \o wire))' = Chars(todo)
    BY <1>4, <1>7, <1>8, <1>10
  <2>2. sent' = done \o todo
    BY <1>1, <1>4 DEF CutAt
  <2> QED
    BY <1>3, <1>13, <2>1, <2>2 DEF CutAt
<1> QED
  BY <1>4, <1>14 DEF StreamInv

(* Inside of a sequence: what the code tests is what the item has.         *)
LEMMA InsideTested ==
    ASSUME ItemsArePlain, StreamInv, TypeOK', NEW done \in Seq(Items), NEW todo \in Seq(Items),
           CutAt(done, todo), NEW c \in Characters, InSequence(c),
           NEW a, a = Append(m_sequence_builder, c)
    PROVE  /\ todo # <<>> /\ SequenceItem(Head(todo)) /\ m_valid_output_data = <<>>
           /\ GoesOn(todo, m_sequence_builder, input_string, wire, c, a)
           /\ (Completes(c) => Ends(m_sequence_builder, c))
           /\ (Ends(m_sequence_builder, c) => Completes(c))
           /\ Opens(a) => /\ ~IsInvalid(c) /\ ~Completes(c)
                          /\ LevelOf(a) = IF ToNextLevel(c) THEN m_sequence_level + 1
                                                            ELSE m_sequence_level
           /\ ~Opens(a) => (IsInvalid(c) \/ Completes(c)) /\ ~(IsInvalid(c) /\ Completes(c))
<1>1. m_sequence_state = "SEQ_PROCESSING" /\ NextCharacter(c)
  BY DEF InSequence
<1>2. input_string # <<>> /\ c = Head(input_string)
  BY <1>1 DEF NextCharacter
<1>3. /\ todo # <<>> /\ SequenceItem(Head(todo)) /\ Opens(m_sequence_builder)
      /\ m_sequence_level = LevelOf(m_sequence_builder)
  BY <1>1 DEF CutAt, Within
<1>4. GoesOn(todo, m_sequence_builder, input_string, wire, c, a)
  BY <1>1, <1>2, AtInside
<1>5. PICK b : b = m_sequence_builder
  OBVIOUS
<1>6. b \in Seq(Characters) /\ m_valid_output_data = <<>>
  BY <1>1, <1>5, StreamParts
<1>7. /\ (Completes(c) => Ends(b, c)) /\ (Ends(b, c) => Completes(c))
      /\ Opens(a) => /\ ~IsInvalid(c) /\ ~Completes(c)
                     /\ LevelOf(a) = IF ToNextLevel(c) THEN m_sequence_level + 1
                                                       ELSE m_sequence_level
      /\ ~Opens(a) => (IsInvalid(c) \/ Completes(c)) /\ ~(IsInvalid(c) /\ Completes(c))
  <2>1. Opens(b) /\ m_sequence_level = LevelOf(b) /\ a = Append(b, c)
    BY <1>3, <1>5
  <2> QED
    BY ONLY <1>5, <1>6, <2>1, c \in Characters, NextIsTested
<1> QED
  BY <1>3, <1>4, <1>5, <1>6, <1>7

LEMMA StreamContinueSequence ==
    ASSUME ItemsArePlain, StreamInv, TypeOK', NEW c \in Characters, ContinueSequence(c)
    PROVE  StreamInv'
<1>1. PICK done \in Seq(Items), todo \in Seq(Items) : CutAt(done, todo)
  BY DEF StreamInv
<1>2. /\ InSequence(c) /\ ~IsInvalid(c) /\ ~Completes(c) /\ NextCharacter(c)
      /\ m_sequence_builder' = Append(m_sequence_builder, c)
      /\ m_sequence_level' = IF ToNextLevel(c) THEN m_sequence_level + 1
                                               ELSE m_sequence_level
      /\ UNCHANGED <<m_sequence_state, m_valid_output_data, m_data_queue>>
  BY DEF ContinueSequence, InSequence
<1>3. PICK a : a = Append(m_sequence_builder, c)
  OBVIOUS
<1>4. /\ todo # <<>> /\ SequenceItem(Head(todo))
      /\ GoesOn(todo, m_sequence_builder, input_string, wire, c, a)
      /\ Opens(a) => LevelOf(a) = m_sequence_level'
      /\ ~Opens(a) => IsInvalid(c) \/ Completes(c)
  BY <1>1, <1>2, <1>3, InsideTested
<1>5. Opens(a) /\ LevelOf(a) = m_sequence_level'
  BY <1>2, <1>4
<1>6. /\ Len(a) < Len(Head(todo).chars)
      /\ a \o (Tail(input_string) \o wire) = Chars(todo)
  BY <1>4, <1>5 DEF GoesOn
<1>7. /\ input_string' = Tail(input_string) /\ wire' = wire /\ sent' = sent /\ StreamTypeOK'
  BY <1>2, OneTaken, StreamParts
<1>8. Within(todo)'
  BY <1>2, <1>3, <1>4, <1>5, <1>6 DEF Within
<1>9. CutAt(done, todo)'
  <2>1. (m_sequence_builder \o (input_string \o wire))' = Chars(todo)
    BY <1>2, <1>3, <1>6, <1>7
  <2>2. sent' = done \o todo /\ OnScreen(m_data_queue, m_valid_output_data)' = Pictures(done)
    BY <1>1, <1>2, <1>7 DEF CutAt
  <2> QED
    BY <1>8, <2>1, <2>2 DEF CutAt
<1> QED
  BY <1>7, <1>9 DEF StreamInv

LEMMA StreamCompleteSequence ==
    ASSUME ItemsArePlain, StreamInv, TypeOK', NEW c \in Characters, CompleteSequence(c)
    PROVE  StreamInv'
<1>1. PICK done \in Seq(Items), todo \in Seq(Items) : CutAt(done, todo)
  BY DEF StreamInv
<1>2. /\ InSequence(c) /\ Completes(c) /\ NextCharacter(c)
      /\ m_data_queue' = Append(m_data_queue, validateSequence(Append(m_sequence_builder, c)))
      /\ m_sequence_state' # "SEQ_PROCESSING" /\ m_sequence_builder' = <<>>
      /\ m_valid_output_data' = m_valid_output_data
  BY DEF CompleteSequence, InSequence, Enqueue
<1>3. PICK a, h : a = Append(m_sequence_builder, c) /\ h = Head(todo)
  OBVIOUS
<1>4. /\ todo # <<>> /\ SequenceItem(h) /\ m_valid_output_data = <<>>
      /\ GoesOn(todo, m_sequence_builder, input_string, wire, c, a)
      /\ Ends(m_sequence_builder, c) /\ ~Opens(a)
  BY <1>1, <1>2, <1>3, InsideTested
<1>5. /\ a = h.chars /\ m_sequence_builder = Front(a) /\ c = Last(a)
      /\ Tail(input_string) \o wire = Chars(Tail(todo))
  BY <1>3, <1>4 DEF GoesOn
<1>6. h.shown = <<validateSequence(a)>>
  BY <1>4, <1>5 DEF SequenceItem
<1>7. h \in Items
  BY <1>3, <1>4
<1>8. /\ m_data_queue' \in Seq(Message)
      /\ OnScreen(m_data_queue, m_valid_output_data)'
           = OnScreen(m_data_queue, m_valid_output_data) \o h.shown
  <2>1. /\ Append(m_data_queue, validateSequence(a)) \in Seq(Message)
        /\ OnScreen(Append(m_data_queue, validateSequence(a)), <<>>)
             = OnScreen(m_data_queue, <<>>) \o <<validateSequence(a)>>
    <3>1. m_data_queue \in Seq(Message)
      BY StreamParts
    <3> QED
      BY <1>5, <1>7, <3>1, CommandIsQueued
  <2> QED
    BY <1>2, <1>3, <1>4, <1>6, <2>1
<1>9. /\ input_string' = Tail(input_string) /\ wire' = wire /\ sent' = sent /\ StreamTypeOK'
  BY <1>2, <1>8, OneTaken
<1>10. (input_string \o wire)' = Chars(Tail(todo))
  BY <1>5, <1>9
<1> QED
  BY <1>1, <1>2, <1>3, <1>4, <1>8, <1>9, <1>10, HeadIsDone

LEMMA StreamInvalidSequence ==
    ASSUME ItemsArePlain, StreamInv, TypeOK', NEW c \in Characters, InvalidSequence(c)
    PROVE  StreamInv'
<1>1. PICK done \in Seq(Items), todo \in Seq(Items) : CutAt(done, todo)
  BY DEF StreamInv
<1>2. PICK a, h, t : /\ a = Append(m_sequence_builder, c) /\ h = Head(todo)
                     /\ t = SubSeq(a, 4, Len(a))
  OBVIOUS
<1>3. /\ InSequence(c) /\ IsInvalid(c) /\ NextCharacter(c)
      /\ m_valid_output_data' = m_valid_output_data \o t
      /\ m_sequence_state' # "SEQ_PROCESSING" /\ m_sequence_builder' = <<>>
      /\ m_data_queue' = m_data_queue
  BY <1>2 DEF InvalidSequence, InSequence
<1>4. /\ todo # <<>> /\ SequenceItem(h) /\ m_valid_output_data = <<>>
      /\ GoesOn(todo, m_sequence_builder, input_string, wire, c, a)
      /\ ~Completes(c) /\ ~Ends(m_sequence_builder, c) /\ ~Opens(a)
  <2>1. /\ todo # <<>> /\ SequenceItem(h) /\ m_valid_output_data = <<>>
        /\ GoesOn(todo, m_sequence_builder, input_string, wire, c, a)
        /\ (Ends(m_sequence_builder, c) => Completes(c))
        /\ Opens(a) => ~IsInvalid(c)
        /\ ~Opens(a) => ~(IsInvalid(c) /\ Completes(c))
    BY <1>1, <1>2, <1>3, InsideTested
  <2> QED
    BY <1>3, <2>1
<1>5. /\ a = h.chars /\ m_sequence_builder = Front(a) /\ c = Last(a)
      /\ a \in Seq(Characters)
      /\ Tail(input_string) \o wire = Chars(Tail(todo))
  BY <1>2, <1>4 DEF GoesOn
<1>6. h.shown = Glyphs(t)
  BY <1>2, <1>4, <1>5 DEF SequenceItem
<1>7. t \in Seq(Characters)
  BY <1>2, <1>5
<1>8. OnScreen(m_data_queue, m_valid_output_data)'
        = OnScreen(m_data_queue, m_valid_output_data) \o h.shown
  <2>1. m_data_queue \in Seq(Message) /\ m_valid_output_data \in Seq(Characters)
    BY StreamParts
  <2>2. OnScreen(m_data_queue, m_valid_output_data \o t)
          = OnScreen(m_data_queue, m_valid_output_data) \o Glyphs(t)
    BY <1>7, <2>1, TextGrows
  <2> QED
    BY <1>3, <1>6, <2>2
<1>9. /\ input_string' = Tail(input_string) /\ wire' = wire /\ sent' = sent /\ StreamTypeOK'
  BY <1>3, OneTaken, StreamParts
<1>10. (input_string \o wire)' = Chars(Tail(todo))
  BY <1>5, <1>9
<1> QED
  BY <1>1, <1>2, <1>3, <1>4, <1>8, <1>9, <1>10, HeadIsDone

LEMMA StreamInductive ==
    ASSUME ItemsArePlain
    PROVE  /\ Init => StreamInv
           /\ StreamInv /\ [Next]_vars => StreamInv'
<1>1. Init => StreamInv
  BY StreamInit
<1>2. ASSUME StreamInv, [Next]_vars PROVE StreamInv'
  <2>1. TypeOK'
    BY <1>2, StreamParts, TypeInductive
  <2>2. ASSUME NEW item \in Items, ServerSends(item) PROVE StreamInv'
    BY <1>2, <2>1, <2>2, StreamServerSends
  <2>3. CASE BeginDecode
    BY <1>2, <2>1, <2>3, StreamBeginDecode
  <2>4. ASSUME NEW c \in Characters, Decode(c) PROVE StreamInv'
    <3>1. CASE SkipBell(c)
      BY <1>2, <2>1, <3>1, StreamSkipBell
    <3>2. CASE NormalText(c)
      BY <1>2, <2>1, <3>2, StreamNormalText
    <3>3. CASE StartSequence(c)
      BY <1>2, <2>1, <3>3, StreamStartSequence
    <3>4. CASE ContinueSequence(c)
      BY <1>2, <2>1, <3>4, StreamContinueSequence
    <3>5. CASE CompleteSequence(c)
      BY <1>2, <2>1, <3>5, StreamCompleteSequence
    <3>6. CASE InvalidSequence(c)
      BY <1>2, <2>1, <3>6, StreamInvalidSequence
    <3> QED
      BY <2>4, <3>1, <3>2, <3>3, <3>4, <3>5, <3>6 DEF Decode
  <2>5. CASE EndDecode
    BY <1>2, <2>1, <2>5, StreamEndDecode
  <2>6. CASE UNCHANGED vars
    <3>1. UNCHANGED <<m_sequence_state, m_sequence_level, m_sequence_builder,
                      m_valid_output_data, input_string, decoding, m_data_queue, wire, sent>>
      BY <2>6 DEF vars, decoder
    <3>2. PICK done \in Seq(Items), todo \in Seq(Items) : CutAt(done, todo)
      BY <1>2 DEF StreamInv
    <3>3. StreamTypeOK'
      BY <1>2, <2>1, <3>1, StreamParts DEF StreamTypeOK
    <3>4. CutAt(done, todo)'
      BY <3>1, <3>2 DEF CutAt, Within
    <3> QED
      BY <3>3, <3>4 DEF StreamInv
  <2> QED
    BY <1>2, <2>2, <2>3, <2>4, <2>5, <2>6 DEF Next
<1> QED
  BY <1>1, <1>2

-----------------------------------------------------------------------------
(* What the session has is the beginning of what was sent, and all of it   *)
(* when nothing is under way.                                              *)

LEMMA ShownIsThePrefix ==
    ASSUME ItemsArePlain, StreamInv
    PROVE  StreamIsShownInOrder
<1>1. PICK done \in Seq(Items), todo \in Seq(Items) : CutAt(done, todo)
  BY DEF StreamInv
<1>2. PICK d, g, p, r : /\ d = Shown /\ g = Glyphs(m_valid_output_data)
                        /\ p = Pictures(done) /\ r = Pictures(todo)
  OBVIOUS
<1>3. Expected = p \o r
  <2>1. sent = done \o todo
    BY <1>1 DEF CutAt
  <2>2. Expected = Pictures(sent)
    BY StreamParts, ExpectedIsPicture
  <2>3. Pictures(done \o todo) = Pictures(done) \o Pictures(todo)
    BY PicturesConcat
  <2> QED
    BY <1>2, <2>1, <2>2, <2>3
<1>4. p = d \o g
  <2>1. Shown = Drawn(m_data_queue)
    BY StreamParts, ShownIsDrawn
  <2> QED
    BY <1>1, <1>2, <2>1 DEF CutAt, OnScreen
<1>5. d \in Seq(Unit) /\ g \in Seq(Unit) /\ r \in Seq(Unit)
  <2>1. d \in Seq(Unit)
    <3>1. Shown = Drawn(m_data_queue) /\ m_data_queue \in Seq(Message)
      BY StreamParts, ShownIsDrawn
    <3> QED
      BY <1>2, <3>1, MessageMap, FlatMapType DEF Drawn
  <2>2. g \in Seq(Unit)
    BY <1>2, StreamParts, GlyphsType
  <2>3. r \in Seq(Unit)
    BY <1>2, StreamTypes
  <2> QED
    BY <2>1, <2>2, <2>3
<1>6. PICK t : t = g \o r
  OBVIOUS
<1>7. t \in Seq(Unit) /\ Expected = d \o t
  <2>1. t \in Seq(Unit)
    BY ONLY <1>5, <1>6
  <2>2. (d \o g) \o r = d \o (g \o r)
    BY ONLY <1>5, ConcatAssoc
  <2> QED
    BY <1>3, <1>4, <1>6, <2>1, <2>2
<1>8. IsPrefix(d, d \o t)
  BY ONLY <1>5, <1>7, PrefixOfConcat
<1> QED
  BY <1>2, <1>7, <1>8 DEF StreamIsShownInOrder

LEMMA NothingLeft ==
    ASSUME ItemsArePlain, StreamInv
    PROVE  NothingIsHeldBack
<1> SUFFICES ASSUME EverythingWasRead PROVE Shown = Expected
  BY DEF NothingIsHeldBack
<1>1. PICK done \in Seq(Items), todo \in Seq(Items) : CutAt(done, todo)
  BY DEF StreamInv
<1>2. wire = <<>> /\ input_string = <<>> /\ m_valid_output_data = <<>>
  BY DEF EverythingWasRead, StreamInv, StreamTypeOK
<1>3. m_sequence_builder = Chars(todo)
  <2>1. PICK b : b = m_sequence_builder
    OBVIOUS
  <2>2. b \in Seq(Characters)
    BY <2>1, StreamParts
  <2>3. b \o (<<>> \o <<>>) = b
    BY ONLY <2>2
  <2> QED
    BY <1>1, <1>2, <2>1, <2>3 DEF CutAt
<1>4. ASSUME todo # <<>> PROVE FALSE
  <2>1. PICK s, r, b : s = Head(todo).chars /\ r = Chars(Tail(todo)) /\ b = m_sequence_builder
    OBVIOUS
  <2>2. /\ Head(todo) \in Items /\ Tail(todo) \in Seq(Items) /\ b = s \o r
    BY <1>3, <1>4, <2>1, StreamHead
  <2>3. s \in Seq(Characters) /\ s # <<>> /\ r \in Seq(Characters) /\ b \in Seq(Characters)
    BY <2>1, <2>2, PlainTypes, StreamTypes, StreamParts
  <2>4. Len(b) >= Len(s) /\ Len(s) >= 1 /\ Len(s) \in Nat /\ Len(b) \in Nat
    BY ONLY <2>2, <2>3
  <2>5. b # <<>>
    BY ONLY <2>3, <2>4
  <2>6. Within(todo)
    BY <1>1, <2>1, <2>5, StreamParts DEF CutAt
  <2>7. Len(b) < Len(s)
    BY <2>1, <2>6 DEF Within
  <2> QED
    BY ONLY <2>4, <2>7
<1>5. sent = done
  <2>1. done \o <<>> = done
    OBVIOUS
  <2> QED
    BY <1>1, <1>4, <2>1 DEF CutAt
<1>6. Expected = Pictures(done)
  BY <1>5, ExpectedIsPicture
<1>7. Shown = Pictures(done)
  <2>1. Shown = Drawn(m_data_queue) /\ m_data_queue \in Seq(Message)
    BY StreamParts, ShownIsDrawn
  <2>2. PICK d : d = Drawn(m_data_queue)
    OBVIOUS
  <2>3. d \in Seq(Unit)
    BY <2>1, <2>2, MessageMap, FlatMapType DEF Drawn
  <2>4. d \o <<>> = d
    BY ONLY <2>3
  <2> QED
    BY <1>1, <1>2, <2>1, <2>2, <2>4, NoGlyphs DEF CutAt, OnScreen
<1> QED
  BY <1>6, <1>7

(***************************************************************************)
(* When the server sends text, bells, complete sequences and invalid ones, *)
(* in any order and number, text and commands are queued for the session   *)
(* in the order of the stream, none of them left out, wherever the reads   *)
(* cut it (decodeEscSequenceData).                                         *)
(***************************************************************************)
THEOREM StreamInOrder ==
    ASSUME ItemsArePlain
    PROVE  Spec => []StreamIsShownInOrder
<1>1. Init => StreamInv
  BY StreamInductive
<1>2. StreamInv /\ [Next]_vars => StreamInv'
  BY StreamInductive
<1>3. StreamInv => StreamIsShownInOrder
  BY ShownIsThePrefix
<1> QED
  BY <1>1, <1>2, <1>3, PTL DEF Spec

(***************************************************************************)
(* When a call of decodeEscSequenceData returns and the socket is empty,   *)
(* everything that was sent has been queued for the session, whatever the  *)
(* items and wherever the reads cut them.                                  *)
(***************************************************************************)
THEOREM StreamIsComplete ==
    ASSUME ItemsArePlain
    PROVE  Spec => []NothingIsHeldBack
<1>1. Init => StreamInv
  BY StreamInductive
<1>2. StreamInv /\ [Next]_vars => StreamInv'
  BY StreamInductive
<1>3. StreamInv => NothingIsHeldBack
  BY NothingLeft
<1> QED
  BY <1>1, <1>2, <1>3, PTL DEF Spec
=============================================================================
