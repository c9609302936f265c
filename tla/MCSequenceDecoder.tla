--------------------------- MODULE MCSequenceDecoder ---------------------------
(* The items a server sends, for the runs of SequenceDecoder.               *)
EXTENDS SequenceDecoder

Item(chars, shown) == [chars |-> chars, shown |-> shown]
TextItem(c) == Item(<<c>>, <<[char |-> c]>>)

PlainItems ==
    {TextItem("m"),
     Item(<<BEL>>, <<>>),
     Item(<<ESC, "D">>, <<Command("D", "none", <<>>)>>),
     Item(<<ESC, "[", "m">>, <<Command("[", "m", <<>>)>>),
     Item(<<ESC, "[", "1", ";", "3", "m">>, <<Command("[", "m", <<1, 3>>)>>),
     Item(<<ESC, "[", ";", "5", "H">>, <<Command("[", "H", <<-1, 5>>)>>),
     Item(<<ESC, "[", "?", "7", "h">>, <<Command("[", "h", <<DecPrivate, 7>>)>>),
     Item(<<ESC, "[", "0", ";", "4", "0", " ", "D">>, <<Command("[", "D", <<0, 40>>)>>),
     Item(<<ESC, "[", "0", "+">>, <<[char |-> "+"]>>)}

ASSUME Items = PlainItems => ItemsArePlain

\* Two sequences, the first of them given up before it is complete.
GivenUpItems ==
    {TextItem("m"),
     Item(<<ESC, "[", "1", ESC, "[", "m">>, <<Command("[", "m", <<>>)>>)}

\* A sequence whose ESC comes twice.
DoubleEscItems ==
    {TextItem("m"),
     Item(<<ESC, ESC, "[", "m">>, <<Command("[", "m", <<>>)>>)}
===============================================================================
