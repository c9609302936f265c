----------------------------- MODULE PipeCodes -----------------------------
(***************************************************************************)
(* The codes of BBS software in a text, |09 for a colour or |CS to clear   *)
(* the screen, and how SessionIO turns them into escape sequences:         *)
(* parseToCodeMap looks for the codes with a regular expression and notes  *)
(* where they are, parseCodeMap replaces them.                             *)
(*                                                                         *)
(* A text is a sequence of characters.  Codes that a program may add       *)
(* (m_mapped_codes) are left out: addMCIMapping is called by tests only.   *)
(***************************************************************************)
EXTENDS Naturals, Sequences, SequencesExt

Digits  == {"0", "1", "2", "3", "4", "5", "6", "7", "8", "9"}
Letters == {"A", "B", "C", "D", "F", "O", "R", "S", "U", "X", "Y"}

Value ==
    [d \in Digits |-> CHOOSE n \in 0 .. 9 :
        d = <<"0", "1", "2", "3", "4", "5", "6", "7", "8", "9">>[n + 1]]
Numeral(n) ==
    LET digit(k) == CHOOSE d \in Digits : Value[d] = k
    IN  IF n < 10 THEN <<digit(n)>> ELSE <<digit(n \div 10), digit(n % 10)>>

Spaces(n) == [i \in 1 .. n |-> " "]
CSI(s) == <<"ESC", "[">> \o s

-----------------------------------------------------------------------------
(* The expressions.  A shape is a sequence of classes of characters.       *)

Class ==
    [bar |-> {"|"}, percent |-> {"%"}, digit |-> Digits, letter |-> Letters,
     x |-> {"X"}, y |-> {"Y"}]

Shape(classes, match) == [classes |-> classes, match |-> match]

\* STD_EXPRESSION: the alternatives of the expression in its order, those with
\* a repeat spelled out, longest first.  Group 5, %%FILE.EXT, is left out: it
\* is found and nothing replaces it.
STD_EXPRESSION ==
    << Shape(<<"bar", "digit", "digit">>, 1),
       Shape(<<"bar", "x", "y", "digit", "digit", "digit", "digit">>, 2),
       Shape(<<"bar", "letter", "letter", "digit", "digit">>, 3),
       Shape(<<"bar", "letter", "letter", "digit">>, 3),
       Shape(<<"bar", "letter", "digit", "digit">>, 3),
       Shape(<<"bar", "letter", "digit">>, 3),
       Shape(<<"bar", "letter", "letter">>, 4),
       Shape(<<"percent", "letter", "letter">>, 6),
       Shape(<<"percent", "digit", "digit">>, 7) >>

\* COLOR_EXPRESSION, for the hosts whose entry says use_pipe_colors.
COLOR_EXPRESSION == << Shape(<<"bar", "digit", "digit">>, 1) >>

Fits(text, i, shape) ==
    /\ i + Len(shape.classes) - 1 <= Len(text)
    /\ \A j \in DOMAIN shape.classes : text[i + j - 1] \in Class[shape.classes[j]]

\* The codes that start at i; the first alternative that fits is the one.
CodeAt(text, i, expression) ==
    LET fitting == {k \in DOMAIN expression : Fits(text, i, expression[k])}
        found == expression[Min(fitting)]
        length == Len(found.classes)
    IN  IF fitting = {} THEN <<>>
        ELSE << [m_offset |-> i, m_length |-> length, m_match |-> found.match,
                 m_code |-> SubSeq(text, i, i + length - 1)] >>

\* parseToCodeMap: one search after the other, each from the end of the last.
parseToCodeMap(text, expression) ==
    LET from[i \in 1 .. Len(text) + 1] ==
            IF i = Len(text) + 1 THEN <<>>
            ELSE LET code == CodeAt(text, i, expression) IN
                 IF code = <<>> THEN from[i + 1]
                 ELSE code \o from[i + code[1].m_length]
    IN  from[1]

-----------------------------------------------------------------------------
(* What stands for a code.                                                 *)

\* The colours of a PC screen in the order of ANSI.
AnsiColour == <<"0", "4", "2", "6", "1", "5", "3", "7">>

pipeReplaceForground(n) ==
    CSI(<<IF n < 8 THEN "0" ELSE "1", ";", "3", AnsiColour[(n % 8) + 1], "m">>)
pipeReplaceBackground(n) == CSI(<<"4", AnsiColour[n - 15], "m">>)

pipeColors(code) ==
    LET n == 10 * Value[code[2]] + Value[code[3]]
    IN  CASE n < 16            -> pipeReplaceForground(n)
          [] n >= 16 /\ n < 24 -> pipeReplaceBackground(n)
          [] OTHER             -> Spaces(3)

\* One letter and a number move the cursor; anything else stays as it is.
Movement == [U |-> "A", D |-> "B", F |-> "C", B |-> "D", X |-> "G"]

seperatePipeWithCharsDigits(code) ==
    LET digits == SubSeq(code, 3, Len(code))
        n == FoldLeft(LAMBDA sum, d : 10 * sum + Value[d], 0, digits)
    IN  IF code[3] \notin Digits \/ code[2] \notin DOMAIN Movement THEN code
        ELSE CSI((IF n <= 1 THEN <<>> ELSE Numeral(n)) \o <<Movement[code[2]]>>)

ClearScreen == CSI(<<"2", "J">>) \o CSI(<<"1", ";", "1", "H">>)

parsePipeWithChars(code) ==
    CASE code[2] \in {"C", "D"} /\ code[3] = "S" -> ClearScreen
      [] code[2] \in {"C", "D"} /\ code[3] = "R" -> <<"CR", "LF">>
      [] OTHER                                   -> Spaces(3)

Replacement(code) ==
    CASE code.m_match = 1 -> pipeColors(code.m_code)
      [] code.m_match = 2 -> Spaces(7)
      [] code.m_match = 3 -> seperatePipeWithCharsDigits(code.m_code)
      [] code.m_match = 4 -> parsePipeWithChars(code.m_code)
      [] OTHER            -> Spaces(3)

ReplaceCode(text, code) ==
    SubSeq(text, 1, code.m_offset - 1) \o Replacement(code)
        \o SubSeq(text, code.m_offset + code.m_length, Len(text))

\* Faulty: the first code is replaced first, and moves those after it.
parseCodeMapForward(text, codes) == FoldLeft(ReplaceCode, text, codes)

\* parseCodeMap: the last code first, so that the offsets stay right.
parseCodeMap(text, codes) ==
    LET replaced[k \in 1 .. Len(codes) + 1] ==
            IF k = Len(codes) + 1 THEN text ELSE ReplaceCode(replaced[k + 1], codes[k])
    IN  replaced[1]

pipe2ansi(text) == parseCodeMap(text, parseToCodeMap(text, STD_EXPRESSION))
pipeColors2ansi(text) == parseCodeMap(text, parseToCodeMap(text, COLOR_EXPRESSION))

-----------------------------------------------------------------------------
\* What it comes to: the text is read from left to right, a code is shown as
\* what stands for it, anything else as it is.
AsRead(text, expression) ==
    LET from[i \in 1 .. Len(text) + 1] ==
            IF i = Len(text) + 1 THEN <<>>
            ELSE LET code == CodeAt(text, i, expression) IN
                 IF code = <<>> THEN <<text[i]>> \o from[i + 1]
                 ELSE Replacement(code[1]) \o from[i + code[1].m_length]
    IN  from[1]
=============================================================================
