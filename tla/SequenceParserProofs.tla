------------------------- MODULE SequenceParserProofs -------------------------
(***************************************************************************)
(* Theorems about SequenceParser, for every size of the screen, every wrap *)
(* column and every set of commands; and about the colours of the same     *)
(* class (GraphicsMode), for every set of hues.                            *)
(***************************************************************************)
EXTENDS SequenceParser, GraphicsMode, DataInduction, TLAPS

Coordinate == Nat \ {0}
Surfaces == [Rows -> [Columns -> Cells]]
Buffers == [Positions -> Cells]

LEMMA SizeType == Size \in Nat /\ Width \in Coordinate /\ Height \in Coordinate
  BY ScreenAssumption DEF ScreenAssumption, Size, Coordinate

----------------------------------------------------------------------------
(* What the helpers return.                                                *)

LEMMA LimitTypes ==
    ASSUME NEW n \in Int, NEW limit \in Coordinate
    PROVE  /\ AtLeastOne(n) \in Int /\ AtMost(n, limit) \in Int
           /\ Within(n, limit) \in Int /\ OneBack(n) \in Int /\ OneIfZero(n) \in Int
  BY DEF AtLeastOne, AtMost, Within, OneBack, OneIfZero, Coordinate

LEMMA NumberType ==
    ASSUME NEW c \in Commands
    PROVE  /\ c.numbers \in Seq(Int)
           /\ \A k \in 1..Len(c.numbers) : c.numbers[k] \in Int
  <1>1. c.numbers \in Seq(Nat \union {-1})
    BY ScreenAssumption DEF ScreenAssumption
  <1> QED
    BY ONLY <1>1

LEMMA CountType ==
    ASSUME NEW c \in Commands
    PROVE  Count(c) \in Int
  <1>1. CASE c.numbers = <<>>
    BY <1>1 DEF Count
  <1>2. CASE c.numbers # <<>>
    <2>1. 1 \in 1..Len(c.numbers)
      BY <1>2, NumberType
    <2>2. Count(c) = OneIfZero(c.numbers[1])
      BY <1>2 DEF Count
    <2> QED
      BY <2>1, <2>2, NumberType DEF OneIfZero
  <1> QED
    BY <1>1, <1>2

LEMMA BackType ==
    ASSUME NEW c \in Commands, NEW position \in Int
    PROVE  Back(c, position) \in Int
  BY CountType DEF Back, OneBack, AtLeastOne

LEMMA BlankTypes ==
    Blank \in Cells /\ BlankRow \in [Columns -> Cells]
    /\ BlankSurface \in Surfaces /\ BlankBuffer \in Buffers
  BY DEF Cells, BlankRow, BlankSurface, BlankBuffer, Surfaces, Buffers

LEMMA ScrollRowsType ==
    ASSUME NEW s \in Surfaces, NEW top \in Int, NEW bottom \in Int, bottom <= Height
    PROVE  ScrollRows(s, top, bottom) \in Surfaces
  <1> SUFFICES ASSUME NEW r \in Rows
               PROVE  ScrollRows(s, top, bottom)[r] \in [Columns -> Cells]
    BY DEF ScrollRows, Surfaces
  <1>1. r \in top..bottom /\ r < bottom => r + 1 \in Rows
    BY SizeType DEF Rows, Coordinate
  <1> QED
    BY <1>1, BlankTypes DEF ScrollRows, Surfaces

LEMMA ScrolledBufferType ==
    ASSUME m_screen_buffer \in Buffers
    PROVE  ScrolledBuffer \in Buffers
  <1> SUFFICES ASSUME NEW i \in Positions
               PROVE  ScrolledBuffer[i] \in Cells
    BY DEF ScrolledBuffer, Buffers
  <1>1. i + Width < Size => i + Width \in Positions
    BY SizeType DEF Positions, Coordinate
  <1> QED
    BY <1>1, BlankTypes DEF ScrolledBuffer, Buffers

LEMMA DrawType ==
    ASSUME NEW s \in Surfaces, NEW x, NEW y, NEW g \in Cells
    PROVE  Draw(s, x, y, g) \in Surfaces
  BY DEF Draw, Surfaces

LEMMA SetScreenBufferType ==
    ASSUME NEW b \in Buffers, NEW x, NEW y, NEW g \in Cells
    PROVE  SetScreenBuffer(b, x, y, g) \in Buffers
  BY DEF SetScreenBuffer, Buffers

LEMMA ClearTypes ==
    ASSUME NEW y, NEW from, NEW to
    PROVE  /\ \A s \in Surfaces : ClearLine(s, y, from, to) \in Surfaces
           /\ \A b \in Buffers : ClearRange(b, y, from, to) \in Buffers
  BY BlankTypes DEF ClearLine, ClearRange, Surfaces, Buffers

----------------------------------------------------------------------------
(* The inductive invariant: TypeOK in parts. No margin is below the last   *)
(* row, which keeps ScrollRows on the screen.                              *)

CursorTyped == m_x_position \in Int /\ m_y_position \in Int
ScreenTyped == surface \in Surfaces /\ m_screen_buffer \in Buffers
HistoryTyped ==
    /\ undefined \in {"none", "scroll", "erase"}
    /\ typed \in [glyphs : Seq(Cells), ordered : BOOLEAN]
    /\ inStep \in BOOLEAN
RegionTyped ==
    /\ region \in [active : BOOLEAN, top : Int, bottom : Int]
    /\ region.bottom <= Height
ModesTyped ==
    /\ m_is_line_wrapped \in BOOLEAN
    /\ saved \in [x : Int, y : Int]
    /\ m_write_queue \in Seq([row : Int, column : Int])
RepeatTyped == m_preceeding_sequence \in Cells \union Formats /\ repeat \in Nat
InputsTyped == inputs \in 0..MaxInputs

TextTyped == CursorTyped /\ ScreenTyped /\ HistoryTyped
IInv == TextTyped /\ RegionTyped /\ ModesTyped /\ RepeatTyped /\ InputsTyped

LEMMA IInvType == IInv => TypeOK
  BY DEF IInv, TextTyped, CursorTyped, ScreenTyped, HistoryTyped, RegionTyped, ModesTyped,
         RepeatTyped, InputsTyped, TypeOK, Coordinate, Surfaces, Buffers

LEMMA HistoryTypes ==
    /\ Unordered \in [glyphs : Seq(Cells), ordered : BOOLEAN]
    /\ NothingTyped \in [glyphs : Seq(Cells), ordered : BOOLEAN]
  <1>1. <<>> \in Seq(Cells)
    OBVIOUS
  <1>2. TRUE \in BOOLEAN /\ FALSE \in BOOLEAN
    OBVIOUS
  <1> QED
    BY <1>1, <1>2 DEF Unordered, NothingTyped

LEMMA InitTyped == Init => IInv
  <1> SUFFICES ASSUME Init PROVE IInv
    OBVIOUS
  <1>1. CursorTyped /\ ScreenTyped
    BY BlankTypes DEF Init, CursorTyped, ScreenTyped, Coordinate
  <1>2. HistoryTyped
    BY HistoryTypes DEF Init, HistoryTyped
  <1>3. RegionTyped
    BY SizeType DEF Init, RegionTyped, Coordinate
  <1>4. ModesTyped
    <2>1. m_write_queue \in Seq([row : Int, column : Int])
      BY DEF Init
    <2>2. saved \in [x : Int, y : Int]
      BY DEF Init, Coordinate
    <2>3. m_is_line_wrapped \in BOOLEAN
      BY DEF Init
    <2> QED
      BY <2>1, <2>2, <2>3 DEF ModesTyped
  <1>5. RepeatTyped /\ InputsTyped
    BY BlankTypes, ScreenAssumption DEF Init, RepeatTyped, InputsTyped, ScreenAssumption
  <1> QED
    BY <1>1, <1>2, <1>3, <1>4, <1>5 DEF IInv, TextTyped

----------------------------------------------------------------------------
(* The characters of textInput.                                            *)

LEMMA ScrolledTypes ==
    ASSUME IInv
    PROVE  ScrolledSurface \in Surfaces /\ ScrolledBuffer \in Buffers
  <1>1. ScrolledSurface \in Surfaces
    <2> USE DEF IInv, TextTyped, ScreenTyped, RegionTyped
    <2>1. CASE region.active
      BY <2>1, ScrollRowsType DEF ScrolledSurface
    <2>2. CASE ~region.active
      BY <2>2, ScrollRowsType, SizeType DEF ScrolledSurface, Coordinate
    <2> QED
      BY <2>1, <2>2
  <1>2. ScrolledBuffer \in Buffers
    BY ScrolledBufferType DEF IInv, TextTyped, ScreenTyped
  <1> QED
    BY <1>1, <1>2

LEMMA FormFeedStep == ASSUME IInv, FormFeed PROVE TextTyped'
  <1>1. CursorTyped' /\ ScreenTyped'
    BY BlankTypes DEF FormFeed, CursorTyped, ScreenTyped, Coordinate
  <1>2. HistoryTyped'
    BY HistoryTypes DEF FormFeed, IInv, TextTyped, HistoryTyped
  <1> QED
    BY <1>1, <1>2 DEF TextTyped

LEMMA BackSpaceStep == ASSUME IInv, BackSpace PROVE TextTyped'
  <1> USE DEF IInv, TextTyped
  <1>1. CursorTyped'
    BY DEF BackSpace, CursorTyped, Coordinate
  <1>2. ScreenTyped'
    BY DEF BackSpace, ScreenTyped, screen
  <1>3. HistoryTyped'
    BY HistoryTypes DEF BackSpace, HistoryTyped
  <1> QED
    BY <1>1, <1>2, <1>3

LEMMA CarriageReturnStep == ASSUME IInv, CarriageReturn PROVE TextTyped'
  <1> USE DEF IInv, TextTyped
  <1>1. CursorTyped'
    BY DEF CarriageReturn, CursorTyped, RowsDown, Coordinate
  <1>2. ScreenTyped'
    BY DEF CarriageReturn, ScreenTyped, screen
  <1>3. HistoryTyped'
    BY HistoryTypes DEF CarriageReturn, HistoryTyped
  <1> QED
    BY <1>1, <1>2, <1>3

LEMMA NewLineStep == ASSUME IInv, NewLine PROVE TextTyped'
  <1> USE DEF IInv, TextTyped
  <1>1. CursorTyped'
    BY SizeType DEF NewLine, CursorTyped, RegionTyped, RowsDown, Coordinate
  <1>2. ScreenTyped'
    BY ScrolledTypes DEF NewLine, ScreenTyped
  <1>3. undefined' \in {"none", "scroll", "erase"}
    BY DEF NewLine, HistoryTyped
  <1>4. typed' \in [glyphs : Seq(Cells), ordered : BOOLEAN]
    BY DEF NewLine, HistoryTyped
  <1>5. inStep' \in BOOLEAN
    BY ZenonT(30) DEF NewLine
  <1> QED
    BY <1>1, <1>2, <1>3, <1>4, <1>5 DEF HistoryTyped

LEMMA GlyphStep ==
    ASSUME IInv, NEW g \in Cells, Glyph(g)
    PROVE  TextTyped'
  <1> USE DEF IInv, TextTyped
  <1>1. CursorTyped'
    <2>1. RowOf \in Int /\ ColumnOf \in Int
      BY DEF RowOf, ColumnOf, CursorTyped
    <2>2. region.bottom \in Int
      BY DEF RegionTyped
    <2> QED
      BY <2>1, <2>2, SizeType DEF Glyph, CursorTyped, Coordinate
  <1>2. ScreenTyped'
    <2>1. surface' \in Surfaces
      BY ScrolledTypes, DrawType DEF Glyph, ScreenTyped
    <2>2. m_screen_buffer' \in Buffers
      BY ScrolledTypes, SetScreenBufferType DEF Glyph, ScreenTyped
    <2> QED
      BY <2>1, <2>2 DEF ScreenTyped
  <1>3. undefined' \in {"none", "scroll", "erase"}
    BY DEF Glyph, HistoryTyped
  <1>4. typed' \in [glyphs : Seq(Cells), ordered : BOOLEAN]
    <2>1. typed.glyphs \in Seq(Cells) /\ typed.ordered \in BOOLEAN
      BY DEF HistoryTyped
    <2>2. Append(typed.glyphs, g) \in Seq(Cells)
      BY ONLY <2>1, g \in Cells
    <2> QED
      BY <2>2 DEF Glyph, HistoryTyped
  <1>5. inStep' \in BOOLEAN
    BY ZenonT(30) DEF Glyph
  <1> QED
    BY <1>1, <1>2, <1>3, <1>4, <1>5 DEF HistoryTyped

LEMMA CharacterStep ==
    ASSUME IInv, NEW ch, Character(ch)
    PROVE  TextTyped'
  BY FormFeedStep, BackSpaceStep, CarriageReturnStep, NewLineStep, GlyphStep DEF Character

----------------------------------------------------------------------------
(* The commands of sequenceInput.                                          *)

LEMMA NextInputStep == ASSUME IInv, NextInput PROVE InputsTyped'
  BY ScreenAssumption DEF NextInput, IInv, InputsTyped, ScreenAssumption

LEMMA ModesKept == ASSUME IInv, UNCHANGED <<modes, m_write_queue>>
                   PROVE  RegionTyped' /\ ModesTyped'
  BY DEF IInv, RegionTyped, ModesTyped, modes

LEMMA MoveToStep ==
    ASSUME IInv, NEW x \in Int, NEW y \in Int, MoveTo(x, y), NextInput
    PROVE  IInv'
  <1>1. CursorTyped'
    BY DEF MoveTo, CursorTyped
  <1>2. ScreenTyped'
    BY DEF MoveTo, KeepsScreen, screen, IInv, TextTyped, ScreenTyped
  <1>3. HistoryTyped'
    BY HistoryTypes DEF MoveTo, KeepsScreen, IInv, TextTyped, HistoryTyped
  <1>4. RegionTyped' /\ ModesTyped'
    BY ModesKept DEF MoveTo
  <1>5. RepeatTyped'
    BY DEF MoveTo, KeepsText, IInv, RepeatTyped
  <1> QED
    BY <1>1, <1>2, <1>3, <1>4, <1>5, NextInputStep DEF IInv, TextTyped

\* The commands that only move the cursor.
MoveCommand(c) ==
    \/ CursorUp(c) \/ CursorDown(c) \/ CursorForward(c) \/ CursorBackward(c)
    \/ CursorNextLine(c) \/ CursorPrevLine(c) \/ CursorXPosition(c)
    \/ CursorPosition(c) \/ LinePosAbsolute(c) \/ RestoreCursorPos(c)
    \/ ControlDown(c) \/ ControlUp(c)

LEMMA CursorPositionStep ==
    ASSUME IInv, NEW c \in Commands, CursorPosition(c)
    PROVE  IInv'
  <1>1. NextInput /\ m_y_position \in Int
    BY DEF CursorPosition, IsCommand, IInv, TextTyped, CursorTyped
  <1>2. Within(Count(c), Height) \in Int
    BY CountType, LimitTypes, SizeType
  <1>3. CASE Len(c.numbers) <= 1
    <2>1. MoveTo(1, Within(Count(c), Height))
      BY <1>3 DEF CursorPosition
    <2> QED
      BY <1>1, <1>2, <2>1, MoveToStep
  <1>4. CASE ~(Len(c.numbers) <= 1)
    <2>1. OneIfZero(c.numbers[2]) \in Int
      <3>1. 2 \in 1..Len(c.numbers)
        BY <1>4, NumberType
      <3> QED
        BY <3>1, NumberType, LimitTypes, SizeType
    <2>2. CASE Len(c.numbers) = 2 /\ c.numbers[1] = -1
      <3>1. MoveTo(AtMost(OneIfZero(c.numbers[2]), Width), m_y_position)
        BY <1>4, <2>2 DEF CursorPosition
      <3>2. AtMost(OneIfZero(c.numbers[2]), Width) \in Int
        BY <2>1, LimitTypes, SizeType
      <3> QED
        BY <1>1, <3>1, <3>2, MoveToStep
    <2>3. CASE ~(Len(c.numbers) = 2 /\ c.numbers[1] = -1)
      <3>1. MoveTo(Within(OneIfZero(c.numbers[2]), Width), Within(Count(c), Height))
        BY <1>4, <2>3 DEF CursorPosition
      <3>2. Within(OneIfZero(c.numbers[2]), Width) \in Int
        BY <2>1, LimitTypes, SizeType
      <3> QED
        BY <1>1, <1>2, <3>1, <3>2, MoveToStep
    <2> QED
      BY <2>2, <2>3
  <1> QED
    BY <1>3, <1>4

LEMMA MoveCommandStep ==
    ASSUME IInv, NEW c \in Commands, MoveCommand(c)
    PROVE  IInv'
  <1>1. m_x_position \in Int /\ m_y_position \in Int /\ saved.x \in Int /\ saved.y \in Int
    BY DEF IInv, TextTyped, CursorTyped, ModesTyped
  <1>2. Width \in Coordinate /\ Height \in Coordinate
    BY SizeType
  <1>3. Count(c) \in Int
    BY CountType
  <1>4. m_x_position + Count(c) \in Int /\ m_y_position + Count(c) \in Int
    BY <1>1, <1>3
  <1>5. Back(c, m_x_position) \in Int /\ Back(c, m_y_position) \in Int
    BY <1>1, BackType
  <1>6. /\ AtMost(m_x_position + Count(c), Width) \in Int
        /\ AtMost(m_y_position + Count(c), Height) \in Int
        /\ Within(Count(c), Width) \in Int
        /\ OneBack(m_y_position) \in Int
    BY <1>1, <1>2, <1>3, <1>4, LimitTypes
  <1>7. 1 \in Int
    OBVIOUS
  <1>8. CASE CursorUp(c)
    BY <1>1, <1>5, <1>8, MoveToStep DEF CursorUp, IsCommand
  <1>9. CASE CursorDown(c)
    BY <1>1, <1>6, <1>9, MoveToStep DEF CursorDown, IsCommand
  <1>10. CASE CursorForward(c)
    BY <1>1, <1>6, <1>10, MoveToStep DEF CursorForward, IsCommand
  <1>11. CASE CursorBackward(c)
    BY <1>1, <1>5, <1>11, MoveToStep DEF CursorBackward, IsCommand
  <1>12. CASE CursorNextLine(c)
    BY <1>1, <1>6, <1>7, <1>12, MoveToStep DEF CursorNextLine, IsCommand
  <1>13. CASE CursorPrevLine(c)
    <2>1. c.numbers # <<>> => AtLeastOne(m_y_position - c.numbers[1]) \in Int
      <3>1. c.numbers # <<>> => c.numbers[1] \in Int
        BY NumberType
      <3> QED
        BY <1>1, <3>1 DEF AtLeastOne
    <2> QED
      BY <1>6, <1>7, <1>13, <2>1, MoveToStep DEF CursorPrevLine, IsCommand
  <1>14. CASE CursorXPosition(c)
    BY <1>1, <1>6, <1>14, MoveToStep DEF CursorXPosition, IsCommand
  <1>15. CASE CursorPosition(c)
    BY <1>15, CursorPositionStep
  <1>16. CASE LinePosAbsolute(c)
    BY <1>3, <1>7, <1>16, MoveToStep DEF LinePosAbsolute, IsCommand
  <1>17. CASE RestoreCursorPos(c)
    BY <1>1, <1>17, MoveToStep DEF RestoreCursorPos, IsCommand
  <1>18. CASE ControlDown(c)
    <2>1. m_y_position + 1 \in Int
      BY <1>1
    <2> QED
      BY <1>1, <1>18, <2>1, MoveToStep DEF ControlDown, IsCommand
  <1>19. CASE ControlUp(c)
    BY <1>1, <1>6, <1>19, MoveToStep DEF ControlUp, IsCommand
  <1> QED
    BY <1>8, <1>9, <1>10, <1>11, <1>12, <1>13, <1>14, <1>15, <1>16, <1>17, <1>18, <1>19
    DEF MoveCommand

\* The commands that write only the modes.
LEMMA ModeCommandStep ==
    ASSUME IInv, NEW c \in Commands,
           \/ SaveCursorPos(c) \/ ScrollRegion(c) \/ WrapMode(c)
           \/ ReportPosition(c) \/ StartRepeat(c)
    PROVE  IInv'
  <1> USE DEF IInv, TextTyped
  <1>1. InputsTyped'
    BY NextInputStep
    DEF SaveCursorPos, ScrollRegion, WrapMode, ReportPosition, StartRepeat, IsCommand
  <1>2. ScreenTyped'
    BY DEF SaveCursorPos, ScrollRegion, WrapMode, ReportPosition, StartRepeat,
           KeepsScreen, screen, ScreenTyped
  <1>3. undefined' = undefined /\ inStep' = inStep
    BY DEF SaveCursorPos, ScrollRegion, WrapMode, ReportPosition, StartRepeat, KeepsScreen
  <1>4. typed' = typed \/ typed' = Unordered
    BY DEF SaveCursorPos, ScrollRegion, WrapMode, ReportPosition, StartRepeat
  <1>5. HistoryTyped'
    BY <1>3, <1>4, HistoryTypes DEF HistoryTyped
  <1>6. CASE SaveCursorPos(c)
    <2>1. CursorTyped' /\ RegionTyped' /\ RepeatTyped'
      BY <1>6 DEF SaveCursorPos, KeepsText, cursor, CursorTyped, RegionTyped, RepeatTyped
    <2>2. ModesTyped'
      BY <1>6 DEF SaveCursorPos, CursorTyped, ModesTyped
    <2> QED
      BY <1>1, <1>2, <1>5, <2>1, <2>2
  <1>7. CASE ScrollRegion(c)
    <2>1. CursorTyped' /\ ModesTyped' /\ RepeatTyped'
      BY <1>7 DEF ScrollRegion, KeepsText, cursor, CursorTyped, ModesTyped, RepeatTyped,
                  Coordinate
    <2>2. RegionTyped'
      <3>1. ASSUME NEW top \in Int, NEW bottom \in Int, SetScrollRegion(top, bottom)
            PROVE  RegionTyped'
        <4>1. CASE region' = [region EXCEPT !.active = FALSE]
          BY <4>1 DEF RegionTyped
        <4>2. CASE region' = [active |-> TRUE, top |-> top, bottom |-> AtMost(bottom, Height)]
          <5>1. AtMost(bottom, Height) \in Int /\ AtMost(bottom, Height) <= Height
            BY SizeType DEF AtMost, Coordinate
          <5> QED
            BY <4>2, <5>1 DEF RegionTyped
        <4> QED
          BY <3>1, <4>1, <4>2 DEF SetScrollRegion
      <3>2. CASE c.numbers = <<>> /\ SetScrollRegion(0, 0)
        BY <3>1, <3>2
      <3>3. CASE /\ Len(c.numbers) = 2
                 /\ SetScrollRegion(OneIfZero(c.numbers[1]), OneIfZero(c.numbers[2]))
        <4>1. c.numbers[1] \in Int /\ c.numbers[2] \in Int
          BY <3>3, NumberType
        <4>2. OneIfZero(c.numbers[1]) \in Int /\ OneIfZero(c.numbers[2]) \in Int
          BY <4>1 DEF OneIfZero
        <4> QED
          BY <3>1, <3>3, <4>2
      <3> QED
        BY <1>7, <3>2, <3>3 DEF ScrollRegion
    <2> QED
      BY <1>1, <1>2, <1>5, <2>1, <2>2
  <1>8. CASE WrapMode(c)
    <2>1. CursorTyped' /\ RegionTyped' /\ RepeatTyped'
      BY <1>8 DEF WrapMode, KeepsText, cursor, CursorTyped, RegionTyped, RepeatTyped
    <2>2. m_is_line_wrapped' \in BOOLEAN
      BY <1>8, ZenonT(30) DEF WrapMode
    <2>3. ModesTyped'
      BY <1>8, <2>2 DEF WrapMode, ModesTyped
    <2> QED
      BY <1>1, <1>2, <1>5, <2>1, <2>3
  <1>9. CASE ReportPosition(c)
    <2>1. CursorTyped' /\ RegionTyped' /\ RepeatTyped'
      BY <1>9 DEF ReportPosition, KeepsText, cursor, modes, CursorTyped, RegionTyped,
                  RepeatTyped
    <2>2. [row |-> AtMost(m_y_position, Height), column |-> m_x_position]
             \in [row : Int, column : Int]
      BY LimitTypes, SizeType DEF CursorTyped
    <2>3. m_write_queue \in Seq([row : Int, column : Int])
      BY DEF ModesTyped
    <2>4. Append(m_write_queue, [row |-> AtMost(m_y_position, Height),
                                 column |-> m_x_position])
             \in Seq([row : Int, column : Int])
      BY ONLY <2>2, <2>3
    <2>5. ModesTyped'
      BY <1>9, <2>4 DEF ReportPosition, modes, ModesTyped
    <2> QED
      BY <1>1, <1>2, <1>5, <2>1, <2>5
  <1>10. CASE StartRepeat(c)
    <2>1. CursorTyped' /\ RegionTyped' /\ ModesTyped'
      BY <1>10 DEF StartRepeat, cursor, modes, CursorTyped, RegionTyped, ModesTyped
    <2>2. RepeatTyped'
      BY <1>10, CountType DEF StartRepeat, RepeatTyped
    <2> QED
      BY <1>1, <1>2, <1>5, <2>1, <2>2
  <1> QED
    BY <1>6, <1>7, <1>8, <1>9, <1>10

\* The commands that erase.
LEMMA DeleteCharacterStep ==
    ASSUME IInv, NEW c \in Commands, DeleteCharacter(c)
    PROVE  IInv'
  <1> USE DEF IInv, TextTyped
  <1>1. CursorTyped' /\ RepeatTyped' /\ m_screen_buffer' \in Buffers
    BY DEF DeleteCharacter, KeepsText, cursor, CursorTyped, RepeatTyped, ScreenTyped
  <1>2. RegionTyped' /\ ModesTyped'
    BY ModesKept DEF DeleteCharacter
  <1>3. HistoryTyped'
    BY HistoryTypes DEF DeleteCharacter, HistoryTyped
  <1>4. InputsTyped'
    BY NextInputStep DEF DeleteCharacter, IsCommand
  <1>5. surface' \in Surfaces
    <2>1. Count(c) \in Int /\ m_x_position \in Int
      BY CountType DEF CursorTyped
    <2> DEFINE Source(k, overlaps) ==
                  IF Count(c) < 0 /\ overlaps THEN AtLeastOne(m_x_position + Count(c))
                  ELSE k + Count(c)
               Shifted(r, k, overlaps) ==
                  IF k > Width - Count(c) THEN Blank
                  ELSE IF k >= m_x_position /\ k + Count(c) >= 1
                       THEN surface[r][Source(k, overlaps)]
                  ELSE surface[r][k]
    <2>2. \A k \in Columns, overlaps \in BOOLEAN :
             ~(k > Width - Count(c)) /\ k >= m_x_position /\ k + Count(c) >= 1
             => Source(k, overlaps) \in Columns
      BY <2>1, SizeType DEF Columns, Coordinate, AtLeastOne
    <2>3. \A r \in Rows, k \in Columns, overlaps \in BOOLEAN : Shifted(r, k, overlaps) \in Cells
      <3> HIDE DEF Source
      <3> QED
        BY <2>2, BlankTypes DEF ScreenTyped, Surfaces
    <2>4. PICK overlaps \in BOOLEAN :
             surface' = [r \in Rows |-> IF r = m_y_position
                                        THEN [k \in Columns |-> Shifted(r, k, overlaps)]
                                        ELSE surface[r]]
      BY DEF DeleteCharacter
    <2> HIDE DEF IInv, TextTyped, Shifted
    <2> QED
      BY <2>3, <2>4 DEF IInv, TextTyped, ScreenTyped, Surfaces
  <1> QED
    BY <1>1, <1>2, <1>3, <1>4, <1>5 DEF ScreenTyped

LEMMA EraseDisplayStep ==
    ASSUME IInv, NEW c \in Commands, EraseDisplay(c)
    PROVE  IInv'
  <1> USE DEF IInv, TextTyped
  <1>1. RegionTyped' /\ ModesTyped'
    BY ModesKept DEF EraseDisplay
  <1>2. InputsTyped' /\ RepeatTyped'
    BY NextInputStep DEF EraseDisplay, IsCommand, KeepsText, RepeatTyped
  <1>3. ASSUME NEW s \in Surfaces, EraseInPicture(s)
        PROVE  TextTyped'
    <2>1. CursorTyped' /\ ScreenTyped'
      BY <1>3 DEF EraseInPicture, cursor, CursorTyped, ScreenTyped
    <2>2. HistoryTyped'
      BY <1>3, HistoryTypes DEF EraseInPicture, HistoryTyped
    <2> QED
      BY <2>1, <2>2
  <1>4. \A from, to :
           /\ [r \in Rows |-> IF r > m_y_position THEN BlankRow
                              ELSE ClearLine(surface, m_y_position, from, to)[r]] \in Surfaces
           /\ [r \in Rows |-> IF r < m_y_position THEN BlankRow
                              ELSE ClearLine(surface, m_y_position, from, to)[r]] \in Surfaces
    <2> SUFFICES ASSUME NEW from, NEW to, NEW r \in Rows
                 PROVE  /\ ClearLine(surface, m_y_position, from, to)[r] \in [Columns -> Cells]
                        /\ BlankRow \in [Columns -> Cells]
      BY DEF Surfaces
    <2>1. ClearLine(surface, m_y_position, from, to) \in Surfaces
      BY ClearTypes DEF ScreenTyped
    <2> QED
      BY <2>1, BlankTypes DEF Surfaces
  <1>5. TextTyped'
    BY <1>3, <1>4, FormFeedStep DEF EraseDisplay
  <1> QED
    BY <1>1, <1>2, <1>5

LEMMA EraseToEolStep ==
    ASSUME IInv, NEW c \in Commands, EraseToEol(c)
    PROVE  IInv'
  <1> USE DEF IInv, TextTyped
  <1>1. CursorTyped' /\ RepeatTyped'
    BY DEF EraseToEol, KeepsText, cursor, CursorTyped, RepeatTyped
  <1>2. RegionTyped' /\ ModesTyped'
    BY ModesKept DEF EraseToEol
  <1>3. ScreenTyped'
    BY ClearTypes DEF EraseToEol, ScreenTyped
  <1>4. undefined' \in {"none", "scroll", "erase"}
    BY DEF EraseToEol, HistoryTyped
  <1>5. inStep' \in BOOLEAN
    BY ZenonT(30) DEF EraseToEol
  <1>6. typed' \in [glyphs : Seq(Cells), ordered : BOOLEAN]
    BY HistoryTypes DEF EraseToEol
  <1>7. InputsTyped'
    BY NextInputStep DEF EraseToEol, IsCommand
  <1> QED
    BY <1>1, <1>2, <1>3, <1>4, <1>5, <1>6, <1>7 DEF HistoryTyped

----------------------------------------------------------------------------
(* Every step.                                                             *)

LEMMA CharacterSteps ==
    ASSUME IInv,
           \/ \E ch \in Glyphs \union Formats : TextInput(ch)
           \/ RepeatCharacter
           \/ \E c \in Commands : ControlNewLine(c)
    PROVE  IInv'
  <1>1. ASSUME NEW ch \in Glyphs \union Formats, TextInput(ch)
        PROVE  IInv'
    <2>1. TextTyped'
      BY <1>1, CharacterStep DEF TextInput
    <2>2. RegionTyped' /\ ModesTyped'
      BY <1>1, ModesKept DEF TextInput
    <2>3. InputsTyped'
      BY <1>1, NextInputStep DEF TextInput
    <2>4. RepeatTyped'
      BY <1>1 DEF TextInput, IInv, RepeatTyped, Cells, Formats
    <2> QED
      BY <2>1, <2>2, <2>3, <2>4 DEF IInv
  <1>2. CASE RepeatCharacter
    <2>1. TextTyped'
      BY <1>2, CharacterStep DEF RepeatCharacter
    <2>2. RegionTyped' /\ ModesTyped'
      BY <1>2, ModesKept DEF RepeatCharacter
    <2>3. InputsTyped' /\ RepeatTyped'
      BY <1>2 DEF RepeatCharacter, IInv, InputsTyped, RepeatTyped
    <2> QED
      BY <2>1, <2>2, <2>3 DEF IInv
  <1>3. ASSUME NEW c \in Commands, ControlNewLine(c)
        PROVE  IInv'
    <2>1. TextTyped'
      BY <1>3, NewLineStep DEF ControlNewLine
    <2>2. RegionTyped' /\ ModesTyped'
      BY <1>3, ModesKept DEF ControlNewLine
    <2>3. InputsTyped'
      BY <1>3, NextInputStep DEF ControlNewLine, IsCommand
    <2>4. RepeatTyped'
      BY <1>3 DEF ControlNewLine, IInv, RepeatTyped, Formats
    <2> QED
      BY <2>1, <2>2, <2>3, <2>4 DEF IInv
  <1> QED
    BY <1>1, <1>2, <1>3

LEMMA Inductive == IInv /\ [Next]_vars => IInv'
  <1> SUFFICES ASSUME IInv, [Next]_vars PROVE IInv'
    OBVIOUS
  <1>1. CASE UNCHANGED vars
    BY <1>1 DEF vars, cursor, screen, modes, IInv, TextTyped, CursorTyped, ScreenTyped,
                HistoryTyped, RegionTyped, ModesTyped, RepeatTyped, InputsTyped
  <1>2. ASSUME NEW c \in Commands,
               \/ MoveCommand(c) \/ DeleteCharacter(c) \/ EraseDisplay(c) \/ EraseToEol(c)
               \/ SaveCursorPos(c) \/ ScrollRegion(c) \/ WrapMode(c)
               \/ ReportPosition(c) \/ StartRepeat(c)
        PROVE  IInv'
    BY <1>2, MoveCommandStep, DeleteCharacterStep, EraseDisplayStep, EraseToEolStep,
       ModeCommandStep
  <1> QED
    BY <1>1, <1>2, CharacterSteps DEF Next, CommandInput, MoveCommand

\* At every moment, whatever the server sends: the buffer has the size of the
\* screen (appendScreenBuffer and clearScreenBufferRange index it without a
\* test that knows the size), and no margin of the region is below the last row,
\* which scrollRegionUp relies on to stay inside of the surface.
THEOREM TypeCorrect == Spec => []TypeOK
  <1>1. Spec => []IInv
    BY InitTyped, Inductive, PTL DEF Spec
  <1> QED
    BY <1>1, IInvType, PTL

----------------------------------------------------------------------------
(* The scroll region.                                                      *)

LEMMA ScrolledRest ==
    ASSUME region.active, NEW r \in Rows \ (region.top..region.bottom)
    PROVE  ScrolledSurface[r] = surface[r]
  BY DEF ScrolledSurface, ScrollRows

LEMMA DrawRest ==
    ASSUME NEW s, NEW x, NEW y, NEW g, NEW r \in Rows \ {y},
           s[r] \in [Columns -> Cells]
    PROVE  Draw(s, x, y, g)[r] = s[r]
  BY DEF Draw

LEMMA NewLineInRegion ==
    ASSUME IInv, InRegion, NewLine, NEW r \in Rows \ (region.top..region.bottom)
    PROVE  surface'[r] = surface[r]
  BY ScrolledRest DEF NewLine, InRegion

LEMMA GlyphInRegion ==
    ASSUME IInv, InRegion, NEW g \in Cells, Glyph(g),
           NEW r \in Rows \ (region.top..region.bottom)
    PROVE  surface'[r] = surface[r]
  <1>1. RowOf = m_y_position /\ region.active
    BY DEF InRegion, RowOf, WrapsFirst
  <1>2. m_y_position \in Int /\ region.bottom \in Int /\ region.top \in Int
    BY DEF IInv, TextTyped, CursorTyped, RegionTyped
  <1>3. PICK s, x, y : /\ surface' = Draw(s, x, y, g)
                       /\ s \in {surface, ScrolledSurface}
                       /\ y \in {RowOf, region.bottom}
    BY <1>1 DEF Glyph, InRegion
  <1>4. RowOf \in region.top..region.bottom
    BY <1>1 DEF InRegion
  <1>5. r # y
    BY <1>2, <1>3, <1>4, <1>1
  <1>6. s[r] = surface[r]
    BY <1>1, <1>3, ScrolledRest
  <1>7. surface[r] \in [Columns -> Cells]
    BY DEF IInv, TextTyped, ScreenTyped, Surfaces
  <1> QED
    BY <1>3, <1>5, <1>6, <1>7, DrawRest

\* Text in a scroll region, the cursor in it, never changes a row above or
\* below the region, whatever the margins the server chose, as long as a scroll
\* with them is defined.
THEOREM RegionProtectsRest == Spec => ScrollKeepsRest
  <1> DEFINE Kept == (InRegion /\ ~BadRegion
                      /\ \E ch \in Cells \union {"CRLF", "LF"} : Character(ch))
                     => \A r \in Rows \ (region.top..region.bottom) :
                           surface'[r] = surface[r]
  <1>1. IInv /\ [Next]_vars => [Kept]_vars
    <2> SUFFICES ASSUME IInv, InRegion, NEW ch \in Cells \union {"CRLF", "LF"}, Character(ch),
                        NEW r \in Rows \ (region.top..region.bottom)
                 PROVE  surface'[r] = surface[r]
      OBVIOUS
    <2>1. ch \notin {"FF", "BS", "CR"}
      BY ScreenAssumption DEF ScreenAssumption, Cells
    <2>2. NewLine \/ (ch \in Cells /\ Glyph(ch))
      BY <2>1 DEF Character
    <2> QED
      BY <2>2, NewLineInRegion, GlyphInRegion
  <1>2. Spec => []IInv
    BY InitTyped, Inductive, PTL DEF Spec
  <1> QED
    BY <1>1, <1>2, PTL DEF Spec, ScrollKeepsRest

----------------------------------------------------------------------------
(* The two copies of the screen.                                           *)

Match(s, b) == \A r \in Rows, c \in Columns : s[r][c] = b[Position(c, r)]

\* Products with the width: the only nonlinear facts.
LEMMA RowsApart ==
    ASSUME NEW a \in Int, NEW b \in Int, NEW w \in Nat \ {0}, a < b
    PROVE  /\ a * w \in Int /\ b * w \in Int
           /\ a * w + w <= b * w
  <1>1. a * w \in Int /\ b * w \in Int /\ (b - a) * w \in Int
    OBVIOUS
  <1>2. (b - a) * w = b * w - a * w
    OBVIOUS
  <1>3. (b - a) * w >= w
    <2>1. \A d \in Int : d >= 1 => d * w >= w
      OBVIOUS
    <2> QED
      BY <2>1
  <1> QED
    BY <1>1, <1>2, <1>3

LEMMA NextRow ==
    ASSUME NEW a \in Int, NEW w \in Nat \ {0}
    PROVE  (a + 1) * w = a * w + w
  OBVIOUS

\* The position of a cell on the screen is a position of the buffer.
LEMMA PositionOnScreen ==
    ASSUME NEW r \in Rows, NEW c \in Columns
    PROVE  Position(c, r) \in Positions
  <1>1. Width \in Nat \ {0} /\ Height \in Nat \ {0} /\ r \in Int /\ c \in Int
        /\ 1 <= r /\ r <= Height /\ 1 <= c /\ c <= Width
    BY SizeType DEF Coordinate, Rows, Columns
  <1>2. r - 1 \in Int /\ r - 1 < Height
    BY <1>1
  <1>3. (r - 1) * Width \in Int /\ (r - 1) * Width + Width <= Height * Width
    BY <1>1, <1>2, RowsApart
  <1>4. (r - 1) * Width >= 0
    BY <1>1
  <1>5. Height * Width \in Int
    BY <1>1
  <1> QED
    BY <1>1, <1>3, <1>4, <1>5 DEF Position, Positions, Size

\* A position between two of the columns of row y belongs to row y.
LEMMA PositionRange ==
    ASSUME NEW r \in Rows, NEW c \in Columns, NEW y \in Int,
           NEW from \in Coordinate, NEW to \in Int, to <= Width
    PROVE  Position(c, r) \in Position(from, y)..Position(to, y)
              <=> r = y /\ c \in from..to
  <1>1. Width \in Nat \ {0} /\ r \in Int /\ y \in Int /\ c \in Int /\ from \in Int
        /\ 1 <= c /\ c <= Width /\ 1 <= from
    BY SizeType DEF Coordinate, Rows, Columns
  <1>2. (r - 1) * Width \in Int /\ (y - 1) * Width \in Int
    BY <1>1
  <1>3. CASE r = y
    BY <1>1, <1>2, <1>3 DEF Position
  <1>4. CASE r < y
    <2>1. (r - 1) * Width + Width <= (y - 1) * Width
      <3>1. r - 1 \in Int /\ y - 1 \in Int /\ r - 1 < y - 1
        BY <1>1, <1>4
      <3> QED
        BY <1>1, <3>1, RowsApart
    <2> QED
      BY <1>1, <1>2, <1>4, <2>1 DEF Position
  <1>5. CASE r > y
    <2>1. (y - 1) * Width + Width <= (r - 1) * Width
      <3>1. r - 1 \in Int /\ y - 1 \in Int /\ y - 1 < r - 1
        BY <1>1, <1>5
      <3> QED
        BY <1>1, <3>1, RowsApart
    <2> QED
      BY <1>1, <1>2, <1>5, <2>1 DEF Position
  <1> QED
    BY <1>1, <1>3, <1>4, <1>5

LEMMA ScrollMatches ==
    ASSUME IInv, Match(surface, m_screen_buffer), ~region.active
    PROVE  Match(ScrolledSurface, ScrolledBuffer)
  <1> SUFFICES ASSUME NEW r \in Rows, NEW c \in Columns
               PROVE  ScrolledSurface[r][c] = ScrolledBuffer[Position(c, r)]
    BY DEF Match
  <1>1. Width \in Nat \ {0} /\ Height \in Nat \ {0} /\ r \in Int /\ c \in Int
        /\ 1 <= r /\ r <= Height /\ 1 <= c /\ c <= Width
    BY SizeType DEF Coordinate, Rows, Columns
  <1>2. Position(c, r) \in Positions
    BY PositionOnScreen
  <1>3. CASE r < Height
    <2>1. r + 1 \in Rows
      BY <1>1, <1>3 DEF Rows
    <2>2. Position(c, r + 1) = Position(c, r) + Width
      <3>1. r - 1 \in Int /\ (r + 1) - 1 = (r - 1) + 1
        BY <1>1
      <3>2. ((r - 1) + 1) * Width = (r - 1) * Width + Width
        BY <1>1, <3>1, NextRow
      <3>3. (r - 1) * Width \in Int
        BY <1>1
      <3> QED
        BY <1>1, <3>1, <3>2, <3>3 DEF Position
    <2>3. Position(c, r) + Width < Size
      <3>1. Position(c, r + 1) \in Positions
        BY <2>1, PositionOnScreen
      <3> QED
        BY <2>2, <3>1, SizeType DEF Positions
    <2>4. ScrolledBuffer[Position(c, r)] = m_screen_buffer[Position(c, r) + Width]
      BY <1>2, <2>3 DEF ScrolledBuffer
    <2>5. ScrolledSurface[r] = surface[r + 1]
      BY <1>1, <1>3 DEF ScrolledSurface, ScrollRows
    <2> QED
      BY <2>1, <2>2, <2>4, <2>5 DEF Match
  <1>4. CASE r = Height
    <2>1. ~(Position(c, r) + Width < Size)
      <3>1. (r - 1) * Width + Width = Height * Width
        <4>1. r - 1 \in Int /\ (r - 1) + 1 = Height
          BY <1>1, <1>4
        <4> QED
          BY <1>1, <4>1, NextRow
      <3>2. (r - 1) * Width \in Int /\ Height * Width \in Int
        BY <1>1
      <3> QED
        BY <1>1, <3>1, <3>2 DEF Position, Size
    <2>2. ScrolledBuffer[Position(c, r)] = Blank
      BY <1>2, <2>1 DEF ScrolledBuffer
    <2>3. ScrolledSurface[r] = BlankRow
      BY <1>1, <1>4 DEF ScrolledSurface, ScrollRows
    <2> QED
      BY <2>2, <2>3 DEF BlankRow
  <1> QED
    BY <1>1, <1>3, <1>4

LEMMA DrawMatches ==
    ASSUME NEW s, NEW b, Match(s, b),
           NEW x \in Columns, NEW y \in Int, NEW g
    PROVE  Match(Draw(s, x, y, g), SetScreenBuffer(b, x, y, g))
  <1> SUFFICES ASSUME NEW r \in Rows, NEW c \in Columns
               PROVE  Draw(s, x, y, g)[r][c] = SetScreenBuffer(b, x, y, g)[Position(c, r)]
    BY DEF Match
  <1>1. Position(c, r) \in Positions
    BY PositionOnScreen
  <1>2. x \in Coordinate /\ x \in Int /\ x <= Width
    BY SizeType DEF Coordinate, Columns
  <1>3. Position(c, r) = Position(x, y) <=> r = y /\ c = x
    <2>1. Position(c, r) \in Position(x, y)..Position(x, y) <=> r = y /\ c \in x..x
      BY <1>2, PositionRange
    <2>2. Position(c, r) \in Int /\ Position(x, y) \in Int /\ c \in Int
      BY <1>2, SizeType DEF Position, Coordinate, Rows, Columns
    <2> QED
      BY <1>2, <2>1, <2>2
  <1>4. s[r][c] = b[Position(c, r)]
    BY DEF Match
  <1> QED
    BY <1>1, <1>3, <1>4 DEF Draw, SetScreenBuffer

LEMMA ClearMatches ==
    ASSUME NEW s, NEW b, Match(s, b), NEW y \in Int,
           NEW from \in Coordinate, NEW to \in Int, to <= Width
    PROVE  Match(ClearLine(s, y, from, to), ClearRange(b, y, from, to))
  <1> SUFFICES ASSUME NEW r \in Rows, NEW c \in Columns
               PROVE  ClearLine(s, y, from, to)[r][c]
                         = ClearRange(b, y, from, to)[Position(c, r)]
    BY DEF Match
  <1>1. Position(c, r) \in Positions
    BY PositionOnScreen
  <1>2. Position(c, r) \in Position(from, y)..Position(to, y) <=> r = y /\ c \in from..to
    BY PositionRange
  <1>3. s[r][c] = b[Position(c, r)]
    BY DEF Match
  <1> QED
    BY <1>1, <1>2, <1>3 DEF ClearLine, ClearRange

LEMMA BlankMatches == Match(BlankSurface, BlankBuffer)
  BY PositionOnScreen DEF Match, BlankSurface, BlankRow, BlankBuffer

LEMMA CharacterMatches ==
    ASSUME IInv, ClipboardMatchesPicture, NEW ch, Character(ch)
    PROVE  ClipboardMatchesPicture'
  <1> SUFFICES ASSUME inStep' PROVE Match(surface', m_screen_buffer')
    BY DEF ClipboardMatchesPicture, Match, Position
  <1>1. inStep => Match(surface, m_screen_buffer)
    BY DEF ClipboardMatchesPicture, Match
  <1>2. CASE FormFeed
    BY <1>2, BlankMatches DEF FormFeed
  <1>3. CASE BackSpace \/ CarriageReturn
    BY <1>1, <1>3 DEF BackSpace, CarriageReturn, screen
  <1>4. CASE NewLine
    <2> DEFINE y == m_y_position + RowsDown + 1
               scroll == y > Height \/ (region.active /\ y > region.bottom)
    <2>1. inStep /\ ~(scroll /\ region.active)
      BY <1>4 DEF NewLine
    <2>2. /\ surface' = IF scroll THEN ScrolledSurface ELSE surface
          /\ m_screen_buffer' = IF scroll THEN ScrolledBuffer ELSE m_screen_buffer
      BY <1>4 DEF NewLine
    <2> HIDE DEF y, scroll
    <2> QED
      BY <1>1, <2>1, <2>2, ScrollMatches
  <1>5. CASE ch \in Cells /\ Glyph(ch)
    <2>1. inStep /\ ~(GlyphScrolls /\ region.active)
      BY <1>5 DEF Glyph
    <2> DEFINE s == IF GlyphScrolls THEN ScrolledSurface ELSE surface
               b == IF GlyphScrolls THEN ScrolledBuffer ELSE m_screen_buffer
    <2>2. Match(s, b)
      BY <1>1, <2>1, ScrollMatches
    <2>3. PICK x, y : /\ x \in Columns
                      /\ y \in {RowOf, region.bottom, Height}
                      /\ surface' = Draw(s, x, y, ch)
                      /\ m_screen_buffer' = SetScreenBuffer(b, x, y, ch)
      BY <1>5 DEF Glyph
    <2>4. y \in Int
      <3>1. RowOf \in Int
        BY DEF IInv, TextTyped, CursorTyped, RowOf
      <3> QED
        BY <2>3, <3>1, SizeType DEF IInv, RegionTyped, Coordinate
    <2> HIDE DEF s, b
    <2> QED
      BY <2>2, <2>3, <2>4, DrawMatches
  <1> QED
    BY <1>2, <1>3, <1>4, <1>5 DEF Character

LEMMA CommandMatches ==
    ASSUME IInv, ClipboardMatchesPicture, NEW c \in Commands,
           \/ MoveCommand(c) \/ DeleteCharacter(c) \/ EraseDisplay(c) \/ EraseToEol(c)
           \/ SaveCursorPos(c) \/ ScrollRegion(c) \/ WrapMode(c)
           \/ ReportPosition(c) \/ StartRepeat(c) \/ ControlNewLine(c)
    PROVE  ClipboardMatchesPicture'
  <1> SUFFICES ASSUME inStep' PROVE Match(surface', m_screen_buffer')
    BY DEF ClipboardMatchesPicture, Match, Position
  <1>1. inStep => Match(surface, m_screen_buffer)
    BY DEF ClipboardMatchesPicture, Match
  <1>2. CASE UNCHANGED <<screen, inStep>>
    BY <1>1, <1>2 DEF screen
  <1>3. MoveCommand(c) => KeepsScreen
    BY DEF MoveCommand, CursorUp, CursorDown, CursorForward, CursorBackward, CursorNextLine,
           CursorPrevLine, CursorXPosition, CursorPosition, LinePosAbsolute,
           RestoreCursorPos, ControlDown, ControlUp, MoveTo
  <1>4. SaveCursorPos(c) \/ ScrollRegion(c) \/ WrapMode(c) \/ ReportPosition(c)
        \/ StartRepeat(c) => KeepsScreen
    BY DEF SaveCursorPos, ScrollRegion, WrapMode, ReportPosition, StartRepeat
  <1>5. KeepsScreen => UNCHANGED <<screen, inStep>>
    BY DEF KeepsScreen
  <1>6. CASE DeleteCharacter(c)
    BY <1>6 DEF DeleteCharacter
  <1>7. CASE EraseDisplay(c)
    <2>1. FormFeed
      BY <1>7 DEF EraseDisplay, EraseInPicture
    <2> QED
      BY <2>1, BlankMatches DEF FormFeed
  <1>8. CASE EraseToEol(c)
    <2> DEFINE from == ErasedColumns(c).from
               to == ErasedColumns(c).to
    <2>1. inStep /\ 1 <= from /\ to <= Width
      BY <1>8 DEF EraseToEol
    <2>2. from \in Coordinate /\ to \in Int
      <3>1. c.numbers \in {<<>>, <<1>>, <<2>>}
        BY <1>8 DEF EraseToEol
      <3>2. m_x_position \in Int /\ Width \in Int
        BY SizeType DEF IInv, TextTyped, CursorTyped, Coordinate
      <3>3. ErasedColumns(c) \in {[from |-> m_x_position, to |-> Width],
                                  [from |-> 1, to |-> m_x_position],
                                  [from |-> 1, to |-> Width]}
        BY <3>1 DEF ErasedColumns
      <3> QED
        BY <2>1, <3>2, <3>3 DEF Coordinate
    <2>3. /\ surface' = ClearLine(surface, m_y_position, from, to)
          /\ m_screen_buffer' = ClearRange(m_screen_buffer, m_y_position, from, to)
      BY <1>8 DEF EraseToEol
    <2>4. m_y_position \in Int
      BY DEF IInv, TextTyped, CursorTyped
    <2> HIDE DEF from, to
    <2> QED
      BY <1>1, <2>1, <2>2, <2>3, <2>4, ClearMatches
  <1>9. CASE ControlNewLine(c)
    <2>1. Character("LF")
      BY <1>9 DEF ControlNewLine, Character
    <2>2. ClipboardMatchesPicture'
      BY <2>1, CharacterMatches
    <2> QED
      BY <2>2 DEF ClipboardMatchesPicture, Match, Position
  <1> QED
    BY <1>2, <1>3, <1>4, <1>5, <1>6, <1>7, <1>8, <1>9

\* As long as no command wrote only one of the two copies, the vector that the
\* clipboard copies by position and the picture that is drawn by row and column
\* show the same characters, through every wrap, scroll and erased line.
THEOREM ClipboardCorrect == Spec => []ClipboardMatchesPicture
  <1>1. Init => ClipboardMatchesPicture
    BY BlankMatches DEF Init, ClipboardMatchesPicture, Match
  <1>2. IInv /\ ClipboardMatchesPicture /\ [Next]_vars => ClipboardMatchesPicture'
    <2> SUFFICES ASSUME IInv, ClipboardMatchesPicture, [Next]_vars
                 PROVE  ClipboardMatchesPicture'
      OBVIOUS
    <2>1. CASE UNCHANGED vars
      BY <2>1 DEF vars, screen, ClipboardMatchesPicture, Position
    <2>2. CASE \E ch : Character(ch)
      BY <2>2, CharacterMatches
    <2>3. CASE CommandInput
      BY <2>3, CommandMatches DEF CommandInput, MoveCommand
    <2> QED
      BY <2>1, <2>2, <2>3 DEF Next, TextInput, RepeatCharacter
  <1>3. Spec => []IInv
    BY InitTyped, Inductive, PTL DEF Spec
  <1> QED
    BY <1>1, <1>2, <1>3, PTL DEF Spec

-----------------------------------------------------------------------------
(* The text in reading order.                                              *)

\* What a cell shows of the text.
Mark == [g \in Cells |-> IF g = Blank THEN <<>> ELSE <<g>>]

\* The glyphs of some rows, from the first to the last.
Shown(rows) == FlatMap(Mark, FlattenSeq(rows))

AllBlank(row) == \A i \in 1 .. Len(row) : row[i] = Blank

LEMMA MarkMaps == Maps(Mark, Cells, Seq(Cells))
<1>1. ASSUME NEW g \in Cells PROVE (IF g = Blank THEN <<>> ELSE <<g>>) \in Seq(Cells)
  OBVIOUS
<1> QED
  BY <1>1 DEF Mark, Maps

LEMMA BlankShowsNothing ==
    ASSUME NEW row \in Seq(Cells), AllBlank(row)
    PROVE  FlatMap(Mark, row) = <<>>
<1> DEFINE T == {s \in Seq(Cells) : AllBlank(s) => FlatMap(Mark, s) = <<>>}
<1>1. <<>> \in T
  BY MarkMaps, FlatMapEmpty
<1>2. ASSUME NEW s \in Seq(Cells), NEW x \in Cells, s \in T PROVE Append(s, x) \in T
  <2>1. Append(s, x) \in Seq(Cells)
    OBVIOUS
  <2>2. SUFFICES ASSUME AllBlank(Append(s, x)) PROVE FlatMap(Mark, Append(s, x)) = <<>>
    BY <2>1
  <2>3. x = Blank /\ AllBlank(s)
    <3>1. PICK t : t = Append(s, x)
      OBVIOUS
    <3>2. /\ Len(t) = Len(s) + 1 /\ Len(s) \in Nat /\ t[Len(t)] = x
          /\ \A i \in 1 .. Len(s) : t[i] = s[i]
      BY <3>1
    <3>3. \A i \in 1 .. Len(t) : t[i] = Blank
      BY <2>2, <3>1 DEF AllBlank
    <3> QED
      BY <3>2, <3>3 DEF AllBlank
  <2>4. FlatMap(Mark, s) = <<>>
    BY <1>2, <2>3
  <2>5. FlatMap(Mark, Append(s, x)) = FlatMap(Mark, s) \o Mark[x]
    BY MarkMaps, FlatMapAppend
  <2>6. Mark[x] = <<>>
    BY <2>3 DEF Mark
  <2>7. <<>> \o <<>> = <<>>
    OBVIOUS
  <2> QED
    BY <2>4, <2>5, <2>6, <2>7
<1> HIDE DEF T
<1>3. Seq(Cells) \subseteq T
  BY <1>1, <1>2, SeqSet
<1>4. row \in T
  BY <1>3
<1> QED
  BY <1>4 DEF T

LEMMA ShownType ==
    ASSUME NEW rows \in Seq(Seq(Cells))
    PROVE  Shown(rows) \in Seq(Cells)
BY MarkMaps, FlattenType, FlatMapType DEF Shown

LEMMA ShownConcat ==
    ASSUME NEW a \in Seq(Seq(Cells)), NEW b \in Seq(Seq(Cells))
    PROVE  Shown(a \o b) = Shown(a) \o Shown(b)
<1>1. FlattenSeq(a) \in Seq(Cells) /\ FlattenSeq(b) \in Seq(Cells)
  BY FlattenType
<1>2. FlattenSeq(a \o b) = FlattenSeq(a) \o FlattenSeq(b)
  BY FlattenConcat
<1> QED
  BY <1>1, <1>2, MarkMaps, FlatMapConcat DEF Shown

LEMMA ShownAppend ==
    ASSUME NEW a \in Seq(Seq(Cells)), NEW row \in Seq(Cells)
    PROVE  Shown(Append(a, row)) = Shown(a) \o FlatMap(Mark, row)
<1>1. FlattenSeq(a) \in Seq(Cells)
  BY FlattenType
<1>2. FlattenSeq(Append(a, row)) = FlattenSeq(a) \o row
  BY FlattenAppend
<1> QED
  BY <1>1, <1>2, MarkMaps, FlatMapConcat DEF Shown

LEMMA ShownEmpty == Shown(<<>>) = <<>>
BY FlattenEmpty, MarkMaps, FlatMapEmpty DEF Shown

(* Rows of blanks show nothing.                                            *)
LEMMA BlankRowsShowNothing ==
    ASSUME NEW rows \in Seq(Seq(Cells)), \A r \in 1 .. Len(rows) : AllBlank(rows[r])
    PROVE  Shown(rows) = <<>>
<1> DEFINE T == {s \in Seq(Seq(Cells)) : (\A r \in 1 .. Len(s) : AllBlank(s[r])) => Shown(s) = <<>>}
<1>1. <<>> \in T
  BY ShownEmpty
<1>2. ASSUME NEW s \in Seq(Seq(Cells)), NEW x \in Seq(Cells), s \in T PROVE Append(s, x) \in T
  <2>0. PICK t : t = Append(s, x)
    OBVIOUS
  <2>1. /\ t \in Seq(Seq(Cells)) /\ Len(t) = Len(s) + 1 /\ Len(s) \in Nat /\ t[Len(t)] = x
        /\ \A i \in 1 .. Len(s) : t[i] = s[i]
    BY <2>0
  <2>2. SUFFICES ASSUME \A r \in 1 .. Len(t) : AllBlank(t[r]) PROVE Shown(t) = <<>>
    BY <2>0, <2>1
  <2>3. AllBlank(x) /\ \A r \in 1 .. Len(s) : AllBlank(s[r])
    BY <2>1, <2>2
  <2>4. Shown(s) = <<>>
    BY <1>2, <2>3
  <2>5. Shown(t) = Shown(s) \o FlatMap(Mark, x)
    BY <2>0, ShownAppend
  <2>6. FlatMap(Mark, x) = <<>>
    BY <2>3, BlankShowsNothing
  <2>7. <<>> \o <<>> = <<>>
    OBVIOUS
  <2> QED
    BY <2>4, <2>5, <2>6, <2>7
<1> HIDE DEF T
<1>3. PICK S : S = Seq(Cells)
  OBVIOUS
<1>4. Seq(S) \subseteq T
  BY <1>1, <1>2, <1>3, SeqSet
<1>5. rows \in T
  BY <1>3, <1>4
<1> QED
  BY <1>5 DEF T

-----------------------------------------------------------------------------
(* The surface as a sequence of rows.                                      *)

\* The cells from the cursor on are empty.
BlankBehind(s, x, y) ==
    \A r \in Rows, c \in Columns : r > y \/ (r = y /\ c >= x) => s[r][c] = Blank

LEMMA RowSequence ==
    ASSUME NEW row \in [Columns -> Cells]
    PROVE  row \in Seq(Cells) /\ Len(row) = Width /\ Width \in Nat
<1>1. Width \in Nat
  BY SizeType DEF Coordinate
<1> QED
  BY <1>1 DEF Columns

LEMMA SurfaceSequence ==
    ASSUME NEW s \in Surfaces
    PROVE  s \in Seq(Seq(Cells)) /\ Len(s) = Height /\ Height \in Nat
<1>1. Height \in Nat
  BY SizeType DEF Coordinate
<1>2. \A r \in Rows : s[r] \in Seq(Cells)
  BY RowSequence DEF Surfaces
<1>3. s = [r \in 1 .. Height |-> s[r]]
  BY DEF Surfaces, Rows
<1> HIDE DEF Cells
<1>4. PICK T : T = Seq(Cells)
  OBVIOUS
<1> QED
  BY <1>1, <1>2, <1>3, <1>4 DEF Rows

LEMMA BlankRowShows == FlatMap(Mark, BlankRow) = <<>>
<1>1. BlankRow \in Seq(Cells) /\ Len(BlankRow) = Width /\ Width \in Nat
  BY BlankTypes, RowSequence
<1>2. AllBlank(BlankRow)
  BY <1>1 DEF AllBlank, BlankRow, Columns
<1> QED
  BY <1>1, <1>2, BlankShowsNothing

LEMMA BlankSurfaceShows == Shown(BlankSurface) = <<>>
<1>1. BlankSurface \in Seq(Seq(Cells)) /\ Len(BlankSurface) = Height /\ Height \in Nat
  BY BlankTypes, SurfaceSequence
<1>2. Len(BlankRow) = Width /\ Width \in Nat
  BY BlankTypes, RowSequence
<1>3. \A r \in 1 .. Len(BlankSurface) : AllBlank(BlankSurface[r])
  BY <1>1, <1>2 DEF AllBlank, BlankSurface, BlankRow, Rows, Columns
<1> QED
  BY <1>1, <1>3, BlankRowsShowNothing

(* Scrolling drops what the first row shows.                               *)
LEMMA ScrollShows ==
    ASSUME NEW s \in Surfaces
    PROVE  LET t == ScrollRows(s, 1, Height)
           IN  /\ Shown(s) = FlatMap(Mark, s[1]) \o Shown(t)
               /\ s[1] \in Seq(Cells)
               /\ \A c \in Columns : t[Height][c] = Blank
<1> DEFINE t == ScrollRows(s, 1, Height)
<1>1. Height \in Nat /\ Height >= 1 /\ 1 \in Rows /\ Height \in Rows
  BY SizeType DEF Coordinate, Rows
<1>2. t \in Surfaces
  BY <1>1, ScrollRowsType
<1>3. /\ s \in Seq(Seq(Cells)) /\ Len(s) = Height
      /\ t \in Seq(Seq(Cells)) /\ Len(t) = Height
  BY <1>2, SurfaceSequence
<1>4. \A r \in 1 .. Height : t[r] = IF r < Height THEN s[r + 1] ELSE BlankRow
  BY <1>1 DEF ScrollRows, Rows
<1>5. t[Height] = BlankRow
  BY <1>1, <1>4
<1> HIDE DEF t
<1>6. PICK T : T = Seq(Cells)
  OBVIOUS
<1>7. s[1] \in T
  BY <1>1, <1>3, <1>6
<1>8. PICK u : u = Tail(s)
  OBVIOUS
<1>9. /\ u \in Seq(T) /\ Len(u) = Height - 1 /\ s = <<s[1]>> \o u
      /\ \A r \in 1 .. Height - 1 : u[r] = s[r + 1]
  BY <1>1, <1>3, <1>6, <1>8
<1>10. t = Append(u, BlankRow)
  <2>1. BlankRow \in T
    BY <1>6, BlankTypes, RowSequence
  <2>2. PICK v : v = Append(u, BlankRow)
    OBVIOUS
  <2>3. /\ v \in Seq(T) /\ Len(v) = Height /\ v[Height] = BlankRow
        /\ \A r \in 1 .. Height - 1 : v[r] = u[r]
    BY <1>1, <1>9, <2>1, <2>2
  <2>4. \A r \in 1 .. Height : v[r] = t[r]
    <3> TAKE r \in 1 .. Height
    <3>1. CASE r = Height
      BY <1>5, <2>3, <3>1
    <3>2. CASE r # Height
      <4>1. r \in 1 .. Height - 1 /\ r < Height
        BY <1>1, <3>2
      <4> QED
        BY <1>4, <1>9, <2>3, <4>1
    <3> QED
      BY <3>1, <3>2
  <2>5. v = t
    BY <1>1, <1>3, <1>6, <2>3, <2>4
  <2> QED
    BY <2>2, <2>5
<1>11. Shown(t) = Shown(u)
  <2>1. Shown(t) = Shown(u) \o FlatMap(Mark, BlankRow)
    BY <1>6, <1>9, <1>10, BlankTypes, RowSequence, ShownAppend
  <2>2. Shown(u) \in Seq(Cells)
    BY <1>6, <1>9, ShownType
  <2> QED
    BY <2>1, <2>2, BlankRowShows, ConcatEmpty
<1>12. Shown(s) = FlatMap(Mark, s[1]) \o Shown(u)
  <2>1. PICK e : e = Append(<<>>, s[1])
    OBVIOUS
  <2>2. e \in Seq(T) /\ e = <<s[1]>>
    BY <1>7, <2>1
  <2>3. Shown(s) = Shown(e) \o Shown(u)
    BY <1>6, <1>9, <2>2, ShownConcat
  <2>4. <<>> \in Seq(T)
    OBVIOUS
  <2>5. PICK o \in Seq(T) : o = <<>>
    BY <2>4
  <2>6. Shown(e) = Shown(o) \o FlatMap(Mark, s[1])
    BY <1>6, <1>7, <2>1, <2>5, ShownAppend
  <2>7. FlatMap(Mark, s[1]) \in Seq(Cells)
    BY <1>6, <1>7, MarkMaps, FlatMapType
  <2> QED
    BY <2>3, <2>5, <2>6, <2>7, ShownEmpty, ConcatEmpty
<1>13. \A c \in Columns : t[Height][c] = Blank
  BY <1>5 DEF BlankRow
<1> QED
  BY <1>6, <1>7, <1>11, <1>12, <1>13 DEF t

LEMMA MarkConcat ==
    ASSUME NEW a \in Seq(Cells), NEW b \in Seq(Cells)
    PROVE  FlatMap(Mark, a \o b) = FlatMap(Mark, a) \o FlatMap(Mark, b)
BY MarkMaps, FlatMapConcat

(* A row with one cell drawn, and nothing behind it.                       *)
DrawnAt(row, other, x, g) ==
    /\ SameButAt(row, other, x)
    /\ other[x] = g
    /\ \A c \in 1 .. Len(row) : c >= x => row[c] = Blank

LEMMA DrawnRow ==
    ASSUME NEW row \in Seq(Cells), NEW other \in Seq(Cells), NEW x \in 1 .. Len(row),
           NEW g \in Cells, DrawnAt(row, other, x, g)
    PROVE  FlatMap(Mark, other) = FlatMap(Mark, row) \o Mark[g]
<1>0. PICK a \in Seq(Cells), b \in Seq(Cells) : CutBehind(a, b, row, other, x)
  BY CutInTwo DEF DrawnAt
<1>1. /\ row = Append(a, row[x]) \o b
      /\ other = Append(a, g) \o b
      /\ \A i \in 1 .. Len(b) : x + i \in 1 .. Len(row) /\ b[i] = row[x + i]
  BY <1>0 DEF CutBehind, DrawnAt
<1>2. AllBlank(b)
  <2> SUFFICES ASSUME NEW i \in 1 .. Len(b) PROVE b[i] = Blank
    BY DEF AllBlank
  <2>1. x \in Nat /\ i \in Nat /\ x + i >= x
    OBVIOUS
  <2> QED
    BY <1>1, <2>1 DEF DrawnAt
<1>3. FlatMap(Mark, b) = <<>>
  BY <1>2, BlankShowsNothing
<1>4. ASSUME NEW h \in Cells
      PROVE  FlatMap(Mark, Append(a, h) \o b) = FlatMap(Mark, a) \o Mark[h]
  <2>1. PICK c : c = Append(a, h)
    OBVIOUS
  <2>2. c \in Seq(Cells)
    BY <2>1
  <2>3. FlatMap(Mark, c) = FlatMap(Mark, a) \o Mark[h]
    BY <2>1, MarkMaps, FlatMapAppend
  <2>4. FlatMap(Mark, c \o b) = FlatMap(Mark, c) \o FlatMap(Mark, b)
    BY ONLY <2>2, b \in Seq(Cells), MarkConcat
  <2>5. FlatMap(Mark, c) \in Seq(Cells)
    BY <2>2, MarkMaps, FlatMapType
  <2> QED
    BY <1>3, <2>1, <2>3, <2>4, <2>5, ConcatEmpty
<1>5. row[x] = Blank /\ Mark[Blank] = <<>>
  BY BlankTypes DEF Mark, DrawnAt
<1>6. FlatMap(Mark, row) = FlatMap(Mark, a) \o <<>>
  BY <1>1, <1>4, <1>5, BlankTypes
<1>7. FlatMap(Mark, a) \in Seq(Cells)
  BY MarkMaps, FlatMapType
<1>8. FlatMap(Mark, other) = FlatMap(Mark, a) \o Mark[g]
  BY <1>1, <1>4
<1> QED
  BY <1>6, <1>7, <1>8, ConcatEmpty

(* A character drawn behind the text is shown behind it.                   *)
LEMMA DrawShows ==
    ASSUME NEW s \in Surfaces, NEW x \in Columns, NEW y \in Rows, NEW g \in Cells,
           BlankBehind(s, x, y)
    PROVE  Shown(Draw(s, x, y, g)) = Shown(s) \o Mark[g]
<1>1. PICK t : t = Draw(s, x, y, g)
  OBVIOUS
<1>2. t \in Surfaces
  BY <1>1, DrawType
<1>3. PICK T : T = Seq(Cells)
  OBVIOUS
<1>4. /\ s \in Seq(T) /\ Len(s) = Height /\ t \in Seq(T) /\ Len(t) = Height /\ Height \in Nat
      /\ y \in 1 .. Height
  BY <1>2, <1>3, SurfaceSequence DEF Rows
<1>5. \A r \in Rows, c \in Columns : t[r][c] = IF r = y /\ c = x THEN g ELSE s[r][c]
  BY <1>1 DEF Draw
<1>6. \A r \in Rows : s[r] \in [Columns -> Cells] /\ t[r] \in [Columns -> Cells]
  BY <1>2 DEF Surfaces
<1>7. \A i \in 1 .. Height : i # y => t[i] = s[i]
  <2> SUFFICES ASSUME NEW i \in Rows, i # y PROVE t[i] = s[i]
    BY DEF Rows
  <2>1. \A c \in Columns : t[i][c] = s[i][c]
    BY <1>5
  <2> QED
    BY <1>6, <2>1
<1>8. PICK a \in Seq(T), b \in Seq(T) :
         /\ s = Append(a, s[y]) \o b
         /\ t = Append(a, t[y]) \o b
         /\ \A i \in 1 .. Len(b) : y + i \in 1 .. Len(s) /\ b[i] = s[y + i]
  <2>1. SameButAt(s, t, y) /\ y \in 1 .. Len(s)
    BY <1>4, <1>7 DEF SameButAt
  <2>2. PICK a \in Seq(T), b \in Seq(T) : CutBehind(a, b, s, t, y)
    BY <1>4, <2>1, CutInTwo
  <2> QED
    BY <2>2 DEF CutBehind
<1>9. \A i \in 1 .. Len(b) : AllBlank(b[i])
  <2> TAKE i \in 1 .. Len(b)
  <2>1. y + i \in Rows /\ b[i] = s[y + i] /\ y + i > y
    BY <1>4, <1>8 DEF Rows
  <2>2. Len(s[y + i]) = Width /\ Width \in Nat
    BY <1>6, <2>1, RowSequence
  <2>3. \A c \in Columns : s[y + i][c] = Blank
    BY <2>1 DEF BlankBehind
  <2> QED
    BY <2>1, <2>2, <2>3 DEF AllBlank, Columns
<1>10. Shown(b) = <<>>
  BY <1>3, <1>9, BlankRowsShowNothing
<1>11. ASSUME NEW row \in T
       PROVE  Shown(Append(a, row) \o b) = Shown(a) \o FlatMap(Mark, row)
  <2>1. PICK c : c = Append(a, row)
    OBVIOUS
  <2>2. c \in Seq(T)
    BY <2>1
  <2>3. Shown(c) = Shown(a) \o FlatMap(Mark, row)
    BY <1>3, <2>1, ShownAppend
  <2>4. Shown(c \o b) = Shown(c) \o Shown(b)
    BY <1>3, <2>2, ShownConcat
  <2>5. Shown(c) \in Seq(Cells)
    BY <1>3, <2>2, ShownType
  <2> QED
    BY <1>10, <2>1, <2>3, <2>4, <2>5, ConcatEmpty
<1>12. PICK row \in T, other \in T : row = s[y] /\ other = t[y]
  BY <1>4
<1>13. FlatMap(Mark, other) = FlatMap(Mark, row) \o Mark[g]
  <2>1. Len(row) = Width /\ Len(other) = Width /\ Width \in Nat
    BY <1>6, <1>12, RowSequence
  <2>2. x \in 1 .. Width
    BY DEF Columns
  <2>3. \A c \in 1 .. Width : other[c] = IF c = x THEN g ELSE row[c]
    BY <1>5, <1>12 DEF Columns
  <2>4. \A c \in 1 .. Width : c >= x => row[c] = Blank
    BY <1>12 DEF BlankBehind, Columns
  <2>5. DrawnAt(row, other, x, g)
    BY <2>1, <2>2, <2>3, <2>4 DEF DrawnAt, SameButAt
  <2>6. x \in 1 .. Len(row)
    BY <2>1, <2>2
  <2> QED
    BY <1>3, <2>5, <2>6, DrawnRow
<1>14. Shown(s) = Shown(a) \o FlatMap(Mark, row)
  BY <1>8, <1>11, <1>12
<1>15. Shown(t) = Shown(a) \o FlatMap(Mark, other)
  BY <1>8, <1>11, <1>12
<1>16. Shown(a) \in Seq(Cells) /\ FlatMap(Mark, row) \in Seq(Cells) /\ Mark[g] \in Seq(Cells)
  BY <1>3, ShownType, MarkMaps, FlatMapType DEF Maps
<1>17. (Shown(a) \o FlatMap(Mark, row)) \o Mark[g] = Shown(a) \o (FlatMap(Mark, row) \o Mark[g])
  <2>1. PICK p \in Seq(Cells), q \in Seq(Cells), m \in Seq(Cells) :
           p = Shown(a) /\ q = FlatMap(Mark, row) /\ m = Mark[g]
    BY <1>16
  <2>2. (p \o q) \o m = p \o (q \o m)
    BY ONLY p \in Seq(Cells), q \in Seq(Cells), m \in Seq(Cells)
  <2> QED
    BY <2>1, <2>2
<1> QED
  BY <1>1, <1>13, <1>14, <1>15, <1>17

-----------------------------------------------------------------------------
\* TextInReadingOrder alone is not inductive: what the next character does to
\* the text depends on the cells from the cursor on, and on the cursor, which
\* text alone leaves behind the first column and row.
TextInv ==
    typed.ordered =>
        /\ ~region.active
        /\ m_x_position \in Coordinate /\ m_y_position \in Coordinate
        /\ BlankBehind(surface, m_x_position, m_y_position)
        /\ \E above \in Seq(Cells) : typed.glyphs = above \o Shown(surface)

LEMMA ShownGlyphs == IInv => GlyphsShown = Shown(surface)
<1> SUFFICES ASSUME IInv PROVE GlyphsShown = Shown(surface)
  OBVIOUS
<1>1. PICK cells : cells = FlattenSeq(surface)
  OBVIOUS
<1>2. cells \in Seq(Cells)
  BY <1>1, SurfaceSequence, FlattenType DEF IInv, TextTyped, ScreenTyped
<1>3. [i \in DOMAIN cells |-> IF cells[i] = Blank THEN <<>> ELSE <<cells[i]>>] = Image(Mark, cells)
  <2>1. \A i \in DOMAIN cells : cells[i] \in Cells
    BY <1>2
  <2> QED
    BY <2>1 DEF Mark, Image
<1> QED
  BY <1>1, <1>3 DEF GlyphsShown, Shown, FlatMap

LEMMA OrderedText == IInv /\ TextInv => TextInReadingOrder
<1> SUFFICES ASSUME IInv, TextInv, typed.ordered PROVE IsSuffix(GlyphsShown, typed.glyphs)
  BY DEF TextInReadingOrder
<1>1. PICK above \in Seq(Cells) : typed.glyphs = above \o Shown(surface)
  BY DEF TextInv
<1>2. PICK shown \in Seq(Cells) : shown = Shown(surface)
  BY SurfaceSequence, ShownType DEF IInv, TextTyped, ScreenTyped
<1>3. IsSuffix(shown, above \o shown)
  BY SuffixOfConcat
<1> QED
  BY <1>1, <1>2, <1>3, ShownGlyphs

LEMMA BlankText ==
    /\ 1 \in Coordinate
    /\ BlankBehind(BlankSurface, 1, 1)
    /\ <<>> = <<>> \o Shown(BlankSurface)
<1>1. BlankBehind(BlankSurface, 1, 1)
  BY DEF BlankBehind, BlankSurface, BlankRow
<1>2. <<>> \o <<>> = <<>>
  OBVIOUS
<1>3. 1 \in Coordinate
  BY DEF Coordinate
<1> QED
  BY <1>1, <1>2, <1>3, BlankSurfaceShows

\* A scroll of the whole screen leaves the end of the text.
LEMMA ScrollKeepsEnd ==
    ASSUME IInv, ~region.active,
           NEW above \in Seq(Cells), typed.glyphs = above \o Shown(surface)
    PROVE  /\ ScrolledSurface \in Surfaces
           /\ \A c \in Columns : ScrolledSurface[Height][c] = Blank
           /\ \E lost \in Seq(Cells) : typed.glyphs = lost \o Shown(ScrolledSurface)
<1>1. PICK s \in Surfaces : s = surface
  BY DEF IInv, TextTyped, ScreenTyped
<1>2. PICK t \in Surfaces : t = ScrolledSurface
  BY ScrolledTypes
<1>3. t = ScrollRows(s, 1, Height)
  BY <1>1, <1>2 DEF ScrolledSurface
<1>4. /\ Shown(s) = FlatMap(Mark, s[1]) \o Shown(t)
      /\ s[1] \in Seq(Cells)
      /\ \A c \in Columns : t[Height][c] = Blank
  BY <1>3, ScrollShows
<1>5. PICK first \in Seq(Cells) : first = FlatMap(Mark, s[1])
  BY <1>4, MarkMaps, FlatMapType
<1>6. PICK rest \in Seq(Cells) : rest = Shown(t)
  BY SurfaceSequence, ShownType
<1>7. above \o (first \o rest) = (above \o first) \o rest
  BY ONLY above \in Seq(Cells), first \in Seq(Cells), rest \in Seq(Cells)
<1>8. above \o first \in Seq(Cells)
  OBVIOUS
<1> QED
  BY <1>1, <1>2, <1>4, <1>5, <1>6, <1>7, <1>8

LEMMA NewLineText == ASSUME IInv, TextInv, NewLine, UNCHANGED region PROVE TextInv'
<1> SUFFICES ASSUME typed.ordered
             PROVE  /\ ~region.active
                    /\ m_x_position' \in Coordinate /\ m_y_position' \in Coordinate
                    /\ BlankBehind(surface', m_x_position', m_y_position')
                    /\ \E above \in Seq(Cells) : typed.glyphs = above \o Shown(surface')
  <2>1. typed' = typed
    BY DEF NewLine
  <2> QED
    BY <2>1 DEF TextInv
<1>1. PICK above \in Seq(Cells) : typed.glyphs = above \o Shown(surface)
  BY DEF TextInv
<1>2. ~region.active /\ BlankBehind(surface, m_x_position, m_y_position)
  BY DEF TextInv
<1>3. /\ m_y_position \in Nat /\ Height \in Nat /\ RowsDown \in {0, 1}
      /\ 1 \in Coordinate /\ Height \in Coordinate
      /\ m_y_position + RowsDown + 1 \in Coordinate
  BY SizeType DEF TextInv, Coordinate, RowsDown
<1>4. CASE m_y_position + RowsDown + 1 > Height
  <2>1. surface' = ScrolledSurface /\ m_x_position' = 1 /\ m_y_position' = Height
    BY <1>2, <1>4 DEF NewLine
  <2>2. BlankBehind(surface', 1, Height)
    BY <1>1, <1>2, <1>3, <2>1, ScrollKeepsEnd DEF BlankBehind, Rows
  <2> QED
    BY <1>1, <1>2, <1>3, <2>1, <2>2, ScrollKeepsEnd
<1>5. CASE ~(m_y_position + RowsDown + 1 > Height)
  <2>1. surface' = surface /\ m_x_position' = 1 /\ m_y_position' = m_y_position + RowsDown + 1
    BY <1>2, <1>5 DEF NewLine
  <2>2. BlankBehind(surface', 1, m_y_position + RowsDown + 1)
    BY <1>2, <1>3, <2>1 DEF BlankBehind, Rows
  <2> QED
    BY <1>1, <1>2, <1>3, <2>1, <2>2
<1> QED
  BY <1>4, <1>5

LEMMA GlyphText ==
    ASSUME IInv, TextInv, NEW g \in Cells, Glyph(g), UNCHANGED region
    PROVE  TextInv'
<1>1. typed' = IF typed.ordered /\ g # Blank
               THEN [typed EXCEPT !.glyphs = Append(@, g)] ELSE typed
  BY DEF Glyph
<1>2. typed \in [glyphs : Seq(Cells), ordered : BOOLEAN]
  BY DEF IInv, TextTyped, HistoryTyped
<1> SUFFICES ASSUME typed.ordered
             PROVE  /\ ~region.active
                    /\ m_x_position' \in Coordinate /\ m_y_position' \in Coordinate
                    /\ BlankBehind(surface', m_x_position', m_y_position')
                    /\ \E above \in Seq(Cells) : typed'.glyphs = above \o Shown(surface')
  BY <1>1, <1>2 DEF TextInv
<1>3. PICK above \in Seq(Cells) : typed.glyphs = above \o Shown(surface)
  BY DEF TextInv
<1>4. ~region.active /\ BlankBehind(surface, m_x_position, m_y_position)
  BY DEF TextInv
<1>5. /\ m_x_position \in Nat /\ m_x_position >= 1 /\ m_y_position \in Nat /\ m_y_position >= 1
      /\ Height \in Nat /\ Height >= 1 /\ Width \in Nat /\ Width >= 1
  BY SizeType DEF TextInv, Coordinate
<1>6. ColumnOf \in Columns /\ RowOf \in Nat /\ RowOf >= 1
  BY <1>4, <1>5 DEF ColumnOf, RowOf, WrapsFirst, Columns
\* The surface the character is drawn on, and its row.
<1>7. \E s \in Surfaces, y \in Rows :
         /\ BlankBehind(s, ColumnOf, y)
         /\ \E lost \in Seq(Cells) : typed.glyphs = lost \o Shown(s)
         /\ surface' = Draw(s, ColumnOf, y, g)
         /\ \/ m_x_position' = ColumnOf + 1 /\ m_y_position' = y
            \/ m_x_position' = 1 /\ m_y_position' = y + 1
  <2>1. CASE RowOf > Height
    <3>1. GlyphScrolls
      BY <2>1 DEF GlyphScrolls
    <3>2. /\ surface' = Draw(ScrolledSurface, ColumnOf, Height, g)
          /\ \/ m_x_position' = ColumnOf + 1 /\ m_y_position' = Height
             \/ m_x_position' = 1 /\ m_y_position' = Height + 1
      BY <1>4, <3>1 DEF Glyph
    <3>3. BlankBehind(ScrolledSurface, ColumnOf, Height)
      BY <1>3, <1>4, <1>5, ScrollKeepsEnd DEF BlankBehind, Rows
    <3>4. Height \in Rows
      BY <1>5 DEF Rows
    <3> QED
      BY <1>3, <1>4, <3>2, <3>3, <3>4, ScrollKeepsEnd
  <2>2. CASE ~(RowOf > Height)
    <3>1. ~GlyphScrolls
      BY <1>4, <2>2 DEF GlyphScrolls
    <3>2. /\ surface' = Draw(surface, ColumnOf, RowOf, g)
          /\ \/ m_x_position' = ColumnOf + 1 /\ m_y_position' = RowOf
             \/ m_x_position' = 1 /\ m_y_position' = RowOf + 1
      BY <1>4, <3>1 DEF Glyph
    <3>3. BlankBehind(surface, ColumnOf, RowOf)
      BY <1>4, <1>5 DEF BlankBehind, Rows, Columns, ColumnOf, RowOf
    <3>4. RowOf \in Rows
      BY <1>5, <1>6, <2>2 DEF Rows
    <3> QED
      BY <1>3, <3>2, <3>3, <3>4 DEF IInv, TextTyped, ScreenTyped
  <2> QED
    BY <2>1, <2>2
<1>8. PICK s \in Surfaces, y \in Rows :
         /\ BlankBehind(s, ColumnOf, y)
         /\ \E lost \in Seq(Cells) : typed.glyphs = lost \o Shown(s)
         /\ surface' = Draw(s, ColumnOf, y, g)
         /\ \/ m_x_position' = ColumnOf + 1 /\ m_y_position' = y
            \/ m_x_position' = 1 /\ m_y_position' = y + 1
  BY <1>7
<1>9. BlankBehind(surface', m_x_position', m_y_position')
  <2>1. \A r \in Rows, c \in Columns :
           surface'[r][c] = IF r = y /\ c = ColumnOf THEN g ELSE s[r][c]
    BY <1>8 DEF Draw
  <2> SUFFICES ASSUME NEW r \in Rows, NEW c \in Columns,
                      r > m_y_position' \/ (r = m_y_position' /\ c >= m_x_position')
               PROVE  surface'[r][c] = Blank
    BY DEF BlankBehind
  <2>2. r > y \/ (r = y /\ c >= ColumnOf + 1)
    BY <1>5, <1>6, <1>8 DEF Rows, Columns
  <2>3. ~(r = y /\ c = ColumnOf) /\ (r > y \/ (r = y /\ c >= ColumnOf))
    BY <1>5, <1>6, <2>2 DEF Rows, Columns
  <2> QED
    BY <1>8, <2>1, <2>3 DEF BlankBehind
<1>10. \E lost \in Seq(Cells) : typed'.glyphs = lost \o Shown(surface')
  <2>1. PICK lost \in Seq(Cells) : typed.glyphs = lost \o Shown(s)
    BY <1>8
  <2>2. PICK shown \in Seq(Cells) : shown = Shown(s)
    BY SurfaceSequence, ShownType
  <2>3. Shown(surface') = shown \o Mark[g]
    BY <1>6, <1>8, <2>2, DrawShows
  <2>4. typed'.glyphs = typed.glyphs \o Mark[g]
    <3>1. CASE g = Blank
      <4>1. Mark[g] = <<>> /\ typed' = typed
        BY <1>1, <3>1, BlankTypes DEF Mark
      <4>2. typed.glyphs \in Seq(Cells)
        BY <1>2
      <4> QED
        BY <4>1, <4>2, ConcatEmpty
    <3>2. CASE g # Blank
      <4>1. Mark[g] = <<g>> /\ typed'.glyphs = Append(typed.glyphs, g)
        BY <1>1, <1>2, <3>2 DEF Mark
      <4>2. typed.glyphs \in Seq(Cells)
        BY <1>2
      <4> QED
        BY <4>1, <4>2, ConcatOne
    <3> QED
      BY <3>1, <3>2
  <2>5. Mark[g] \in Seq(Cells)
    BY MarkMaps DEF Maps
  <2>6. (lost \o shown) \o Mark[g] = lost \o (shown \o Mark[g])
    <3>1. PICK m \in Seq(Cells) : m = Mark[g]
      BY <2>5
    <3>2. (lost \o shown) \o m = lost \o (shown \o m)
      BY ONLY lost \in Seq(Cells), shown \in Seq(Cells), m \in Seq(Cells)
    <3> QED
      BY <3>1, <3>2
  <2> QED
    BY <2>1, <2>2, <2>3, <2>4, <2>6
<1>11. m_x_position' \in Coordinate /\ m_y_position' \in Coordinate
  BY <1>6, <1>8 DEF Rows, Columns, Coordinate
<1> QED
  BY <1>4, <1>9, <1>10, <1>11

LEMMA CharacterText ==
    ASSUME IInv, TextInv, NEW ch, Character(ch), UNCHANGED region
    PROVE  TextInv'
<1>1. CASE FormFeed
  <2>1. \/ ~typed'.ordered
        \/ ~region.active /\ typed'.glyphs = <<>>
    BY <1>1 DEF FormFeed, Unordered, NothingTyped
  <2>2. surface' = BlankSurface /\ m_x_position' = 1 /\ m_y_position' = 1
    BY <1>1 DEF FormFeed
  <2>3. PICK e \in Seq(Cells) : e = <<>>
    <3>1. <<>> \in Seq(Cells)
      OBVIOUS
    <3> QED
      BY <3>1, Zenon
  <2> QED
    BY <2>1, <2>2, <2>3, BlankText DEF TextInv
<1>2. CASE BackSpace \/ CarriageReturn
  BY <1>2 DEF BackSpace, CarriageReturn, Unordered, TextInv
<1> QED
  BY <1>1, <1>2, NewLineText, GlyphText DEF Character

LEMMA CommandText ==
    ASSUME IInv, TextInv, NEW c \in Commands,
           \/ MoveCommand(c) \/ DeleteCharacter(c) \/ EraseDisplay(c) \/ EraseToEol(c)
           \/ SaveCursorPos(c) \/ ScrollRegion(c) \/ WrapMode(c)
           \/ ReportPosition(c) \/ StartRepeat(c) \/ ControlNewLine(c)
    PROVE  TextInv'
<1>1. CASE ~typed'.ordered
  BY <1>1 DEF TextInv
<1>2. CASE UNCHANGED <<surface, cursor, typed>> /\ (~region.active => ~region'.active)
  BY <1>2 DEF TextInv, cursor
<1>3. MoveCommand(c) \/ DeleteCharacter(c) \/ EraseToEol(c) => ~typed'.ordered
  BY DEF MoveCommand, CursorUp, CursorDown, CursorForward, CursorBackward, CursorNextLine,
         CursorPrevLine, CursorXPosition, CursorPosition, LinePosAbsolute, RestoreCursorPos,
         ControlDown, ControlUp, MoveTo, DeleteCharacter, EraseToEol, Unordered
<1>4. SaveCursorPos(c) \/ WrapMode(c) \/ ReportPosition(c) \/ StartRepeat(c)
      => UNCHANGED <<surface, cursor, typed, region>>
  BY DEF SaveCursorPos, WrapMode, ReportPosition, StartRepeat, KeepsScreen, screen, modes
<1>5. CASE EraseDisplay(c)
  <2>1. ~typed'.ordered \/ (FormFeed /\ UNCHANGED region)
    BY <1>5 DEF EraseDisplay, EraseInPicture, Unordered, modes
  <2>2. FormFeed => Character("FF")
    BY DEF Character
  <2> QED
    BY <1>1, <2>1, <2>2, CharacterText
<1>6. CASE ScrollRegion(c)
  <2>1. \/ ~typed'.ordered
        \/ SetScrollRegion(0, 0) /\ UNCHANGED <<surface, cursor, typed>>
    BY <1>6 DEF ScrollRegion, Unordered, KeepsScreen, screen
  <2>2. SetScrollRegion(0, 0) => ~region'.active
    BY DEF SetScrollRegion, IInv, RegionTyped
  <2> QED
    BY <1>1, <1>2, <2>1, <2>2
<1>7. CASE ControlNewLine(c)
  BY <1>7, NewLineText DEF ControlNewLine, modes
<1> QED
  BY <1>1, <1>2, <1>3, <1>4, <1>5, <1>6, <1>7

\* As long as only text came since the screen was cleared, the glyphs on the
\* screen, row by row, are the end of the text: textInput wraps, goes to the
\* next row and scrolls without dropping, doubling or overwriting one, whatever
\* the size of the screen and with line wrap (ESC [ ? 7 h) on or off.
THEOREM TextIsOrdered == Spec => []TextInReadingOrder
<1>1. Init => TextInv
  <2> SUFFICES ASSUME Init PROVE TextInv
    OBVIOUS
  <2>1. PICK e \in Seq(Cells) : e = <<>>
    <3>1. <<>> \in Seq(Cells)
      OBVIOUS
    <3> QED
      BY <3>1, Zenon
  <2> QED
    BY <2>1, BlankText DEF Init, TextInv, NothingTyped
<1>2. IInv /\ TextInv /\ [Next]_vars => TextInv'
  <2> SUFFICES ASSUME IInv, TextInv, [Next]_vars PROVE TextInv'
    OBVIOUS
  <2>1. CASE UNCHANGED vars
    BY <2>1 DEF vars, screen, cursor, modes, TextInv
  <2>2. CASE \E ch : Character(ch) /\ UNCHANGED modes
    BY <2>2, CharacterText DEF modes
  <2>3. CASE CommandInput
    BY <2>3, CommandText DEF CommandInput, MoveCommand
  <2> QED
    BY <2>1, <2>2, <2>3 DEF Next, TextInput, RepeatCharacter
<1>3. Spec => []IInv
  BY InitTyped, Inductive, PTL DEF Spec
<1> QED
  BY <1>1, <1>2, <1>3, OrderedText, PTL DEF Spec

-----------------------------------------------------------------------------
(* GraphicsMode.  OrderlyNumbersShow alone is not inductive: what          *)
(* SetForeground does next depends on the two attributes, and              *)
(* RestoreCursor brings back what SaveCursor kept.  Fits says what the     *)
(* attributes are while the numbers come in order, of the current colours  *)
(* and of the saved ones.                                                  *)

AttributeOf(w) ==
    IF w.flip = "reverse" THEN 7 ELSE IF w.flip = "blink" THEN 5
    ELSE IF w.bold THEN 1 ELSE 0

Fits(ok, w, attribute, previous, f, b) ==
    ok => /\ Shows(w, f, b)
          /\ attribute = AttributeOf(w)
          /\ previous = IF w.bold THEN 1 ELSE 0

CurrentFits == Fits(orderly, want, m_color_attribute, m_prev_color_attribute, fg, bg)
SavedFits ==
    Fits(savedColours.orderly, savedColours.want, savedColours.attribute,
         savedColours.previous, savedColours.fg, savedColours.bg)

GraphicsInv == GraphicsTypeOK /\ CurrentFits /\ SavedFits

(* The colours of the tables are colours.                                  *)
LEMMA TableColours ==
    ASSUME NEW n \in Hues
    PROVE  Dark(n) \in Colours /\ Light(n) \in Colours
BY DEF Dark, Light, Colours, Palette

LEMMA DefaultColours == Black \in Colours /\ Grey \in Colours /\ Plain \in WantType
BY HuesAssumption DEF Black, Grey, Dark, Colours, Palette, Plain, WantType

LEMMA LightenedColours ==
    ASSUME NEW c \in Colours, c # Unset
    PROVE  Light(c.hue) \in Colours
BY DEF Light, Colours, Palette

(* The wishes stay wishes.                                                 *)
LEMMA WishTypes ==
    ASSUME NEW w \in WantType, NEW n \in Hues
    PROVE  /\ [w EXCEPT !.bold = TRUE] \in WantType
           /\ [w EXCEPT !.flip = "none"] \in WantType
           /\ [w EXCEPT !.flip = "blink"] \in WantType
           /\ [w EXCEPT !.flip = "reverse"] \in WantType
           /\ [w EXCEPT !.ink = n] \in WantType
           /\ [w EXCEPT !.paper = n] \in WantType
BY DEF WantType

LEMMA GraphicsInitInv == GraphicsInit => GraphicsInv
<1> SUFFICES ASSUME GraphicsInit PROVE GraphicsInv
  OBVIOUS
<1>1. GraphicsTypeOK
  BY DefaultColours DEF GraphicsInit, GraphicsTypeOK, Colours
<1>2. CurrentFits /\ SavedFits
  BY DEF GraphicsInit, CurrentFits, SavedFits, Fits, Shows, AttributeOf, Plain, Grey, Black
<1> QED
  BY <1>1, <1>2 DEF GraphicsInv

-----------------------------------------------------------------------------
(* Type correctness of a step.                                             *)

LEMMA WishHistoryTypes ==
    ASSUME GraphicsTypeOK, NEW w \in WantType, NEW b \in BOOLEAN, Asks(w, b)
    PROVE  want' \in WantType /\ orderly' \in BOOLEAN
BY DefaultColours DEF GraphicsTypeOK, Asks

LEMMA GraphicsTypeStep == GraphicsTypeOK /\ [GraphicsNext]_graphicsVars => GraphicsTypeOK'
<1> SUFFICES ASSUME GraphicsTypeOK, [GraphicsNext]_graphicsVars PROVE GraphicsTypeOK'
  OBVIOUS
<1> USE DEF GraphicsTypeOK
<1>0. want \in WantType /\ 0 \in Hues
  BY HuesAssumption
<1>1. CASE Reset
  BY <1>1, DefaultColours DEF Reset, ResetColours
<1>2. CASE Bold
  <2>1. fg' \in Colours /\ bg' \in Colours
    BY <1>2, LightenedColours DEF Bold, BoldOn
  <2>2. want' \in WantType /\ orderly' \in BOOLEAN
    BY <1>2, <1>0, WishTypes, WishHistoryTypes DEF Bold
  <2> QED
    BY <1>2, <2>1, <2>2 DEF Bold, BoldOn
<1>3. CASE Minor
  <2>1. want' \in WantType /\ orderly' \in BOOLEAN
    BY <1>3, <1>0, WishHistoryTypes DEF Minor
  <2> QED
    BY <1>3, <2>1 DEF Minor, OnlyAttribute
<1>4. CASE Blink
  <2>1. want' \in WantType /\ orderly' \in BOOLEAN
    BY <1>4, <1>0, WishTypes, WishHistoryTypes DEF Blink
  <2> QED
    BY <1>4, <2>1 DEF Blink, Flip
<1>5. CASE ReverseVideo
  <2>1. want' \in WantType /\ orderly' \in BOOLEAN
    BY <1>5, <1>0, WishTypes, WishHistoryTypes DEF ReverseVideo
  <2> QED
    BY <1>5, <2>1 DEF ReverseVideo, Flip
<1>6. CASE NotBold
  <2>1. want' \in WantType /\ orderly' \in BOOLEAN
    BY <1>6, <1>0, WishHistoryTypes DEF NotBold
  <2> QED
    BY <1>6, <2>1 DEF NotBold, BoldOff
<1>7. CASE NotReverse
  <2>1. want' \in WantType /\ orderly' \in BOOLEAN
    BY <1>7, <1>0, WishTypes, WishHistoryTypes DEF NotReverse
  <2> QED
    BY <1>7, <2>1 DEF NotReverse, Flip
<1>8. CASE Foreground
  <2> PICK n \in Hues : SetForeground(n) /\ Asks([want EXCEPT !.ink = n], TRUE)
    BY <1>8 DEF Foreground
  <2>1. want' \in WantType /\ orderly' \in BOOLEAN
    BY WishTypes, WishHistoryTypes
  <2>2. fg' \in Colours /\ bg' \in Colours
    BY TableColours DEF SetForeground
  <2> QED
    BY <1>8, <2>1, <2>2 DEF Foreground, SetForeground
<1>9. CASE Background
  <2> PICK n \in Hues :
         SetBackground(n) /\ Asks([want EXCEPT !.paper = n], want.flip # "blink")
    BY <1>9 DEF Background
  <2>1. want' \in WantType /\ orderly' \in BOOLEAN
    BY WishTypes, WishHistoryTypes
  <2>2. fg' \in Colours /\ bg' \in Colours
    BY TableColours DEF SetBackground
  <2> QED
    BY <1>9, <2>1, <2>2 DEF Background, SetBackground
<1>10. CASE SaveCursor
  BY <1>10 DEF SaveCursor, colours
<1>11. CASE RestoreCursor
  BY <1>11 DEF RestoreCursor
<1>12. CASE UNCHANGED graphicsVars
  BY <1>12 DEF graphicsVars, colours
<1> QED
  BY <1>1, <1>2, <1>3, <1>4, <1>5, <1>6, <1>7, <1>8, <1>9, <1>10, <1>11, <1>12 DEF GraphicsNext

-----------------------------------------------------------------------------
(* The colours go on fitting the wishes.                                   *)

LEMMA FitsStep == GraphicsInv /\ [GraphicsNext]_graphicsVars => CurrentFits' /\ SavedFits'
<1> SUFFICES ASSUME GraphicsInv, [GraphicsNext]_graphicsVars PROVE CurrentFits' /\ SavedFits'
  OBVIOUS
<1> USE DEF CurrentFits, SavedFits, Fits, AttributeOf
<1>0. GraphicsTypeOK /\ CurrentFits /\ SavedFits
  BY DEF GraphicsInv
<1>1. CASE Reset
  BY <1>0, <1>1 DEF Reset, ResetColours, Shows, Plain, Grey, Black
<1>2. CASE Bold
  <2>1. SavedFits'
    BY <1>0, <1>2 DEF Bold
  <2>2. ASSUME orderly'
        PROVE  /\ want' = [want EXCEPT !.bold = TRUE] /\ want.flip = "none"
               /\ fg = (IF want.bold THEN Light(want.ink) ELSE Dark(want.ink))
               /\ bg = Dark(want.paper)
    BY <1>0, <1>2, <2>2 DEF Bold, Asks, Shows
  <2>3. ASSUME orderly' PROVE fg # Unset /\ fg.hue = want.ink
    BY <1>0, <2>2, <2>3, HuesAssumption DEF GraphicsTypeOK, WantType, Light, Dark, Unset
  <2>4. ASSUME orderly' PROVE Shows(want', fg', bg')
    BY <1>0, <1>2, <2>2, <2>3, <2>4 DEF GraphicsTypeOK, WantType, Bold, BoldOn, Shows
  <2>5. ASSUME orderly' PROVE m_color_attribute' = AttributeOf(want') /\ want'.bold
    BY <1>0, <1>2, <2>2, <2>5 DEF GraphicsTypeOK, WantType, Bold, BoldOn
  <2> QED
    BY <1>2, <2>1, <2>4, <2>5 DEF Bold, BoldOn
<1>3. CASE Minor
  BY <1>0, <1>3 DEF Minor, OnlyAttribute, Asks
<1>4. CASE Blink
  BY <1>0, <1>4 DEF Blink, Flip, Asks, Shows, GraphicsTypeOK, WantType
<1>5. CASE ReverseVideo
  BY <1>0, <1>5 DEF ReverseVideo, Flip, Asks, Shows, GraphicsTypeOK, WantType
<1>6. CASE NotBold
  BY <1>0, <1>6 DEF NotBold, BoldOff, Asks, Shows
<1>7. CASE NotReverse
  BY <1>0, <1>7 DEF NotReverse, Flip, Asks, Shows, GraphicsTypeOK, WantType
<1>8. CASE Foreground
  <2> PICK n \in Hues : SetForeground(n) /\ Asks([want EXCEPT !.ink = n], TRUE)
    BY <1>8 DEF Foreground
  <2>1. SavedFits'
    BY <1>0, <1>8 DEF Foreground
  <2>2. SUFFICES ASSUME orderly'
        PROVE  /\ Shows(want', fg', bg')
               /\ m_color_attribute' = AttributeOf(want')
               /\ m_prev_color_attribute' = IF want'.bold THEN 1 ELSE 0
    BY <2>1
  <2>3. orderly /\ want' = [want EXCEPT !.ink = n]
    BY <2>2 DEF Asks
  <2>4. /\ want'.bold = want.bold /\ want'.flip = want.flip /\ want'.ink = n
        /\ want'.paper = want.paper
        /\ want.bold \in BOOLEAN /\ want.flip \in {"none", "blink", "reverse"}
    BY <1>0, <2>3 DEF GraphicsTypeOK, WantType
  <2>5. /\ Shows(want, fg, bg)
        /\ m_color_attribute = AttributeOf(want)
        /\ m_prev_color_attribute = IF want.bold THEN 1 ELSE 0
    BY <1>0, <2>3
  <2>6. /\ m_color_attribute' = AttributeOf(want')
        /\ m_prev_color_attribute' = IF want'.bold THEN 1 ELSE 0
    BY <2>4, <2>5 DEF SetForeground
  <2>7. Shows(want', fg', bg')
    BY <2>4, <2>5 DEF SetForeground, Flipped, Shows
  <2> QED
    BY <2>6, <2>7
<1>9. CASE Background
  <2> PICK n \in Hues :
         SetBackground(n) /\ Asks([want EXCEPT !.paper = n], want.flip # "blink")
    BY <1>9 DEF Background
  <2>1. SavedFits'
    BY <1>0, <1>9 DEF Background
  <2>2. SUFFICES ASSUME orderly'
        PROVE  /\ Shows(want', fg', bg')
               /\ m_color_attribute' = AttributeOf(want')
               /\ m_prev_color_attribute' = IF want'.bold THEN 1 ELSE 0
    BY <2>1
  <2>3. orderly /\ want' = [want EXCEPT !.paper = n] /\ want.flip # "blink"
    BY <2>2 DEF Asks
  <2>4. /\ want'.bold = want.bold /\ want'.flip = want.flip /\ want'.paper = n
        /\ want'.ink = want.ink
        /\ want.bold \in BOOLEAN /\ want.flip \in {"none", "blink", "reverse"}
    BY <1>0, <2>3 DEF GraphicsTypeOK, WantType
  <2>5. /\ Shows(want, fg, bg)
        /\ m_color_attribute = AttributeOf(want)
        /\ m_prev_color_attribute = IF want.bold THEN 1 ELSE 0
    BY <1>0, <2>3
  <2>6. /\ m_color_attribute' = AttributeOf(want')
        /\ m_prev_color_attribute' = IF want'.bold THEN 1 ELSE 0
    BY <2>4, <2>5 DEF SetBackground
  <2>7. Shows(want', fg', bg')
    BY <2>3, <2>4, <2>5 DEF SetBackground, Flipped, Shows
  <2> QED
    BY <2>6, <2>7
<1>10. CASE SaveCursor
  BY <1>0, <1>10 DEF SaveCursor, colours
<1>11. CASE RestoreCursor
  BY <1>0, <1>11 DEF RestoreCursor
<1>12. CASE UNCHANGED graphicsVars
  BY <1>0, <1>12 DEF graphicsVars, colours
<1> QED
  BY <1>1, <1>2, <1>3, <1>4, <1>5, <1>6, <1>7, <1>8, <1>9, <1>10, <1>11, <1>12 DEF GraphicsNext

LEMMA GraphicsInductiveStep == GraphicsInv /\ [GraphicsNext]_graphicsVars => GraphicsInv'
BY GraphicsTypeStep, FitsStep DEF GraphicsInv

LEMMA GraphicsInductive == GraphicsSpec => []GraphicsInv
<1>1. GraphicsInit => GraphicsInv
  BY GraphicsInitInv
<1>2. GraphicsInv /\ [GraphicsNext]_graphicsVars => GraphicsInv'
  BY GraphicsInductiveStep
<1> QED
  BY <1>1, <1>2, PTL DEF GraphicsSpec

-----------------------------------------------------------------------------
(* The attributes stay among the numbers the switches of                   *)
(* sequenceGraphicsModeDisplay know, and the saved ones too.               *)
THEOREM GraphicsTypeCorrect == GraphicsSpec => []GraphicsTypeOK
<1>1. GraphicsInv => GraphicsTypeOK
  BY DEF GraphicsInv
<1> QED
  BY <1>1, GraphicsInductive, PTL

(* Numbers that come in the usual order show the colours they ask for,     *)
(* with any saving and restoring of the cursor between them.               *)
THEOREM OrderlyShown == GraphicsSpec => []OrderlyNumbersShow
<1>1. GraphicsInv => OrderlyNumbersShow
  BY DEF GraphicsInv, CurrentFits, Fits, OrderlyNumbersShow
<1> QED
  BY <1>1, GraphicsInductive, PTL
=============================================================================
