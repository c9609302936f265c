---------------------------- MODULE SequenceParser ----------------------------
(***************************************************************************)
(* SequenceParser and ScreenBuffer (sequence_parser.cpp, screen_buffer.cpp)*)
(* with the scroll region of Renderer (renderer.cpp): the emulated screen. *)
(* The main thread takes the messages of the decoder one after the other;  *)
(* a step is a character of textInput or a command of sequenceInput.       *)
(*                                                                         *)
(* Two copies of the screen are kept: surface, the picture the user sees   *)
(* (one cell of the font bitmap per character), and m_screen_buffer, the   *)
(* characters bufferToClipboard copies for a selection of the mouse.       *)
(* Colors, and m_is_cleared_the_screen, which only chooses the texture     *)
(* drawn before a scroll, are left out.                                    *)
(***************************************************************************)
EXTENDS Integers, Sequences, SequencesExt, FiniteSetsExt

CONSTANTS
    Width, Height,  \* m_term_width, m_term_height
    WrapColumn,     \* the literal 81 of the code
    Glyphs,         \* the printable characters the server sends
    Blank,          \* an empty cell
    Commands,       \* the commands the server sends: records [final, numbers];
                    \* the decoder gives -1 for an empty field
    MaxInputs       \* bound on what the server sends

ASSUME ScreenAssumption ==
    /\ Width \in Nat \ {0}
    /\ Height \in Nat \ {0}
    /\ WrapColumn \in Nat
    /\ Blank \notin Glyphs
    /\ (Glyphs \union {Blank}) \intersect {"FF", "BS", "CR", "CRLF", "LF"} = {}
    /\ \A c \in Commands : c.numbers \in Seq(Nat \union {-1})
    /\ MaxInputs \in Nat

Size == Height * Width
Rows == 1..Height
Columns == 1..Width
Positions == 0..(Size - 1)
Cells == Glyphs \union {Blank}
Formats == {"FF", "BS", "CR", "CRLF", "LF"}     \* CRLF: both in one string
BlankRow == [c \in Columns |-> Blank]
BlankSurface == [r \in Rows |-> BlankRow]
BlankBuffer == [i \in Positions |-> Blank]

VARIABLES
    m_x_position,
    m_y_position,
    m_screen_buffer,
    surface,
    region,         \* m_is_scroll_region_active, m_top_margin, m_bottom_margin
    m_is_line_wrapped,
    saved,          \* m_saved_cursor_x, m_saved_cursor_y
    m_preceeding_sequence,
    repeat,         \* what is left of the string REPEAT_CHARACTER builds
    m_write_queue,  \* the positions reported to the server
    undefined,      \* the undefined behaviour met, or "none"
    inputs,         \* how much the server has sent
    typed,          \* history: the text since the screen was cleared, if only text came
    inStep          \* history: nothing touched only one of the two copies since then

cursor == <<m_x_position, m_y_position>>
screen == <<m_screen_buffer, surface>>
modes == <<region, m_is_line_wrapped, saved>>
vars == <<cursor, screen, modes, m_preceeding_sequence, repeat, m_write_queue,
          undefined, inputs, typed, inStep>>

Unordered == [glyphs |-> <<>>, ordered |-> FALSE]
NothingTyped == [glyphs |-> <<>>, ordered |-> TRUE]

Init ==
    /\ m_x_position = 1
    /\ m_y_position = 1
    /\ m_screen_buffer = BlankBuffer
    /\ surface = BlankSurface
    /\ region = [active |-> FALSE, top |-> 0, bottom |-> 0]
    /\ m_is_line_wrapped = FALSE
    /\ saved = [x |-> 1, y |-> 1]
    /\ m_preceeding_sequence = Blank
    /\ repeat = 0
    /\ m_write_queue = <<>>
    /\ undefined = "none"
    /\ inputs = 0
    /\ typed = NothingTyped
    /\ inStep = TRUE

----------------------------------------------------------------------------
(* The two copies of the screen.                                           *)

\* memmove and memset of the rows from top to bottom.
ScrollRows(s, top, bottom) ==
    [r \in Rows |-> IF r \notin top..bottom THEN s[r]
                    ELSE IF r < bottom THEN s[r + 1]
                    ELSE BlankRow]

\* Faulty: the region is not looked at.
ScrolledSurfaceWhole == ScrollRows(surface, 1, Height)

ScrolledSurface ==
    IF region.active THEN ScrollRows(surface, region.top, region.bottom)
                     ELSE ScrollRows(surface, 1, Height)

\* memmove of a negative number of rows, or from in front of the surface.
BadRegion == region.active /\ ~(1 <= region.top /\ region.top <= region.bottom)

\* Faulty: the vector is not resized.
ScrolledBufferShort ==
    [i \in 0..(Size - Width - 1) |-> m_screen_buffer[i + Width]]

\* The first line is erased and the vector resized, whatever the region is.
ScrolledBuffer ==
    [i \in Positions |-> IF i + Width < Size THEN m_screen_buffer[i + Width] ELSE Blank]

Position(x, y) == (y - 1) * Width + (x - 1)

\* SDL clips what is drawn outside of the surface.
Draw(s, x, y, g) ==
    [r \in Rows |-> [c \in Columns |-> IF r = y /\ c = x THEN g ELSE s[r][c]]]

\* setScreenBuffer tests the position, not row and column.
SetScreenBuffer(b, x, y, g) ==
    [i \in Positions |-> IF i = Position(x, y) THEN g ELSE b[i]]

\* Columns from..to of row y become blank.
ClearLine(s, y, from, to) ==
    [r \in Rows |-> [c \in Columns |-> IF r = y /\ c \in from..to THEN Blank ELSE s[r][c]]]

\* Faulty: the last column is left out.
ClearRangeShort(b, y, from, to) ==
    [i \in Positions |-> IF i \in Position(from, y)..(Position(to, y) - 1) THEN Blank
                         ELSE b[i]]

ClearRange(b, y, from, to) ==
    [i \in Positions |-> IF i \in Position(from, y)..Position(to, y) THEN Blank ELSE b[i]]

\* clearScreenBufferRange indexes the vector without a test.
RangeOverruns(y, from, to) == ~(Position(from, y)..Position(to, y) \subseteq Positions)

----------------------------------------------------------------------------
(* textInput, one character.                                               *)

\* The next one comes from the server, or from ESC [ b.
NextInput ==
    /\ undefined = "none"
    /\ repeat = 0
    /\ inputs < MaxInputs
    /\ inputs' = inputs + 1

FormFeed ==
    /\ surface' = BlankSurface
    /\ m_screen_buffer' = BlankBuffer
    /\ m_x_position' = 1
    /\ m_y_position' = 1
    /\ typed' = IF region.active THEN Unordered ELSE NothingTyped
    /\ inStep' = TRUE
    /\ UNCHANGED undefined

BackSpace ==
    /\ m_x_position' = IF m_x_position > 1 THEN m_x_position - 1 ELSE m_x_position
    /\ typed' = Unordered
    /\ UNCHANGED <<m_y_position, screen, undefined, inStep>>

\* From the column behind the last one a newline goes down by two rows.
RowsDown == IF m_x_position = WrapColumn THEN 1 ELSE 0

CarriageReturn ==
    /\ m_y_position' = m_y_position + RowsDown
    /\ m_x_position' = 1
    /\ typed' = Unordered
    /\ UNCHANGED <<screen, undefined, inStep>>

NewLine ==
    LET y == m_y_position + RowsDown + 1
        scroll == y > Height \/ (region.active /\ y > region.bottom)
    IN  /\ m_x_position' = 1
        /\ m_y_position' = IF ~scroll THEN y
                           ELSE IF region.active THEN region.bottom ELSE Height
        /\ surface' = IF scroll THEN ScrolledSurface ELSE surface
        /\ m_screen_buffer' = IF scroll THEN ScrolledBuffer ELSE m_screen_buffer
        /\ undefined' = IF scroll /\ BadRegion THEN "scroll" ELSE undefined
        /\ inStep' = (inStep /\ ~(scroll /\ region.active))
        /\ UNCHANGED typed

\* Faulty: the line takes one character more.
WrapsFirstLate == m_x_position > Width + 1 /\ ~region.active

\* Where a glyph goes, before the test for scrolling: without a region, to
\* the next row when the line is full.
WrapsFirst == m_x_position > Width /\ ~region.active
RowOf == IF WrapsFirst THEN m_y_position + 1 ELSE m_y_position
ColumnOf == IF WrapsFirst THEN 1 ELSE m_x_position

GlyphScrolls ==
    \/ RowOf > Height
    \/ /\ region.active
       /\ ColumnOf > Width
       /\ region.top <= RowOf /\ RowOf = region.bottom

Glyph(g) ==
    LET inRegion == region.active /\ RowOf \in region.top..region.bottom
        y == IF ~GlyphScrolls THEN RowOf ELSE IF inRegion THEN region.bottom ELSE Height
        x == IF GlyphScrolls /\ inRegion /\ ColumnOf > Width THEN 1 ELSE ColumnOf
        wraps == m_is_line_wrapped /\ x + 1 = WrapColumn
    IN  /\ m_x_position' = IF wraps THEN 1 ELSE x + 1
        /\ m_y_position' = IF wraps THEN y + 1 ELSE y
        /\ surface' = Draw(IF GlyphScrolls THEN ScrolledSurface ELSE surface, x, y, g)
        /\ m_screen_buffer' =
              SetScreenBuffer(IF GlyphScrolls THEN ScrolledBuffer ELSE m_screen_buffer,
                              x, y, g)
        /\ undefined' = IF GlyphScrolls /\ BadRegion THEN "scroll" ELSE undefined
        /\ typed' = IF typed.ordered /\ g # Blank
                    THEN [typed EXCEPT !.glyphs = Append(@, g)]
                    ELSE typed
        /\ inStep' = (inStep /\ ~(GlyphScrolls /\ region.active) /\ x \in Columns)

Character(ch) ==
    \/ ch = "FF" /\ FormFeed
    \/ ch = "BS" /\ BackSpace
    \/ ch = "CR" /\ CarriageReturn
    \/ ch \in {"CRLF", "LF"} /\ NewLine
    \/ ch \in Cells /\ Glyph(ch)

TextInput(ch) ==
    /\ NextInput
    /\ Character(ch)
    /\ m_preceeding_sequence' = IF ch = "CRLF" THEN "CR" ELSE ch
    /\ UNCHANGED <<modes, repeat, m_write_queue>>

\* The string of ESC [ b goes through textInput as well.
RepeatCharacter ==
    /\ undefined = "none"
    /\ repeat > 0
    /\ repeat' = repeat - 1
    /\ Character(m_preceeding_sequence)
    /\ UNCHANGED <<modes, m_preceeding_sequence, m_write_queue, inputs>>

----------------------------------------------------------------------------
(* sequenceInput: the commands ESC [ numbers final.                        *)

OneIfZero(n) == IF n = 0 THEN 1 ELSE n
AtLeastOne(n) == IF n < 1 THEN 1 ELSE n
AtMost(n, limit) == IF n > limit THEN limit ELSE n
Within(n, limit) == AtLeastOne(AtMost(n, limit))

\* The first number: 1 when there is none, and in most commands when it is 0.
Count(c) == IF c.numbers = <<>> THEN 1 ELSE OneIfZero(c.numbers[1])

IsCommand(c, finals) == NextInput /\ c.final \in finals

KeepsScreen == UNCHANGED <<screen, undefined, inStep>>
KeepsText == UNCHANGED <<m_preceeding_sequence, repeat>>

MoveTo(x, y) ==
    /\ m_x_position' = x
    /\ m_y_position' = y
    /\ typed' = Unordered
    /\ KeepsScreen /\ KeepsText
    /\ UNCHANGED <<modes, m_write_queue>>

\* One row up or column back without a number, where the cursor is not at 1
\* or, after an empty field, below it already.
OneBack(position) == IF position > 1 THEN position - 1 ELSE position

\* A number of them: an empty field goes the other way.
Back(c, position) ==
    IF c.numbers = <<>> THEN OneBack(position) ELSE AtLeastOne(position - Count(c))

CursorUp(c) ==
    /\ IsCommand(c, {"A"})
    /\ MoveTo(m_x_position, Back(c, m_y_position))

\* Below the last row, where the next character will scroll, one row down is
\* no move; a number of rows is, back to the last row.
CursorDown(c) ==
    /\ IsCommand(c, {"B"})
    /\ MoveTo(m_x_position,
              IF c.numbers = <<>> /\ m_y_position >= Height THEN m_y_position
              ELSE AtMost(m_y_position + Count(c), Height))

\* An empty field goes back, in front of the first column as well.
CursorForward(c) ==
    /\ IsCommand(c, {"C"})
    /\ MoveTo(AtMost(m_x_position + Count(c), Width), m_y_position)

\* Two numbers switch the font.
CursorBackward(c) ==
    /\ IsCommand(c, {"D"})
    /\ Len(c.numbers) <= 1
    /\ MoveTo(Back(c, m_x_position), m_y_position)

CursorNextLine(c) ==
    /\ IsCommand(c, {"E"})
    /\ IF c.numbers = <<>> /\ m_y_position >= Height
       THEN MoveTo(m_x_position, m_y_position)
       ELSE MoveTo(1, AtMost(m_y_position + Count(c), Height))

\* Here a 0 stays a 0.
CursorPrevLine(c) ==
    /\ IsCommand(c, {"F"})
    /\ MoveTo(1, IF c.numbers = <<>> THEN OneBack(m_y_position)
                 ELSE AtLeastOne(m_y_position - c.numbers[1]))

CursorXPosition(c) ==
    /\ IsCommand(c, {"G"})
    /\ MoveTo(Within(Count(c), Width), m_y_position)

\* With two numbers an implied first one (-1) keeps the row, and the column is
\* tested against the last one only.
CursorPosition(c) ==
    /\ IsCommand(c, {"H", "f"})
    /\ CASE Len(c.numbers) <= 1 -> MoveTo(1, Within(Count(c), Height))
         [] Len(c.numbers) = 2 /\ c.numbers[1] = -1 ->
               MoveTo(AtMost(OneIfZero(c.numbers[2]), Width), m_y_position)
         [] OTHER -> MoveTo(Within(OneIfZero(c.numbers[2]), Width), Within(Count(c), Height))

\* The only row that is not tested against the screen.
LinePosAbsolute(c) ==
    /\ IsCommand(c, {"d"})
    /\ Len(c.numbers) <= 1
    /\ MoveTo(1, Count(c))

RestoreCursorPos(c) ==
    /\ IsCommand(c, {"u"})
    /\ MoveTo(saved.x, saved.y)

SaveCursorPos(c) ==
    /\ IsCommand(c, {"s"})
    /\ saved' = [x |-> m_x_position, y |-> m_y_position]
    /\ KeepsScreen /\ KeepsText
    /\ UNCHANGED <<cursor, region, m_is_line_wrapped, m_write_queue, typed>>

\* A region of the whole screen switches it off, and keeps the old margins.
SetScrollRegion(top, bottom) ==
    region' = IF (top = 1 /\ bottom >= Height) \/ (top = 0 /\ bottom = 0)
              THEN [region EXCEPT !.active = FALSE]
              ELSE [active |-> TRUE, top |-> top, bottom |-> AtMost(bottom, Height)]

ScrollRegion(c) ==
    /\ IsCommand(c, {"r"})
    /\ \/ /\ c.numbers = <<>>
          /\ SetScrollRegion(0, 0)
          /\ UNCHANGED <<cursor, typed>>
       \/ /\ Len(c.numbers) = 2
          /\ SetScrollRegion(OneIfZero(c.numbers[1]), OneIfZero(c.numbers[2]))
          /\ m_x_position' = 1
          /\ m_y_position' = 1
          /\ typed' = Unordered
    /\ KeepsScreen /\ KeepsText
    /\ UNCHANGED <<m_is_line_wrapped, saved, m_write_queue>>

\* renderDeleteCharScreen shifts the picture only, and blanks the last
\* columns of the row. An empty field shifts to the right, where a blit of the
\* surface onto itself may read what it has just drawn: then the cell in front
\* of the cursor is repeated to the end of the row.
DeleteCharacter(c) ==
    LET n == Count(c)
        Source(k, overlaps) ==
            IF n < 0 /\ overlaps THEN AtLeastOne(m_x_position + n) ELSE k + n
        Shift(row, overlaps) ==
            [k \in Columns |-> IF k > Width - n THEN Blank
                               ELSE IF k >= m_x_position /\ k + n >= 1
                                    THEN row[Source(k, overlaps)]
                               ELSE row[k]]
    IN  /\ IsCommand(c, {"P"})
        /\ Len(c.numbers) <= 1
        /\ \E overlaps \in BOOLEAN :
              surface' = [r \in Rows |-> IF r = m_y_position
                                         THEN Shift(surface[r], overlaps)
                                         ELSE surface[r]]
        /\ typed' = Unordered
        /\ inStep' = FALSE
        /\ KeepsText
        /\ UNCHANGED <<cursor, m_screen_buffer, undefined, modes, m_write_queue>>

\* A string of -1 characters is std::length_error: update() is left, and
\* nothing is repeated.
StartRepeat(c) ==
    /\ IsCommand(c, {"b"})
    /\ Len(c.numbers) <= 1
    /\ repeat' = IF Count(c) < 0 THEN 0 ELSE Count(c)
    /\ KeepsScreen
    /\ UNCHANGED <<cursor, modes, m_preceeding_sequence, m_write_queue, typed>>

\* Erasing a part of the screen changes the picture only.
EraseInPicture(s) ==
    /\ surface' = s
    /\ typed' = Unordered
    /\ inStep' = FALSE
    /\ UNCHANGED <<cursor, m_screen_buffer, undefined>>

EraseDisplay(c) ==
    /\ IsCommand(c, {"J"})
    /\ \/ /\ c.numbers \in {<<>>, <<0>>}
          /\ EraseInPicture([r \in Rows |->
                IF r > m_y_position THEN BlankRow
                ELSE ClearLine(surface, m_y_position, m_x_position, Width)[r]])
       \/ /\ c.numbers = <<1>>
          /\ EraseInPicture([r \in Rows |->
                IF r < m_y_position THEN BlankRow
                ELSE ClearLine(surface, m_y_position, 1, m_x_position)[r]])
       \/ c.numbers = <<2>> /\ FormFeed
    /\ KeepsText
    /\ UNCHANGED <<modes, m_write_queue>>

\* ESC [ 0 K is not handled.
ErasedColumns(c) ==
    CASE c.numbers = <<>> -> [from |-> m_x_position, to |-> Width]
      [] c.numbers = <<1>> -> [from |-> 1, to |-> m_x_position]
      [] c.numbers = <<2>> -> [from |-> 1, to |-> Width]

EraseToEol(c) ==
    LET from == ErasedColumns(c).from
        to == ErasedColumns(c).to
    IN  /\ IsCommand(c, {"K"})
        /\ c.numbers \in {<<>>, <<1>>, <<2>>}
        /\ surface' = ClearLine(surface, m_y_position, from, to)
        /\ m_screen_buffer' = ClearRange(m_screen_buffer, m_y_position, from, to)
        /\ undefined' = IF RangeOverruns(m_y_position, from, to) THEN "erase" ELSE undefined
        /\ typed' = Unordered
        /\ inStep' = (inStep /\ 1 <= from /\ to <= Width)
        /\ KeepsText
        /\ UNCHANGED <<cursor, modes, m_write_queue>>

\* ESC [ ? 7 h and ESC [ ? 7 l: their numbers never vary, so a command has none.
WrapMode(c) ==
    /\ IsCommand(c, {"h", "l"})
    /\ m_is_line_wrapped' = (c.final = "h")
    /\ KeepsScreen /\ KeepsText
    /\ UNCHANGED <<cursor, region, saved, m_write_queue, typed>>

\* ESC [ 6 n: only the row is tested against the screen.
ReportPosition(c) ==
    /\ IsCommand(c, {"n"})
    /\ m_write_queue' = Append(m_write_queue,
                               [row |-> AtMost(m_y_position, Height), column |-> m_x_position])
    /\ KeepsScreen /\ KeepsText
    /\ UNCHANGED <<cursor, modes, typed>>

\* ESC D, ESC M: the screen does not scroll.
ControlDown(c) ==
    /\ IsCommand(c, {"IND"})
    /\ MoveTo(m_x_position,
              IF m_y_position < Height THEN m_y_position + 1 ELSE m_y_position)

ControlUp(c) ==
    /\ IsCommand(c, {"RI"})
    /\ MoveTo(m_x_position, OneBack(m_y_position))

\* ESC E is textInput("\r\n").
ControlNewLine(c) ==
    /\ IsCommand(c, {"NEL"})
    /\ NewLine
    /\ m_preceeding_sequence' = "CR"
    /\ UNCHANGED <<modes, repeat, m_write_queue>>

CommandInput ==
    \E c \in Commands :
        \/ CursorUp(c) \/ CursorDown(c) \/ CursorForward(c) \/ CursorBackward(c)
        \/ CursorNextLine(c) \/ CursorPrevLine(c) \/ CursorXPosition(c)
        \/ CursorPosition(c) \/ LinePosAbsolute(c) \/ RestoreCursorPos(c)
        \/ SaveCursorPos(c) \/ ScrollRegion(c) \/ DeleteCharacter(c)
        \/ StartRepeat(c) \/ EraseDisplay(c) \/ EraseToEol(c)
        \/ WrapMode(c) \/ ReportPosition(c)
        \/ ControlDown(c) \/ ControlUp(c) \/ ControlNewLine(c)

Next ==
    \/ \E ch \in Glyphs \union Formats : TextInput(ch)
    \/ RepeatCharacter
    \/ CommandInput

Spec == Init /\ [][Next]_vars

----------------------------------------------------------------------------
(* Properties.                                                             *)

\* The buffer keeps the size of the screen through every scroll and erase, and
\* no margin is below the last row. The cursor may be anywhere: an empty field
\* (ESC [ ; C, ESC [ ; d) takes it in front of the first column and row.
TypeOK ==
    /\ m_x_position \in Int
    /\ m_y_position \in Int
    /\ m_screen_buffer \in [Positions -> Cells]
    /\ surface \in [Rows -> [Columns -> Cells]]
    /\ region \in [active : BOOLEAN, top : Int, bottom : Int]
    /\ region.bottom <= Height
    /\ m_is_line_wrapped \in BOOLEAN
    /\ saved \in [x : Int, y : Int]
    /\ m_preceeding_sequence \in Cells \union Formats
    /\ repeat \in Nat
    /\ m_write_queue \in Seq([row : Int, column : Int])
    /\ undefined \in {"none", "scroll", "erase"}
    /\ inputs \in 0..MaxInputs
    /\ typed \in [glyphs : Seq(Cells), ordered : BOOLEAN]
    /\ inStep \in BOOLEAN

\* The glyphs on the screen, from the first row to the last.
GlyphsShown ==
    LET cells == FlattenSeq(surface)
    IN  FlattenSeq([i \in DOMAIN cells |-> IF cells[i] = Blank THEN <<>> ELSE <<cells[i]>>])

\* What wrapping, newlines and scrolling leave on the screen of a text without
\* commands is the end of the text, in its order: no glyph is overwritten,
\* repeated or dropped between two others.
TextInReadingOrder == typed.ordered => IsSuffix(GlyphsShown, typed.glyphs)

\* What a selection of the mouse copies is what the user sees, unless since the
\* last clear screen a region scrolled, a part was erased (ESC [ J, ESC [ P), or
\* a cell outside of the columns was written or erased: text over the right edge
\* in a region, or left of the first column after ESC [ ; C. bufferToClipboard
\* and the surface are written by different code.
ClipboardMatchesPicture ==
    inStep => \A r \in Rows, c \in Columns : surface[r][c] = m_screen_buffer[Position(c, r)]

InRegion == region.active /\ m_y_position \in region.top..region.bottom

\* Text in a scroll region, with the cursor in it, leaves the rows above and
\* below the region (a status bar, an input line) as they are, where the margins
\* let the scroll be defined.
ScrollKeepsRest ==
    [][(InRegion /\ ~BadRegion /\ \E ch \in Cells \union {"CRLF", "LF"} : Character(ch))
       => \A r \in Rows \ (region.top..region.bottom) : surface'[r] = surface[r]]_vars

\* "Make sure we don't respond with size larger then our Current Screen": holds
\* for the row only; behind the last column the column is Width + 1.
ReportIsOnScreen ==
    \A p \in ToSet(m_write_queue) : p.row \in Rows /\ p.column \in Columns

\* "Deletes the character at the current position by shifting all characters
\* from the current column + p1 left to the current column": what is left of
\* the cursor stays. It does not when more is deleted than the row holds.
DeleteKeepsLeft ==
    [][(\E c \in Commands : DeleteCharacter(c)) /\ m_y_position \in Rows
       => \A k \in Columns :
             k < m_x_position => surface'[m_y_position][k] = surface[m_y_position][k]]_vars

\* "Cursor Forward P s Times (default = 1)": the cursor does not go back. With an
\* empty field, ESC [ ; C, it does.
ForwardIsForward ==
    [][m_x_position <= Width /\ (\E c \in Commands : CursorForward(c))
       => m_x_position' >= m_x_position]_vars

\* In a region only the region scrolls: a character written in it leaves the
\* cursor in it. With ESC [ ? 7 h it wraps to the row below the region.
TextStaysInRegion ==
    [][InRegion /\ region.bottom < Height /\ (\E g \in Glyphs : Glyph(g))
       => m_y_position' <= region.bottom]_vars
=============================================================================
