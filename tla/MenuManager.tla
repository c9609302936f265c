---------------------------- MODULE MenuManager ----------------------------
(***************************************************************************)
(* The dialing directory: the list of systems, the bar on the selected one *)
(* and the pages it is shown in (MenuManager and LinkList).                *)
(*                                                                         *)
(* Every handler ends in updateDialDirectory, which draws the page again   *)
(* and loads the menu when the theme has changed; what it draws waits in   *)
(* the data queue of the session.  drawn is the picture that the queue     *)
(* will leave on the screen: the rows of the list, and the light bar that  *)
(* is lit.  Systems are numbered from 0 and are their own names here.      *)
(***************************************************************************)
EXTENDS MenuFunction, Integers

CONSTANTS
    Themes,         \* sequence of [top, bottom, prompt]; index 0 is Themes[1]
    DirectorySizes, \* numbers of systems a directory may have
    ScreenRows      \* rows of the screen

ASSUME ThemesAssumption ==
    /\ DirectorySizes \subseteq Nat /\ ScreenRows \in Nat
    /\ Themes # <<>>
    /\ Themes \in Seq([top : 1 .. ScreenRows, bottom : 1 .. ScreenRows, prompt : STRING])
    /\ \A i \in DOMAIN Themes : Themes[i].top < Themes[i].bottom

VARIABLES
    systems,                \* m_system_entries.size(), m_result.size(), m_listing.size()
    m_lightbar_position,
    m_current_page,
    m_box_size,
    m_current_theme_index,
    m_total_pages,          \* LinkList
    m_current_selection,    \* LinkList: the row of the bar
    menu,                   \* MenuFunction
    drawn

listVars == <<m_lightbar_position, m_current_page, m_box_size, m_current_theme_index,
              m_total_pages, m_current_selection, menu, drawn>>

Empty == [system |-> -1, lit |-> FALSE]
Cells == [system : Nat \union {-1}, lit : BOOLEAN]
Blank == [rows |-> [r \in 1 .. ScreenRows |-> Empty], bar |-> -1]

Theme(index) == Themes[index + 1]
BoxSize(index) == Theme(index).bottom - Theme(index).top

\* m_total_pages, as drawVectorList computes it.
Pages(box) ==
    IF systems <= box THEN 1
    ELSE systems \div box + (IF systems % box > 0 THEN 1 ELSE 0)

\* The system that drawVectorList puts into row r, or one past the last.
SystemAt(r, page, index) ==
    LET i == r - Theme(index).top
    IN  IF i \in 0 .. BoxSize(index) - 1 THEN BoxSize(index) * page + i ELSE systems

\* Faulty: the last page, which may be short, keeps the end of the one before.
UnclearedVectorList(rows, page, position, index) ==
    [r \in 1 .. ScreenRows |->
        IF SystemAt(r, page, index) < systems
        THEN [system |-> SystemAt(r, page, index),
              lit |-> SystemAt(r, page, index) = position]
        ELSE rows[r]]

\* drawVectorList: clear the box when there are several pages, then draw the
\* systems of the page, the selected one lit.
DrawVectorList(rows, page, position, index) ==
    [r \in 1 .. ScreenRows |->
        IF SystemAt(r, page, index) < systems
        THEN [system |-> SystemAt(r, page, index),
              lit |-> SystemAt(r, page, index) = position]
        ELSE IF Pages(BoxSize(index)) > 1 /\ r - Theme(index).top \in 0 .. BoxSize(index) - 1
             THEN Empty
             ELSE rows[r]]

\* Where drawVectorList leaves m_current_selection.
SelectionRow(page, position, index) ==
    LET i == position - BoxSize(index) * page
    IN  IF i \in 0 .. BoxSize(index) - 1 /\ position < systems
        THEN Theme(index).top + i
        ELSE m_current_selection

\* menuStart draws the light bars when it loads a menu that has some.
DrawBars(bar, before, after, name) ==
    IF before.m_previous_menu # name /\ name \in DOMAIN Menus /\ LightBars(after) # <<>>
    THEN after.m_choice ELSE bar

\* updateDialDirectory, after a handler that left this page, this position,
\* this theme, this menu and this picture.
updateDialDirectory(page, position, index, m, picture) ==
    LET name == Theme(index).prompt
        after == menuStart(m, name)
    IN  /\ m_current_page' = page
        /\ m_lightbar_position' = position
        /\ m_current_theme_index' = index
        /\ m_total_pages' = Pages(BoxSize(index))
        /\ m_current_selection' = SelectionRow(page, position, index)
        /\ menu' = after
        /\ drawn' = [rows |-> DrawVectorList(picture.rows, page, position, index),
                     bar |-> DrawBars(picture.bar, m, after, name)]
        /\ UNCHANGED m_box_size

-----------------------------------------------------------------------------
(* handleMenuActions: the commands that start with !.  m is the menu after *)
(* menuProcess.                                                            *)

\* The picture after menuProcess: an arrow that is no command lights a bar.
Picture(m, input) ==
    IF /\ input[1] = "ESC" /\ SecondSequence(input) \in {"C", "D"}
       /\ LightBars(menu) # <<>> /\ FunctionCommands(menu, FunctionKey(input)) = {}
    THEN [drawn EXCEPT !.bar = m.m_choice] ELSE drawn

\* setupDialDirectory and the first updateDialDirectory.  A directory that
\* cannot be read, or a missing bar file, leaves an empty list and no menu.
MenuInit ==
    /\ systems \in DirectorySizes
    /\ m_lightbar_position = 0
    /\ m_current_page = 0
    /\ m_current_theme_index = 0
    /\ IF systems = 0
       THEN /\ m_box_size = 0
            /\ m_total_pages = 0
            /\ m_current_selection = 0
            /\ menu = NewMenu
            /\ drawn = Blank
       ELSE /\ m_box_size = BoxSize(0)
            /\ m_total_pages = Pages(BoxSize(0))
            /\ m_current_selection = Theme(0).top
            /\ menu = menuStart(NewMenu, Theme(0).prompt)
            /\ drawn = [rows |-> DrawVectorList(Blank.rows, 0, 0, 0),
                        bar |-> DrawBars(-1, NewMenu, menu, Theme(0).prompt)]

\* Move the bar within the page: the row it leaves and the row it goes to.
MoveBar(picture, from, fromRow, to, toRow) ==
    [picture EXCEPT !.rows = [r \in 1 .. ScreenRows |->
        CASE r = toRow   -> [system |-> to, lit |-> TRUE]
          [] r = fromRow -> [system |-> from, lit |-> FALSE]
          [] OTHER       -> picture.rows[r]]]

PageUp(m, picture) ==
    LET page == IF m_current_page # 0 THEN m_current_page - 1 ELSE m_current_page
        position == IF m_current_page # 0 THEN page * m_box_size ELSE m_lightbar_position
    IN  updateDialDirectory(page, position, m_current_theme_index, m, picture)

\* Faulty: the bar stays where it was.
PageDownKeeps(m, picture) ==
    updateDialDirectory(IF m_current_page + 1 # m_total_pages
                        THEN m_current_page + 1 ELSE m_current_page,
                        m_lightbar_position, m_current_theme_index, m, picture)

PageDown(m, picture) ==
    LET turns == m_current_page + 1 # m_total_pages
        page == IF turns THEN m_current_page + 1 ELSE m_current_page
        position == IF turns THEN page * m_box_size ELSE m_lightbar_position
    IN  updateDialDirectory(page, position, m_current_theme_index, m, picture)

\* Faulty: one row more is taken for the same page.
NextSystemStays(m, picture) ==
    LET to == m_lightbar_position + 1
        samePage == to < m_box_size * (m_current_page + 1) + 1
    IN  updateDialDirectory(IF samePage \/ to >= systems
                            THEN m_current_page ELSE m_current_page + 1,
                            IF to >= systems THEN m_lightbar_position ELSE to,
                            m_current_theme_index, m, picture)

\* One down: on the same page the bar moves, else the next page is drawn.
NextSystem(m, picture) ==
    LET to == m_lightbar_position + 1
        samePage == to + 1 < m_box_size * (m_current_page + 1) + 1
        moved == MoveBar(picture, to - 1, m_current_selection, to, m_current_selection + 1)
    IN  IF to >= systems
        THEN updateDialDirectory(m_current_page, m_lightbar_position,
                                 m_current_theme_index, m, picture)
        ELSE updateDialDirectory(IF samePage THEN m_current_page ELSE m_current_page + 1,
                                 to, m_current_theme_index, m,
                                 IF samePage THEN moved ELSE picture)

\* One up.
PreviousSystem(m, picture) ==
    LET to == m_lightbar_position - 1
        samePage == to + 1 > m_box_size * m_current_page
        moved == MoveBar(picture, to + 1, m_current_selection, to, m_current_selection - 1)
    IN  IF m_lightbar_position = 0
        THEN updateDialDirectory(m_current_page, m_lightbar_position,
                                 m_current_theme_index, m, picture)
        ELSE updateDialDirectory(IF samePage THEN m_current_page ELSE m_current_page - 1,
                                 to, m_current_theme_index, m,
                                 IF samePage THEN moved ELSE picture)

FirstSystem(m, picture) ==
    updateDialDirectory(0, 0, m_current_theme_index, m, picture)

LastSystem(m, picture) ==
    updateDialDirectory(m_total_pages - 1, systems - 1, m_current_theme_index, m, picture)

\* Help and About draw a whole screen first.
DrawHeader(m) ==
    updateDialDirectory(m_current_page, m_lightbar_position, m_current_theme_index, m, Blank)

\* The next (previous) theme, when its file is there.  Either way the screen
\* is cleared and the menu is forgotten, so that it is loaded again.
changeTheme(step, m) ==
    LET index == m_current_theme_index + step
        exists == index + 1 \in DOMAIN Themes
    IN  updateDialDirectory(m_current_page, m_lightbar_position,
                            IF exists THEN index ELSE m_current_theme_index,
                            [m EXCEPT !.m_previous_menu = ""], Blank)

\* No command, or one that is not for the directory.  An empty directory is
\* not drawn at all.
NoAction(m, picture) ==
    IF systems = 0
    THEN UNCHANGED listVars
    ELSE updateDialDirectory(m_current_page, m_lightbar_position, m_current_theme_index,
                             m, picture)

Commands == {"!U", "!D", "!E", "!+", "!-", "!Q", "!?", "!A", "!]", "![", "!F", "!B"}
=============================================================================
