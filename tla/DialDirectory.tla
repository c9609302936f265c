--------------------------- MODULE DialDirectory ---------------------------
(***************************************************************************)
(* The window of the dialing directory: the keys that InputHandler         *)
(* collects, the menu and the list they act on (MenuManager), the screen   *)
(* that Session::update fills from the data queue, and the queue of        *)
(* systems to connect to that Interface empties.                           *)
(*                                                                         *)
(* One thread runs all of it.  phase is where the main loop of Interface   *)
(* is: it handles the events that have come, updates the session, and      *)
(* starts the connections that were asked for.                             *)
(***************************************************************************)
EXTENDS InputHandler, MenuManager

VARIABLES
    screen,             \* the picture the user sees
    m_new_connections,  \* SafeQueue of SessionManager
    pushed,             \* SDL: a CLOSE event of our own waits
    phase

vars == <<inputVars, systems, listVars, screen, m_new_connections, pushed, phase>>
sessionVars == <<screen, m_new_connections, pushed, phase>>

Init ==
    /\ InputInit
    /\ MenuInit
    /\ screen = Blank
    /\ m_new_connections = <<>>
    /\ pushed = FALSE
    /\ phase = "events"

-----------------------------------------------------------------------------
(* The events of the window, SDL_PollEvent until there is none.            *)

WindowEvent ==
    /\ phase = "events"
    /\ InputEvent
    /\ UNCHANGED <<systems, listVars, screen, m_new_connections, pushed, phase>>

\* The event that update has pushed.
PushedClose ==
    /\ phase = "events"
    /\ pushed
    /\ Close
    /\ pushed' = FALSE
    /\ UNCHANGED <<systems, listVars, screen, m_new_connections, phase>>

\* A pushed event comes before the poll is done.
\* Closing this window ends the program.
EndOfEvents ==
    /\ phase = "events"
    /\ ~pushed
    /\ ~m_globalShutdown
    /\ phase' = "update"
    /\ UNCHANGED <<inputVars, systems, listVars, screen, m_new_connections, pushed>>

-----------------------------------------------------------------------------
(* Session::update of the directory.                                       *)

\* While the mouse is held nothing new is shown.
Show == screen' = IF m_isMouseSelected THEN screen ELSE drawn'

UpdateIdle ==
    /\ phase = "update"
    /\ m_inputSequence = <<>>
    /\ phase' = "spawn"
    /\ UNCHANGED <<inputVars, systems, listVars, m_new_connections, pushed>>
    /\ Show

\* All characters that wait go to the menu, which answers with one command.
Answer == menuProcess(menu, m_inputSequence)

\* The picture after the menu has drawn its light bars.
AnswerPicture == Picture(Answer.menu, m_inputSequence)

\* The session handles the command: each action below says what the handler does.
Handle(command) ==
    /\ phase = "update"
    /\ m_inputSequence # <<>>
    /\ IF command = "" THEN Answer.parameters \notin Commands ELSE Answer.parameters = command
    /\ TakeInput
    /\ phase' = "spawn"
    /\ UNCHANGED <<m_keyMap, m_globalShutdown, modeVars, mouseVars, window, textInput, systems>>

KeepsQueues == UNCHANGED <<m_new_connections, pushed>>

UpdateUp       == Handle("!U") /\ PageUp(Answer.menu, AnswerPicture) /\ KeepsQueues /\ Show
UpdateDown     == Handle("!D") /\ PageDown(Answer.menu, AnswerPicture) /\ KeepsQueues /\ Show
UpdateNext     == Handle("!+") /\ NextSystem(Answer.menu, AnswerPicture) /\ KeepsQueues /\ Show
UpdatePrevious == Handle("!-") /\ PreviousSystem(Answer.menu, AnswerPicture) /\ KeepsQueues /\ Show
UpdateFirst    == Handle("!F") /\ FirstSystem(Answer.menu, AnswerPicture) /\ KeepsQueues /\ Show
UpdateLast     == Handle("!B") /\ LastSystem(Answer.menu, AnswerPicture) /\ KeepsQueues /\ Show
UpdateNone     == Handle("") /\ NoAction(Answer.menu, AnswerPicture) /\ KeepsQueues /\ Show

UpdateHeader ==
    /\ \E command \in {"!?", "!A"} : Handle(command)
    /\ DrawHeader(Answer.menu)
    /\ KeepsQueues
    /\ Show

UpdateTheme ==
    /\ \/ Handle("!]") /\ changeTheme(1, Answer.menu)
       \/ Handle("![") /\ changeTheme(-1, Answer.menu)
    /\ KeepsQueues
    /\ Show

\* ENTER on Connect: the selected system goes into the queue.
UpdateDial ==
    /\ Handle("!E") /\ NoAction(Answer.menu, AnswerPicture)
    /\ m_new_connections' = Append(m_new_connections, m_lightbar_position)
    /\ UNCHANGED pushed
    /\ Show

\* Quit: a CLOSE event is pushed and update returns at once.
UpdateQuit ==
    /\ Handle("!Q")
    /\ menu' = Answer.menu
    /\ drawn' = AnswerPicture
    /\ UNCHANGED <<m_lightbar_position, m_current_page, m_box_size,
                   m_current_theme_index, m_total_pages, m_current_selection>>
    /\ pushed' = TRUE
    /\ UNCHANGED <<m_new_connections, screen>>

\* Interface starts every connection that waits.
Spawn ==
    /\ phase = "spawn"
    /\ m_new_connections' = <<>>
    /\ phase' = "events"
    /\ UNCHANGED <<inputVars, systems, listVars, screen, pushed>>

Update ==
    \/ UpdateIdle \/ UpdateUp \/ UpdateDown \/ UpdateNext \/ UpdatePrevious
    \/ UpdateFirst \/ UpdateLast \/ UpdateHeader \/ UpdateTheme \/ UpdateDial
    \/ UpdateQuit \/ UpdateNone

LoopStep == EndOfEvents \/ Update \/ Spawn

Next == WindowEvent \/ PushedClose \/ LoopStep

Spec == Init /\ [][Next]_vars

-----------------------------------------------------------------------------
TypeOK ==
    /\ m_keyMap = "ANSI"
    /\ m_globalShutdown \in BOOLEAN
    /\ m_isMouseSelected \in BOOLEAN
    /\ m_fullScreenWindowSize \in {0, 1}
    /\ m_current_theme_index \in 0 .. Len(Themes) - 1
    /\ m_lightbar_position \in Nat /\ m_current_page \in Nat
    /\ systems > 0 => menu.m_choice \in 0 .. Len(LightBars(menu)) - 1
    /\ drawn.rows \in [1 .. ScreenRows -> Cells]
    /\ Len(m_new_connections) <= 1
    /\ phase \in {"events", "update", "spawn"}

\* All themes have a box of the same size, like those that come with the
\* program: m_box_size is computed once.
SameBoxes == \A i \in DOMAIN Themes : Themes[i].bottom - Themes[i].top = BoxSize(0)

\* All themes have a menu with the same number of light bars, like those that
\* come with the program: m_choice stays when another menu is loaded.
SameBars ==
    LET bars(i) == Len(BarsOf(Menus[Themes[i].prompt])) IN
    \A i \in DOMAIN Themes :
        Themes[i].prompt \in DOMAIN Menus \ {""} /\ bars(i) = bars(1) /\ bars(i) > 0

\* None of them has a command about the menu itself, which would choose the
\* first light bar and not draw it.
NoMenuCommands ==
    \A i \in DOMAIN Themes : \A k \in DOMAIN Menus[Themes[i].prompt] :
        Menus[Themes[i].prompt][k].command \notin {"-^", "-/", "-!"}

\* The selected system exists and lies in the page that is drawn, whatever
\* keys and changes of the theme led there (handleMenuActions keeps page and
\* position in step by hand, with one rule for each command).
PageHoldsSelection ==
    systems > 0 =>
        /\ m_lightbar_position < systems
        /\ m_current_page = m_lightbar_position \div BoxSize(m_current_theme_index)
        /\ m_total_pages = Pages(BoxSize(m_current_theme_index))

\* The picture lights the row of the selected system and no other.
ListShowsSelection ==
    systems > 0 =>
        \E r \in 1 .. ScreenRows :
            /\ drawn.rows[r] = [system |-> m_lightbar_position, lit |-> TRUE]
            /\ \A q \in 1 .. ScreenRows \ {r} : ~drawn.rows[q].lit

\* So the picture lights exactly the selected system, and of the light bars
\* none but the one that ENTER would run.
PictureShowsSelection ==
    ListShowsSelection /\ (systems > 0 => drawn.bar \in {-1, menu.m_choice})

Lit(picture, system) ==
    \E r \in 1 .. ScreenRows : picture.rows[r] = [system |-> system, lit |-> TRUE]

\* The system that is dialled is the one lit on the screen, when everything
\* drawn is on the screen.
DialsWhatIsShown ==
    [][ UpdateDial /\ screen = drawn
        => \E s \in 0 .. systems - 1 :
              m_new_connections' = Append(m_new_connections, s) /\ Lit(screen, s) ]_vars

\* The keys of the directory and the names its menus know them by.
MenuKey ==
    [UP |-> "UP", DOWN |-> "DOWN", LEFT |-> "LEFT", RIGHT |-> "RIGHT", HOME |-> "HOME",
     END |-> "END", PAGEUP |-> "PAGEUP", PAGEDOWN |-> "PAGEDN", ESCAPE |-> "ESC"]

\* What the keyboard sends for a key the menu takes for that key and for no
\* other (InputHandler and MenuFunction each have a table of sequences).
KeysAreUnderstood(name) ==
    \A sym \in DOMAIN MenuKey \union DOMAIN KeyMap(name) :
        LET key == [sym |-> sym, shift |-> FALSE, ctrl |-> FALSE, alt |-> FALSE, num |-> FALSE]
            input == KeyDownSequence(key, name)
        IN  input[1] = "ESC" =>
                FunctionKey(input) = IF sym \in DOMAIN MenuKey THEN MenuKey[sym] ELSE "none"

\* Not so: the system that is dialled is lit on the screen (while the mouse
\* is held the selection moves and the screen does not).
DialsWhatIsSeen ==
    [][ UpdateDial /\ screen # Blank => \E s \in 0 .. systems - 1 :
            m_new_connections' = Append(m_new_connections, s) /\ Lit(screen, s) ]_vars

\* Not so: what the menu is given is one key (two keys in one pass of the
\* main loop are one string, of which menuLightBars reads the first).
OneKeyAtATime ==
    phase = "update" /\ m_inputSequence # <<>> =>
        \/ \E key \in Keys : m_inputSequence = KeyDownSequence(key, m_keyMap)
        \/ \E c \in Texts : m_inputSequence = <<c>>
        \/ \E text \in Clippings : m_inputSequence = Pasted(text)

\* Not so: a command "Change Menu" changes the menu (updateDialDirectory starts
\* the menu of the theme again, whatever menuDoCommands has set).
MenuIsTheOneAskedFor ==
    phase = "events" => menu.m_previous_menu = menu.m_curent_menu
=============================================================================
