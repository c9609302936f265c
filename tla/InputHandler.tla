---------------------------- MODULE InputHandler ----------------------------
(***************************************************************************)
(* The input of one window: InputHandler turns SDL events into characters  *)
(* that wait in m_inputSequence until the session takes them, and keeps    *)
(* the mouse selection and the window mode.                                *)
(*                                                                         *)
(* A key press is a record [sym, shift, ctrl, alt, num]; a typed character *)
(* comes as SDL_TEXTINPUT instead, and only while text input is on.  A     *)
(* string is a sequence of characters; control characters have names.      *)
(***************************************************************************)
EXTENDS Selection, SequencesExt

CONSTANTS
    IsDialDirectory,    \* m_is_dial_directory of the session
    KeyMapNames,        \* key maps a directory entry may name
    Keys,               \* key presses
    Texts,              \* characters typed
    Clippings,          \* texts other programs put into the clipboard
    Points,             \* <<x, y>> of the mouse, in pixels
    WindowSizes,        \* <<width, height>> the user drags the window to
    DesktopSize,        \* of the full screen
    MaxInput            \* bound: no event once so many characters wait

ASSUME InputAssumption ==
    /\ IsDialDirectory \in BOOLEAN
    /\ IsDialDirectory => KeyMapNames = {"ANSI"}
    /\ Points \subseteq Nat \X Nat
    /\ WindowSizes \union {DesktopSize} \subseteq (Nat \ {0}) \X (Nat \ {0})
    /\ MaxInput \in Nat

VARIABLES
    m_keyMap,
    m_inputSequence,
    m_globalShutdown,
    m_isWindowMode,
    m_fullScreenWindowSize,
    m_isMouseSelected,
    m_mouseSource,          \* m_mouseSourceXPosition, m_mouseSourceYPosition
    window,                 \* SDL: size of the window
    textInput,              \* SDL: text input is on
    clipboard,              \* SDL: positions copied by the last selection, or None
    drag                    \* history: the drag that filled the clipboard

inputVars == <<m_keyMap, m_inputSequence, m_globalShutdown, m_isWindowMode,
               m_fullScreenWindowSize, m_isMouseSelected, m_mouseSource,
               window, textInput, clipboard, drag>>
modeVars  == <<m_isWindowMode, m_fullScreenWindowSize>>
mouseVars == <<m_isMouseSelected, m_mouseSource, clipboard, drag>>

None == [none |-> TRUE]

-----------------------------------------------------------------------------
(* What the keys send.                                                     *)

CSI(s) == <<"ESC", "[">> \o s

Number(tens, ones) == CSI(<<"[", tens, ones, "~">>)

\* F6 .. F12 of ANSI and LINUX.
NumberedKeys ==
    [F6 |-> Number("1", "7"), F7 |-> Number("1", "8"), F8 |-> Number("1", "9"),
     F9 |-> Number("2", "0"), F10 |-> Number("2", "1"), F11 |-> Number("2", "3"),
     F12 |-> Number("2", "4")]

\* The numbered editing keys of VT100 and LINUX.
EditKeys ==
    [BACKSPACE |-> <<"DEL">>, DELETE |-> CSI(<<"3", "~">>), INSERT |-> CSI(<<"2", "~">>),
     HOME |-> CSI(<<"1", "~">>), END |-> CSI(<<"4", "~">>),
     PAGEUP |-> CSI(<<"5", "~">>), PAGEDOWN |-> CSI(<<"6", "~">>)]

ANSIKeyMap == NumberedKeys @@
    [BACKSPACE |-> <<"BS">>, DELETE |-> <<"DEL">>, INSERT |-> CSI(<<"@">>),
     HOME |-> CSI(<<"H">>), END |-> CSI(<<"K">>),
     PAGEUP |-> CSI(<<"V">>), PAGEDOWN |-> CSI(<<"U">>),
     F1 |-> CSI(<<"O", "P">>), F2 |-> CSI(<<"O", "Q">>), F3 |-> CSI(<<"O", "R">>),
     F4 |-> CSI(<<"O", "S">>), F5 |-> CSI(<<"O", "T">>)]

VT100KeyMap == EditKeys @@
    [F1 |-> CSI(<<"O", "P">>), F2 |-> CSI(<<"O", "Q">>), F3 |-> CSI(<<"O", "R">>),
     F4 |-> CSI(<<"O", "S">>), F5 |-> CSI(<<"O", "T">>), F6 |-> CSI(<<"O", "U">>),
     F7 |-> CSI(<<"O", "V">>), F8 |-> CSI(<<"O", "W">>), F9 |-> CSI(<<"O", "X">>),
     F10 |-> CSI(<<"O", "Y">>), F11 |-> CSI(<<"O", "Z">>), F12 |-> CSI(<<"O", "[">>)]

LINUXKeyMap == EditKeys @@ NumberedKeys @@
    [F1 |-> CSI(<<"[", "A">>), F2 |-> CSI(<<"[", "B">>), F3 |-> CSI(<<"[", "C">>),
     F4 |-> CSI(<<"[", "D">>), F5 |-> CSI(<<"[", "E">>)]

SCOKeyMap ==
    [BACKSPACE |-> <<"DEL">>, DELETE |-> <<"BS">>, INSERT |-> CSI(<<"L">>),
     HOME |-> CSI(<<"H">>), END |-> CSI(<<"F">>),
     PAGEUP |-> CSI(<<"I">>), PAGEDOWN |-> CSI(<<"G">>),
     F1 |-> CSI(<<"[", "M">>), F2 |-> CSI(<<"[", "N">>), F3 |-> CSI(<<"[", "O">>),
     F4 |-> CSI(<<"[", "P">>), F5 |-> CSI(<<"[", "Q">>), F6 |-> CSI(<<"[", "R">>),
     F7 |-> CSI(<<"[", "S">>), F8 |-> CSI(<<"[", "T">>), F9 |-> CSI(<<"[", "U">>),
     F10 |-> CSI(<<"[", "V">>), F11 |-> CSI(<<"[", "W">>), F12 |-> CSI(<<"[", "X">>)]

\* A directory entry may name no known key map: only the common keys work.
KeyMap(name) ==
    CASE name = "ANSI"  -> ANSIKeyMap
      [] name = "VT100" -> VT100KeyMap
      [] name = "LINUX" -> LINUXKeyMap
      [] name = "SCO"   -> SCOKeyMap
      [] OTHER          -> <<>>

\* Keys of the keypad without NumLock; with it they come as text.
Keypad ==
    [KP_8 |-> "UP", KP_2 |-> "DOWN", KP_6 |-> "RIGHT", KP_4 |-> "LEFT",
     KP_PERIOD |-> "DELETE", KP_0 |-> "INSERT", KP_1 |-> "END", KP_3 |-> "PAGEDOWN",
     KP_5 |-> "NOTHING", KP_7 |-> "HOME", KP_9 |-> "PAGEUP"]

Arrow == [UP |-> "A", DOWN |-> "B", RIGHT |-> "C", LEFT |-> "D"]

\* handleKeyPadAndFunctionKeys: the same for every key map.
CommonKey(sym, shift) ==
    CASE sym \in DOMAIN Arrow /\ shift  -> CSI(<<"1", ";", "2", Arrow[sym]>>)
      [] sym \in DOMAIN Arrow /\ ~shift -> CSI(<<Arrow[sym]>>)
      [] sym = "ESCAPE"                 -> <<"ESC">>
      [] sym \in {"RETURN", "KP_ENTER"} -> <<"CR">>
      [] sym = "TAB" /\ shift           -> CSI(<<"Z">>)
      [] sym = "TAB" /\ ~shift          -> <<"TAB">>
      [] OTHER                          -> <<>>

\* CTRL_KEY_TABLE, for the letters that name a character of their own.
ControlKey ==
    [a |-> "CTRL-A", c |-> "CTRL-C", h |-> "BS", i |-> "TAB", j |-> "LF", m |-> "CR"]

\* The characters that handleKeyDownEvents appends for a key press.
KeyDownSequence(key, name) ==
    LET sym   == IF key.sym \in DOMAIN Keypad /\ ~key.num THEN Keypad[key.sym] ELSE key.sym
        shift == key.shift /\ sym = key.sym
    IN  CASE key.ctrl /\ key.shift -> IF sym = "-" THEN <<"CTRL-_">> ELSE <<>>
          [] key.ctrl /\ ~key.shift ->
                IF sym \in DOMAIN ControlKey THEN <<ControlKey[sym]>> ELSE <<>>
          [] key.alt /\ ~key.ctrl -> <<>>
          [] OTHER -> IF sym \in DOMAIN KeyMap(name) THEN KeyMap(name)[sym]
                                                     ELSE CommonKey(sym, shift)

\* What pasting sends for a text: CR LF becomes CR (again and again, so that
\* a CR takes every LF after it), a tab four spaces, any other LF a CR.
Pasted(text) ==
    LET joined == FoldLeft(LAMBDA s, c : IF c = "LF" /\ s # <<>> /\ Last(s) = "CR"
                                         THEN s ELSE Append(s, c), <<>>, text)
        sent(c) == CASE c = "TAB" -> <<" ", " ", " ", " ">>
                     [] c = "LF"  -> <<"CR">>
                     [] OTHER     -> <<c>>
    IN  FlattenSeq([i \in DOMAIN joined |-> sent(joined[i])])

-----------------------------------------------------------------------------
InputInit ==
    /\ m_keyMap \in KeyMapNames
    /\ m_inputSequence = <<>>
    /\ m_globalShutdown = FALSE
    /\ m_isWindowMode = TRUE
    /\ m_fullScreenWindowSize = 0
    /\ m_isMouseSelected = FALSE
    /\ m_mouseSource = <<0, 0>>
    /\ window \in WindowSizes
    /\ textInput = TRUE
    /\ clipboard = None
    /\ drag = None

\* setInputSequence appends; the bound stands for the main loop, which takes
\* the characters before it sees many events.
setInputSequence(s) ==
    /\ Len(m_inputSequence) < MaxInput
    /\ m_inputSequence' = m_inputSequence \o s

\* handleKeyDownEvents without ALT.
KeyDown ==
    \E key \in Keys :
        /\ ~m_globalShutdown
        /\ ~key.alt
        /\ setInputSequence(KeyDownSequence(key, m_keyMap))
        /\ UNCHANGED <<m_keyMap, m_globalShutdown, modeVars, mouseVars, window, textInput>>

\* handleTextInputEvent.  SDL sends these events while text input is on.
TextInput ==
    \E c \in Texts :
        /\ ~m_globalShutdown
        /\ textInput
        /\ setInputSequence(<<c>>)
        /\ UNCHANGED <<m_keyMap, m_globalShutdown, modeVars, mouseVars, window, textInput>>

\* ALT-H: hang up, but not in the dialing directory.  ALT-D is a matter of
\* the session (SessionLifecycle, ToggleTransfer).
AltH ==
    /\ ~m_globalShutdown
    /\ ~IsDialDirectory
    /\ m_globalShutdown' = TRUE
    /\ UNCHANGED <<m_keyMap, m_inputSequence, modeVars, mouseVars, window, textInput>>

\* ALT-RETURN: the dialing directory has two sizes, a connection a full screen.
AltReturn ==
    /\ ~m_globalShutdown
    /\ \/ /\ IsDialDirectory
          /\ m_fullScreenWindowSize' = 1 - m_fullScreenWindowSize
          /\ window' = IF m_fullScreenWindowSize = 0 THEN <<1280, 800>> ELSE <<640, 400>>
          /\ UNCHANGED m_isWindowMode
       \/ /\ ~IsDialDirectory
          /\ m_isWindowMode' = ~m_isWindowMode
          /\ IF m_isWindowMode THEN window' = DesktopSize ELSE window' \in WindowSizes
          /\ UNCHANGED m_fullScreenWindowSize
    /\ UNCHANGED <<m_keyMap, m_inputSequence, m_globalShutdown, mouseVars, textInput>>

\* SDL_WINDOWEVENT_CLOSE; the session's share is closeThisSession.
Close ==
    /\ ~m_globalShutdown
    /\ m_globalShutdown' = TRUE
    /\ UNCHANGED <<m_keyMap, m_inputSequence, modeVars, mouseVars, window, textInput>>

\* SDL_WINDOWEVENT_FOCUS_GAINED and _LOST.
Focus ==
    \E gained \in BOOLEAN :
        /\ ~m_globalShutdown
        /\ textInput' = gained
        /\ UNCHANGED <<m_keyMap, m_inputSequence, m_globalShutdown, modeVars, mouseVars,
                       window>>

\* The user drags an edge of the window; SDL_WINDOWEVENT_RESIZED only redraws.
Resize ==
    /\ m_isWindowMode
    /\ window' \in WindowSizes
    /\ UNCHANGED <<m_keyMap, m_inputSequence, m_globalShutdown, modeVars, mouseVars,
                   textInput>>

InWindow(point) == point[1] < window[1] /\ point[2] < window[2]

\* handleMouseButtonDownEvent, left button.  The window is kept as history.
MouseDown ==
    \E point \in Points :
        /\ ~m_globalShutdown
        /\ InWindow(point)
        /\ m_isMouseSelected' = TRUE
        /\ m_mouseSource' = point
        /\ drag' = [source |-> point, pressedIn |-> window]
        /\ clipboard' = None
        /\ UNCHANGED <<m_keyMap, m_inputSequence, m_globalShutdown, modeVars, window,
                       textInput>>

\* handleMouseButtonUpEvent, left button.
MouseUp ==
    \E point \in Points :
        LET moved == point[1] # m_mouseSource[1] /\ point[2] # m_mouseSource[2] IN
        /\ ~m_globalShutdown
        /\ m_isMouseSelected     \* SDL reports a release after a press only
        /\ InWindow(point)
        /\ m_isMouseSelected' = FALSE
        /\ clipboard' = IF moved
                        THEN bufferToClipboard(SelectedCells(m_mouseSource, point, window))
                        ELSE clipboard
        /\ drag' = IF moved
                   THEN [source |-> m_mouseSource, point |-> point,
                         pressedIn |-> drag.pressedIn, releasedIn |-> window]
                   ELSE None
        /\ UNCHANGED <<m_keyMap, m_inputSequence, m_globalShutdown, modeVars, m_mouseSource,
                       window, textInput>>

\* handleMouseButtonDownEvent, right button: paste, and text input is on.
Paste ==
    \E text \in Clippings :
        /\ ~m_globalShutdown
        /\ setInputSequence(Pasted(text))
        /\ textInput' = TRUE
        /\ UNCHANGED <<m_keyMap, m_globalShutdown, modeVars, mouseVars, window>>

\* The events of the user and the system that come to the window.
InputEvent ==
    \/ KeyDown \/ TextInput \/ AltH \/ AltReturn \/ Close \/ Focus \/ Resize
    \/ MouseDown \/ MouseUp \/ Paste

\* getInputSequence: the session takes everything at once.
TakeInput == m_inputSequence' = <<>>

-----------------------------------------------------------------------------
(* The window of a connection on its own: what it gets goes to the host.   *)

DeliverInput ==
    /\ ~IsDialDirectory
    /\ m_inputSequence # <<>>
    /\ TakeInput
    /\ UNCHANGED <<m_keyMap, m_globalShutdown, modeVars, mouseVars, window, textInput>>

InputNext == InputEvent \/ DeliverInput

InputSpec == InputInit /\ [][InputNext]_inputVars

-----------------------------------------------------------------------------
Copied == "releasedIn" \in DOMAIN drag
InOneSize == drag.pressedIn = drag.releasedIn

\* A selection is copied from cells of the screen, whatever the size of the
\* window, as long as it keeps that size during the drag.
SelectionOnScreen ==
    Copied /\ InOneSize =>
        LET cells == SelectedCells(drag.source, drag.point, drag.releasedIn)
        IN  /\ cells.column + cells.length <= TermWidth
            /\ cells.row + cells.rows <= TermHeight
            /\ \A i \in DOMAIN clipboard : \A j \in DOMAIN clipboard[i] :
                  clipboard[i][j] < TermWidth * TermHeight

\* In a window that shows whole pixels for every cell, the text that is
\* copied is the text between the two points.
CopiedIsMeant ==
    Copied /\ InOneSize /\ WholeCells(drag.releasedIn) =>
        clipboard = Meant(drag.source, drag.point, drag.releasedIn)

\* The host can tell the keys of a key map apart: what one sends is not what
\* another sends and does not start it, but for ESC and for the keypad.
KeysAreToldApart(name) ==
    \A one, other \in {key \in Keys : key.sym \notin DOMAIN Keypad} :
        IsPrefix(KeyDownSequence(one, name), KeyDownSequence(other, name))
            => one = other \/ KeyDownSequence(one, name) \in {<<>>, <<"ESC">>}

\* Not so: what is copied is what lies between the two points, in a window of
\* any size (a fraction of a pixel is lost twice on the way from the points to
\* the cells).
CopiedIsMeantAlways ==
    Copied /\ InOneSize => clipboard = Meant(drag.source, drag.point, drag.releasedIn)

\* Not so: what is copied lies on the screen, when the size of the window
\* changes during the drag (the source is in pixels of the old size).
CopiedIsOnScreen ==
    Copied => \A i \in DOMAIN clipboard : \A j \in DOMAIN clipboard[i] :
                 clipboard[i][j] < TermWidth * TermHeight

=============================================================================
