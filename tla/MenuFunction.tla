---------------------------- MODULE MenuFunction ----------------------------
(***************************************************************************)
(* The menus of the dialing directory: what MenuFunction reads from a menu *)
(* file and how it turns the characters that wait into commands.           *)
(*                                                                         *)
(* A menu file is a sequence of commands [key, command, string, lightbar]: *)
(* CKeys, CmdKeys, MString and LBarCmd of each CommandRec in the file.     *)
(* The members of MenuFunction are one record, because every operation     *)
(* changes several of them one after the other: the operators below take   *)
(* the record and return the one that the code leaves behind.              *)
(* m_isLoadNewMenu is left out: it is assigned and never read.             *)
(***************************************************************************)
EXTENDS Naturals, Sequences, SequencesExt

CONSTANT Menus      \* the menu files: names to sequences of commands

CommandRecord == [key : STRING, command : STRING, string : STRING, lightbar : BOOLEAN]

ASSUME MenusAssumption ==
    \A name \in DOMAIN Menus : name \in STRING /\ Menus[name] \in Seq(CommandRecord)

Capital ==
    [a |-> "A", b |-> "B", c |-> "C", d |-> "D", e |-> "E", f |-> "F", g |-> "G",
     h |-> "H", i |-> "I", j |-> "J", k |-> "K", l |-> "L", m |-> "M", n |-> "N",
     o |-> "O", p |-> "P", q |-> "Q", r |-> "R", s |-> "S", t |-> "T", u |-> "U",
     v |-> "V", w |-> "W", x |-> "X", y |-> "Y", z |-> "Z"]

toupper(c) == IF c \in DOMAIN Capital THEN Capital[c] ELSE c

\* No menu is loaded yet.
NewMenu ==
    [m_curent_menu |-> "", m_previous_menu |-> "", m_gosub_menu |-> "",
     m_choice |-> 0, m_command_record |-> <<>>, m_command_index |-> <<>>]

IsBar(c) == c.lightbar /\ c.key # "FIRSTCMD"

\* The places of the light bars in a menu file, in its order.
BarsOf(commands) ==
    FlattenSeq([i \in DOMAIN commands |-> IF IsBar(commands[i]) THEN <<i>> ELSE <<>>])

\* The light bars of the menu that is loaded.
LightBars(menu) == menu.m_command_index

FunctionKeys == {"ESC", "LEFT", "RIGHT", "UP", "DOWN", "HOME", "END", "PAGEUP", "PAGEDN"}

\* The places of the commands of a function key.  m_command_index_function
\* keeps the first.
FunctionCommands(menu, key) ==
    {i \in DOMAIN menu.m_command_record :
        key \in FunctionKeys /\ menu.m_command_record[i].key = key}

-----------------------------------------------------------------------------
\* menuDoCommands: a command that starts with ! is for the caller, one that
\* starts with - is about the menu itself.
menuDoCommands(menu, c) ==
    CASE c.command = "-^" ->
            [menu EXCEPT !.m_curent_menu = c.string, !.m_choice = 0]
      [] c.command = "-/" ->
            [menu EXCEPT !.m_gosub_menu = menu.m_curent_menu,
                         !.m_curent_menu = c.string, !.m_choice = 0]
      [] c.command = "-!" /\ menu.m_gosub_menu # "" ->
            [menu EXCEPT !.m_curent_menu = menu.m_gosub_menu, !.m_choice = 0]
      [] OTHER -> menu

\* The key of the light bar the user has chosen.
ChosenKey(menu) ==
    menu.m_command_record[LightBars(menu)[menu.m_choice + 1]].key

\* One command of the file, when it has this key.  "BAR" stands for the key of
\* the light bar that is chosen by then.
RunOne(done, c, key) ==
    IF c.key = IF key = "BAR" THEN ChosenKey(done.menu) ELSE key
    THEN [menu |-> menuDoCommands(done.menu, c), parameters |-> c.command]
    ELSE done

\* Run the commands of cs with this key, one after the other: each sees what
\* the earlier ones did, and parameters is what strcpy left last.
RunStacked(menu, cs, key) ==
    LET ran[n \in 0 .. Len(cs)] ==
            IF n = 0 THEN [menu |-> menu, parameters |-> ""] ELSE RunOne(ran[n - 1], cs[n], key)
    IN  ran[Len(cs)]

\* Reading past the end of a std::string gives the character 0, here "".
CharAt(input, i) == IF i <= Len(input) THEN input[i] ELSE ""

\* The third character of an escape sequence, or the fourth after a 0.
SecondSequence(input) ==
    IF CharAt(input, 3) = "0" THEN CharAt(input, 4) ELSE CharAt(input, 3)

\* What the escape sequence at the front of the input is taken for.
FunctionKey(input) ==
    LET second == SecondSequence(input)
        tilde  == CharAt(input, 4) = "~"
    IN  CASE second = ""                              -> "ESC"
          [] second = "A"                             -> "UP"
          [] second = "B"                             -> "DOWN"
          [] second = "C"                             -> "RIGHT"
          [] second = "D"                             -> "LEFT"
          [] second = "V" \/ (second = "5" /\ tilde)  -> "PAGEUP"
          [] second = "U" \/ (second = "6" /\ tilde)  -> "PAGEDN"
          [] second = "H"                             -> "HOME"
          [] second = "K"                             -> "END"
          [] OTHER                                    -> "none"

\* Faulty: no way around the end.
MoveChoiceOn(menu, second) ==
    CASE second = "D" /\ menu.m_choice > 0 -> [menu EXCEPT !.m_choice = @ - 1]
      [] second = "C"                      -> [menu EXCEPT !.m_choice = @ + 1]
      [] OTHER                             -> menu

\* The light bar to the left or right of the chosen one, around the ends.
MoveChoice(menu, second) ==
    LET bars == Len(LightBars(menu))
        left == IF menu.m_choice = 0 THEN bars - 1 ELSE menu.m_choice - 1
        right == IF menu.m_choice = bars - 1 THEN 0 ELSE menu.m_choice + 1
    IN  CASE bars > 0 /\ second = "D" -> [menu EXCEPT !.m_choice = left]
          [] bars > 0 /\ second = "C" -> [menu EXCEPT !.m_choice = right]
          [] OTHER                    -> menu

\* An escape sequence: the command of the function key, or else the sequence
\* is passed on (its second character alone, which is no command) and an
\* arrow moves the light bar.
EscapeInput(menu, input) ==
    LET found == FunctionCommands(menu, FunctionKey(input))
        first == menu.m_command_record[Min(found)]
    IN
    IF found # {}
    THEN [menu |-> menuDoCommands(menu, first), parameters |-> first.command]
    ELSE [menu |-> MoveChoice(menu, SecondSequence(input)), parameters |-> ""]

\* ENTER runs every command with the key of the chosen light bar; without
\* light bars, every command with the key ENTER.
EnterInput(menu) ==
    RunStacked(menu, menu.m_command_record,
               IF LightBars(menu) # <<>> THEN "BAR" ELSE "ENTER")

\* Any other character runs every command with that hot key.
HotKeyInput(menu, char) ==
    RunStacked(menu, menu.m_command_record,
               IF char = " " THEN "SPACE" ELSE toupper(char))

\* menuLightBars: only the first key of the input counts, the rest is lost.
menuLightBars(menu, input) ==
    LET done == CASE input[1] = "ESC" -> EscapeInput(menu, input)
                  [] input[1] = "CR"  -> EnterInput(menu)
                  [] OTHER            -> HotKeyInput(menu, input[1])
    IN  [menu |-> done.menu, parameters |-> done.parameters]

\* menuProcess: without commands nothing happens.
menuProcess(menu, input) ==
    IF menu.m_command_record = <<>>
    THEN [menu |-> menu, parameters |-> ""]
    ELSE menuLightBars(menu, input)

\* menuStart, when the menu named is not the one loaded last: read the file,
\* run its FIRSTCMDs, and remember the menu unless it is all FIRSTCMDs.
LoadMenu(menu, name) ==
    LET commands == Menus[name]
        loaded   == RunStacked([menu EXCEPT !.m_curent_menu = name,
                                            !.m_command_record = commands,
                                            !.m_command_index = BarsOf(commands)],
                               commands, "FIRSTCMD").menu
    IN  IF \A i \in DOMAIN commands : commands[i].key = "FIRSTCMD"
        THEN loaded
        ELSE [loaded EXCEPT !.m_previous_menu = loaded.m_curent_menu]

menuStart(menu, name) ==
    CASE menu.m_previous_menu = name -> menu
      [] menu.m_previous_menu # name /\ name \notin DOMAIN Menus ->
            [menu EXCEPT !.m_curent_menu = name]
      [] OTHER -> LoadMenu(menu, name)

=============================================================================
