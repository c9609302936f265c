-------------------------- MODULE MCDialDirectory --------------------------
(* Values of the constants of DialDirectory for the runs.                  *)
EXTENDS DialDirectory

Command(key, command) == [key |-> key, command |-> command, string |-> "", lightbar |-> FALSE]
Bar(key, command)     == [key |-> key, command |-> command, string |-> "", lightbar |-> TRUE]

\* A menu with the keys and commands of default_theme.menu and fire_theme.menu,
\* reduced: of their eight light bars the two that have a command, to connect and
\* to quit.  Help and about are light bars without a command there; here they are
\* plain keys, '?' and 'A', with the commands handleMenuActions() has for them.
ThemeMenu ==
    << Command("+", "!D"), Command("-", "!U"), Command("DOWN", "!+"), Command("UP", "!-"),
       Command("ESC", "!Q"), Command("PAGEDN", "!D"), Command("PAGEUP", "!U"),
       Bar("C", "!E"), Bar("Q", "!Q"), Command("?", "!?"), Command("A", "!A"),
       Command("]", "!]"), Command("[", "!["), Command("HOME", "!F"), Command("END", "!B") >>

\* A menu with another number of light bars, and one that changes the menu.
ShortMenu ==
    << Command("]", "!]"), Command("[", "!["), Command("DOWN", "!+"), Bar("C", "!E") >>
SwitchMenu ==
    << [key |-> "A", command |-> "-^", string |-> "short", lightbar |-> FALSE],
       Bar("C", "!E"), Command("DOWN", "!+") >>

\* A menu with a command about the menu behind its first light bar.
LitMenu ==
    << [key |-> "A", command |-> "-^", string |-> "default_theme", lightbar |-> FALSE],
       Bar("C", "!E"), Bar("Q", "!Q") >>

MCMenus == [default_theme |-> ThemeMenu, fire_theme |-> ThemeMenu]
MCShortMenus == [default_theme |-> ThemeMenu, fire_theme |-> ShortMenu]
MCLitMenus == [default_theme |-> LitMenu]
MCSwitchMenus == [default_theme |-> SwitchMenu, short |-> ShortMenu]

ThemeBox(top, bottom, prompt) == [top |-> top, bottom |-> bottom, prompt |-> prompt]
MCThemes == << ThemeBox(2, 4, "default_theme"), ThemeBox(1, 3, "fire_theme") >>
MCOtherBoxes == << ThemeBox(2, 4, "default_theme"), ThemeBox(1, 4, "fire_theme") >>
MCOneTheme == << ThemeBox(2, 4, "default_theme") >>

Press(sym) == [sym |-> sym, shift |-> FALSE, ctrl |-> FALSE, alt |-> FALSE, num |-> FALSE]
MCKeys == {Press(k) : k \in {"ESCAPE", "RETURN", "UP", "DOWN", "RIGHT", "HOME", "END",
                             "PAGEUP", "PAGEDOWN"}}
MCFewKeys == {Press(k) : k \in {"RETURN", "RIGHT", "DOWN", "PAGEDOWN"}}
MCPoints == {<<0, 0>>}
MCSizes == {<<640, 400>>}
MCDesktop == <<1280, 800>>

\* The tables of the keyboard and of the menu as they are.
ASSUME KeyTables == \A name \in KeyMapNames : KeysAreUnderstood(name)

\* What the theorems about the directory assume holds of its themes and menus.
ASSUME ThemesAgree ==
    Themes = MCThemes /\ Menus = MCMenus => SameBoxes /\ SameBars /\ NoMenuCommands
=============================================================================
