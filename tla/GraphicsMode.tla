---------------------------- MODULE GraphicsMode ----------------------------
(***************************************************************************)
(* The colours of the emulated screen: ESC [ ... m, and what ESC [ s and   *)
(* ESC [ u keep of them.                                                   *)
(*                                                                         *)
(* The loop of sequenceGraphicsModeDisplay handles one number after the    *)
(* other and keeps nothing between them, so a number is a step here; a     *)
(* command without numbers does what the number 0 does.                    *)
(*                                                                         *)
(* The server is any stream of numbers.  want and orderly are history: the *)
(* colours a terminal shows for the numbers since the last reset, and      *)
(* whether they came in the order in which BBS software writes them        *)
(* (intensity first, then inversion, then any colours).                    *)
(***************************************************************************)
EXTENDS Naturals

CONSTANT Hues     \* the numbers of the colours the server uses

ASSUME HuesAssumption == Hues \subseteq 0 .. 7 /\ {0, 7} \subseteq Hues

VARIABLES
    m_color_attribute,
    m_prev_color_attribute,
    fg,             \* m_current_fg_color
    bg,             \* m_current_bg_color
    savedColours,   \* m_saved_attribute, m_saved_prev_attr, m_saved_fg_color, m_saved_bg_color
    want,           \* history: what the numbers since the last reset ask for
    orderly         \* history: they came in the usual order

colours == <<m_color_attribute, m_prev_color_attribute, fg, bg>>
graphicsVars == <<colours, savedColours, want, orderly>>

\* The colours of Renderer: DARK_GREY is light black, YELLOW is light brown.
Dark(n)  == [hue |-> n, light |-> FALSE]
Light(n) == [hue |-> n, light |-> TRUE]
Black == Dark(0)
Grey  == Dark(7)

\* m_saved_fg_color and m_saved_bg_color have no initial value.
Unset   == [hue |-> 8, light |-> FALSE]
Palette == [hue : Hues, light : BOOLEAN]
Colours == Palette \union {Unset}

-----------------------------------------------------------------------------
(* What one number does to the colours.                                    *)

ResetColours ==
    /\ m_prev_color_attribute' = 0
    /\ m_color_attribute' = 0
    /\ fg' = Grey
    /\ bg' = Black

BoldOn ==
    /\ m_prev_color_attribute' = 1
    /\ m_color_attribute' = 1
    /\ fg' = IF fg = Unset THEN fg ELSE Light(fg.hue)
    /\ bg' = bg

\* Faint, italics, underscore and rapid blinking only leave their number.
OnlyAttribute(n) ==
    /\ m_color_attribute' = n
    /\ UNCHANGED <<m_prev_color_attribute, fg, bg>>

\* Faulty: the colours come back alone.
RestoreColours ==
    /\ fg' = savedColours.fg
    /\ bg' = savedColours.bg
    /\ want' = savedColours.want /\ orderly' = savedColours.orderly
    /\ UNCHANGED <<m_color_attribute, m_prev_color_attribute, savedColours>>

\* BLINK_ON and REVERSE_VIDEO_ON.
Flip(n) ==
    /\ m_color_attribute' = n
    /\ m_prev_color_attribute' = m_prev_color_attribute
    /\ fg' = bg
    /\ bg' = fg

BoldOff ==
    /\ m_prev_color_attribute' = 0
    /\ m_color_attribute' = 0
    /\ UNCHANGED <<fg, bg>>

Flipped == m_color_attribute \in {5, 7}

\* The colour 30 + n becomes the ink, which is the background while flipped.
SetForeground(n) ==
    /\ IF Flipped
       THEN /\ bg' = IF m_prev_color_attribute = 1 THEN Light(n) ELSE Dark(n)
            /\ fg' = fg
       ELSE /\ fg' = IF m_color_attribute = 0 THEN Dark(n) ELSE Light(n)
            /\ bg' = bg
    /\ UNCHANGED <<m_color_attribute, m_prev_color_attribute>>

\* The colour 40 + n becomes the paper; blinking makes it light.
SetBackground(n) ==
    /\ IF Flipped
       THEN /\ fg' = IF m_color_attribute = 5 THEN Light(n) ELSE Dark(n)
            /\ bg' = bg
       ELSE /\ bg' = Dark(n)
            /\ fg' = fg
    /\ UNCHANGED <<m_color_attribute, m_prev_color_attribute>>

-----------------------------------------------------------------------------
(* What the numbers ask for: the reference.                                *)

Plain == [bold |-> FALSE, flip |-> "none", ink |-> 7, paper |-> 0]

\* The colours of the text, before and after they are exchanged.
Shows(w, f, b) ==
    LET ink   == IF w.bold THEN Light(w.ink) ELSE Dark(w.ink)
        paper == Dark(w.paper)
    IN IF w.flip = "none" THEN f = ink /\ b = paper ELSE f = paper /\ b = ink

-----------------------------------------------------------------------------

\* The history of a number: what it asks for, if it comes in order.
Asks(w, inOrder) ==
    /\ orderly' = (orderly /\ inOrder)
    /\ want' = IF orderly /\ inOrder THEN w ELSE Plain

GraphicsInit ==
    /\ m_color_attribute = 0
    /\ m_prev_color_attribute = 0
    /\ fg = Grey
    /\ bg = Black
    /\ savedColours = [attribute |-> 1, previous |-> 1, fg |-> Unset, bg |-> Unset,
                       want |-> Plain, orderly |-> FALSE]
    /\ want = Plain
    /\ orderly = TRUE

\* ESC [ m, ESC [ 0 m.
Reset ==
    /\ ResetColours
    /\ want' = Plain /\ orderly' = TRUE
    /\ UNCHANGED savedColours

Bold ==
    /\ BoldOn
    /\ Asks([want EXCEPT !.bold = TRUE], want.flip = "none")
    /\ UNCHANGED savedColours

Minor ==
    /\ \E n \in {2, 3, 4, 6} : OnlyAttribute(n)
    /\ Asks(want, FALSE)
    /\ UNCHANGED savedColours

Blink ==
    /\ Flip(5)
    /\ Asks([want EXCEPT !.flip = "blink"], want.flip = "none")
    /\ UNCHANGED savedColours

ReverseVideo ==
    /\ Flip(7)
    /\ Asks([want EXCEPT !.flip = "reverse"], want.flip = "none")
    /\ UNCHANGED savedColours

NotBold ==
    /\ BoldOff
    /\ Asks(want, ~want.bold /\ want.flip = "none")
    /\ UNCHANGED savedColours

\* INVERSE OFF: the same exchange once more.  It forgets that bold is on.
NotReverse ==
    /\ Flip(0)
    /\ Asks([want EXCEPT !.flip = "none"], ~want.bold /\ want.flip = "reverse")
    /\ UNCHANGED savedColours

Foreground ==
    /\ \E n \in Hues : SetForeground(n) /\ Asks([want EXCEPT !.ink = n], TRUE)
    /\ UNCHANGED savedColours

\* While blinking, a background is light: the order for it is ink last.
Background ==
    /\ \E n \in Hues :
          SetBackground(n) /\ Asks([want EXCEPT !.paper = n], want.flip # "blink")
    /\ UNCHANGED savedColours

SaveCursor ==
    /\ savedColours' = [attribute |-> m_color_attribute, previous |-> m_prev_color_attribute,
                        fg |-> fg, bg |-> bg, want |-> want, orderly |-> orderly]
    /\ UNCHANGED <<colours, want, orderly>>

RestoreCursor ==
    /\ m_color_attribute' = savedColours.attribute
    /\ m_prev_color_attribute' = savedColours.previous
    /\ fg' = savedColours.fg
    /\ bg' = savedColours.bg
    /\ want' = savedColours.want /\ orderly' = savedColours.orderly
    /\ UNCHANGED savedColours

GraphicsNext ==
    \/ Reset \/ Bold \/ Minor \/ Blink \/ ReverseVideo \/ NotBold \/ NotReverse
    \/ Foreground \/ Background \/ SaveCursor \/ RestoreCursor

GraphicsSpec == GraphicsInit /\ [][GraphicsNext]_graphicsVars

-----------------------------------------------------------------------------
(* Type correctness: the attribute is one of the numbers the switches know, *)
(* the colours are colours of Renderer or what the memory held before.      *)
WantType == [bold : BOOLEAN, flip : {"none", "blink", "reverse"}, ink : Hues, paper : Hues]

GraphicsTypeOK ==
    /\ m_color_attribute \in 0 .. 7
    /\ m_prev_color_attribute \in {0, 1}
    /\ fg \in Colours
    /\ bg \in Colours
    /\ savedColours \in [attribute : 0 .. 7, previous : {0, 1}, fg : Colours, bg : Colours,
                         want : WantType, orderly : BOOLEAN]
    /\ want \in WantType
    /\ orderly \in BOOLEAN

(* A server that sends intensity, then blinking or inversion, then colours,  *)
(* and turns nothing off but inversion, gets the colours it asked for, also  *)
(* after ESC [ s, any other numbers, and ESC [ u: the exchange of the two    *)
(* colours, the two attributes that remember it and the light and dark halves *)
(* of the colour tables fit together.                                        *)
OrderlyNumbersShow == orderly => Shows(want, fg, bg)

(* The comment on inversion in sequenceGraphicsModeDisplay: "light foreground *)
(* is translated to dark background".                                        *)
InversionDarkens == [][ReverseVideo => ~bg'.light]_graphicsVars

(* Every colour drawn was set by someone.                                    *)
ColoursAreSet == fg # Unset /\ bg # Unset
=============================================================================
