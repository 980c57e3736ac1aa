--------------------------- MODULE TerminalScreen ---------------------------
(***************************************************************************)
(* The screen of a terminal window, src/apps/terminal_app.c: the sink that *)
(* gets every character printed while a command of the window runs.        *)
(*                                                                         *)
(* Characters are "esc", "nl" (line feed or carriage return) and those     *)
(* that are drawn, of which Letters end an escape sequence; other control  *)
(* characters, which draw nothing, are left out.  Rows, Cols and           *)
(* EscapeRoom are TERM_ROWS, TERM_COLS and what escape_buf keeps.  Colours *)
(* gives the escape bodies that ask for a colour, and the colour.          *)
(***************************************************************************)
EXTENDS Naturals, Sequences, FiniteSetsExt

CONSTANTS Rows, Cols, EscapeRoom, Drawn, Letters, Colours,
          MaxPrinted    \* bound: so many characters are printed

VARIABLES
  screen,     \* screen and colors: a row is a sequence of cells, blank when short
  row, col,   \* cursor_row and cursor_col, from 0
  escape,     \* in_escape and escape_buf
  colour,     \* current_color
  printed     \* history: all that was printed

screenVars == <<screen, row, col, escape, colour, printed>>

NoEscape == [in |-> FALSE, buf |-> <<>>]
Blank == [char |-> " ", colour |-> "default"]
BlankRow == [c \in 1 .. Cols |-> Blank]

(* terminal_app_create clears the screen. *)
ScreenInit ==
  /\ screen = [r \in 1 .. Rows |-> BlankRow]
  /\ row = 0 /\ col = 0
  /\ escape = NoEscape
  /\ colour = "default"
  /\ printed = <<>>

Collected(c) == IF Len(escape.buf) < EscapeRoom THEN Append(escape.buf, c) ELSE escape.buf

ColourOf(body) == IF body \in DOMAIN Colours THEN Colours[body] ELSE "same"

(* Inside an escape sequence: a letter ends it.                            *)
PutEscaped(c) ==
  /\ escape.in
  /\ LET asked == ColourOf(Collected(c)) IN
     IF c \in Letters
     THEN escape' = NoEscape /\ colour' = IF asked = "same" THEN colour ELSE asked
     ELSE escape' = [escape EXCEPT !.buf = Collected(c)] /\ colour' = colour
  /\ UNCHANGED <<screen, row, col>>

PutEsc(c) ==
  /\ ~escape.in /\ c = "esc"
  /\ escape' = [in |-> TRUE, buf |-> <<>>]
  /\ UNCHANGED <<screen, row, col, colour>>

(* Mutant: the last row is not cleared. *)
ScrolledDirty(cells) == Tail(cells) \o <<cells[Len(cells)]>>

Scrolled(cells) == Tail(cells) \o <<BlankRow>>

(* The cursor moves to r, c, and what was drawn scrolls when it leaves. *)
Moved(cells, r, c) ==
  IF r >= Rows THEN screen' = Scrolled(cells) /\ row' = r - 1 /\ col' = c
  ELSE screen' = cells /\ row' = r /\ col' = c

PutLine(c) ==
  /\ ~escape.in /\ c = "nl"
  /\ Moved(screen, row + 1, 0)
  /\ UNCHANGED <<escape, colour>>

PutDrawn(c) ==
  /\ ~escape.in /\ c \in Drawn
  /\ LET cells == [screen EXCEPT ![row + 1][col + 1] = [char |-> c, colour |-> colour]] IN
     IF col + 1 >= Cols THEN Moved(cells, row + 1, 0) ELSE Moved(cells, row, col + 1)
  /\ UNCHANGED <<escape, colour>>

(* terminal_app_sink, term_putc *)
Put(c) ==
  /\ Len(printed) < MaxPrinted
  /\ printed' = Append(printed, c)
  /\ PutEscaped(c) \/ PutEsc(c) \/ PutLine(c) \/ PutDrawn(c)

ScreenNext == \E c \in Drawn \cup {"esc", "nl"} : Put(c)
------------------------------------------------------------------------------
(* Escape sequences by their text: from an escape character to the next    *)
(* letter, or to the end.                                                  *)
Begins(i) ==
  /\ printed[i] = "esc"
  /\ \A j \in 1 .. i - 1 :
       printed[j] = "esc" => \E k \in j + 1 .. i - 1 : printed[k] \in Letters

EndOf(i) ==
  LET ends == {j \in i + 1 .. Len(printed) : printed[j] \in Letters}
  IN IF ends = {} THEN Len(printed) ELSE Min(ends)

Begun == {i \in DOMAIN printed : Begins(i)}

Visible ==
  {i \in DOMAIN printed :
     printed[i] \in Drawn \cup {"nl"} /\ \A j \in Begun : i \notin j .. EndOf(j)}

(* The colour that the last sequence that asks for one asked for. *)
ColourAt(i) ==
  LET body(j) == SubSeq(printed, j + 1, EndOf(j))
      asked == {j \in Begun : EndOf(j) < i /\ ColourOf(body(j)) # "same"}
  IN IF asked = {} THEN "default" ELSE ColourOf(body(Max(asked)))

(* Where the character after the i-th goes, if what was printed has        *)
(* never scrolled: its line and column, both from 0; a full line is        *)
(* followed by another.                                                    *)
Place ==
  LET visible == Visible
      place[i \in 0 .. Len(printed)] ==
        IF i = 0 THEN <<0, 0>>
        ELSE LET p == place[i - 1] IN
             IF i \notin visible THEN p
             ELSE IF printed[i] = "nl" \/ p[2] + 1 = Cols THEN <<p[1] + 1, 0>>
             ELSE <<p[1], p[2] + 1>>
  IN place

(* The window shows the last Rows lines of all that was printed, each      *)
(* character in the colour set last, and the cursor is at their end: no    *)
(* scrolling, wrapping or broken escape sequence loses, repeats or moves   *)
(* a character.                                                            *)
ScreenIsTail ==
  LET place == Place
      last == place[Len(printed)]
      gone == IF last[1] >= Rows THEN last[1] - (Rows - 1) ELSE 0
      drawn == {i \in Visible : printed[i] # "nl"}
  IN /\ <<row + gone, col>> = last
     /\ \A r \in 1 .. Rows, c \in 1 .. Cols :
          LET here == {i \in drawn : place[i - 1] = <<gone + r - 1, c - 1>>} IN
          \/ here = {} /\ screen[r][c] = Blank
          \/ \E i \in here : here = {i} /\ screen[r][c] = [char |-> printed[i], colour |-> ColourAt(i)]
=============================================================================
