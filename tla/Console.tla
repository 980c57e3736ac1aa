------------------------------ MODULE Console ------------------------------
(***************************************************************************)
(* Where characters go: terminal_putc of src/shell/terminal.c, to a sink   *)
(* or the boot console, and always to the ring that user programs read.    *)
(*                                                                         *)
(* kernel_main prints with interrupts on when it starts the GUI and when   *)
(* that has ended: its terminal_putc is a sequence of steps.  Everything   *)
(* else that prints, handlers and system calls, does so with interrupts    *)
(* off: one step each.                                                     *)
(*                                                                         *)
(* Characters are "a" (any that is drawn), "nl", "cr" and "bs".  What a    *)
(* sink does with them is TerminalScreen's and TextMode's.  Of the screen  *)
(* only the cursor is kept, not what is drawn there.                       *)
(***************************************************************************)
EXTENDS Naturals, Sequences

CONSTANTS
  VgaRows, VgaCols, VesaRows, VesaCols,
  RingSize              \* TERM_BUF_SIZE

VARIABLES
  sink,       \* terminal_sink is set
  vesa,       \* vesa_video_memory is set
  cursor,     \* terminal_row and terminal_column
  ring,       \* term_buffer, term_buf_head, term_buf_tail
  put,        \* where kernel_main's terminal_putc is
  kept,       \* history: the characters that the ring should hold
  raced       \* history: a handler printed between main's steps

consoleVars == <<sink, vesa, cursor, ring, put, kept, raced>>

ScreenRows == IF vesa THEN VesaRows ELSE VgaRows
ScreenCols == IF vesa THEN VesaCols ELSE VgaCols

Chars == {"a", "nl", "cr", "bs"}
Ready == [step |-> "ready", char |-> "nl", head |-> 0, draws |-> FALSE]

(* The boot messages left the cursor somewhere on the screen. *)
ConsoleInit ==
  /\ sink = FALSE
  /\ vesa \in BOOLEAN
  /\ cursor \in [row : 0 .. ScreenRows - 1, col : 0 .. ScreenCols - 1]
  /\ ring = [buf |-> [i \in 0 .. RingSize - 1 |-> "nl"], head |-> 0, tail |-> 0]
  /\ put = Ready
  /\ kept = <<>>
  /\ raced = FALSE

(* Mutant: the ring may fill to its last place, and then looks empty. *)
FullNever(head, tail) == FALSE

Full(head, tail) == (head + 1) % RingSize = tail

Stored(head, c) == [ring EXCEPT !.buf[head] = c, !.head = (head + 1) % RingSize]

Keep(c) == IF Len(kept) < RingSize - 1 THEN Append(kept, c) ELSE kept

(* The boot console's cursor after a character; "bs" goes back on VGA      *)
(* only, on VESA it is drawn like any other.                               *)
MovedBy(c) ==
  CASE c = "nl" -> [row |-> cursor.row + 1, col |-> 0]
    [] c = "cr" -> [cursor EXCEPT !.col = 0]
    [] c = "bs" /\ ~vesa -> IF cursor.col > 0 THEN [cursor EXCEPT !.col = @ - 1]
                            ELSE IF cursor.row > 0 THEN [row |-> cursor.row - 1, col |-> ScreenCols - 1]
                            ELSE cursor
    [] OTHER -> IF cursor.col + 1 >= ScreenCols THEN [row |-> cursor.row + 1, col |-> 0]
                ELSE [cursor EXCEPT !.col = @ + 1]

(* Characters behind which the column is counted up. *)
HasGlyph(c) == c = "a" \/ (c = "bs" /\ vesa)

(* terminal_scroll, or vesa_scroll, which clears the screen. *)
Scrolled(at) ==
  IF at.row < ScreenRows THEN at
  ELSE IF vesa THEN [row |-> 0, col |-> 0] ELSE [at EXCEPT !.row = @ - 1]

------------------------------------------------------------------------------
(* terminal_putc of kernel_main.  The sink is called, if there is one, *)
PutSink(c) ==
  /\ put.step = "ready"
  /\ put' = [step |-> "load", char |-> c, head |-> 0, draws |-> ~sink]
  /\ UNCHANGED <<sink, vesa, cursor, ring, kept, raced>>

(* the head is loaded and compared, and the sink looked at again;          *)
PutLoad ==
  LET draws == put.draws \/ ~sink IN
  /\ put.step = "load"
  /\ put' = IF ~Full(ring.head, ring.tail)
            THEN [put EXCEPT !.step = "store", !.head = ring.head, !.draws = draws]
            ELSE IF draws THEN [put EXCEPT !.step = "draw"] ELSE Ready
  /\ UNCHANGED <<sink, vesa, cursor, ring, kept, raced>>

(* the character is stored where the head was, and the head set behind it; *)
PutStore ==
  /\ put.step = "store"
  /\ ring' = Stored(put.head, put.char)
  /\ kept' = Keep(put.char)
  /\ put' = IF put.draws THEN [put EXCEPT !.step = "draw"] ELSE Ready
  /\ UNCHANGED <<sink, vesa, cursor, raced>>

(* it is drawn where the cursor is, and the column counted up, or, if it   *)
(* is not one that is drawn, the cursor moved;                             *)
PutDraw ==
  /\ put.step = "draw"
  /\ IF HasGlyph(put.char)
     THEN cursor' = [cursor EXCEPT !.col = @ + 1] /\ put' = [put EXCEPT !.step = "wrap"]
     ELSE cursor' = MovedBy(put.char) /\ put' = [put EXCEPT !.step = "scroll"]
  /\ UNCHANGED <<sink, vesa, ring, kept, raced>>

(* behind the last column a new row begins;                                *)
PutWrap ==
  /\ put.step = "wrap"
  /\ cursor' = IF cursor.col >= ScreenCols THEN [row |-> cursor.row + 1, col |-> 0] ELSE cursor
  /\ put' = [put EXCEPT !.step = "scroll"]
  /\ UNCHANGED <<sink, vesa, ring, kept, raced>>

(* only then is it seen that the cursor has left the screen.               *)
PutScroll ==
  /\ put.step = "scroll"
  /\ cursor' = Scrolled(cursor)
  /\ put' = Ready
  /\ UNCHANGED <<sink, vesa, ring, kept, raced>>

(* terminal_putc of a handler, between two steps of main. *)
HandlerPuts(c) ==
  /\ ring' = IF Full(ring.head, ring.tail) THEN ring ELSE Stored(ring.head, c)
  /\ kept' = Keep(c)
  /\ cursor' = IF sink THEN cursor ELSE Scrolled(MovedBy(c))
  /\ raced' = (raced \/ put.step \in {"store", "wrap", "scroll"})
  /\ UNCHANGED <<sink, vesa, put>>

(* terminal_clear, the command clear. *)
HandlerClears ==
  /\ cursor' = [row |-> 0, col |-> 0]
  /\ UNCHANGED <<sink, vesa, ring, put, kept, raced>>

(* terminal_set_sink *)
SetSink ==
  /\ sink' = ~sink
  /\ UNCHANGED <<vesa, cursor, ring, put, kept, raced>>

(* terminal_get_char, the system call of a user program. *)
GetChar ==
  /\ ring.head # ring.tail
  /\ ring' = [ring EXCEPT !.tail = (@ + 1) % RingSize]
  /\ kept' = IF kept = <<>> THEN kept ELSE Tail(kept)
  /\ UNCHANGED <<sink, vesa, cursor, put, raced>>

ConsoleNext ==
  \/ \E c \in Chars : PutSink(c) \/ HandlerPuts(c)
  \/ PutLoad \/ PutStore \/ PutDraw \/ PutWrap \/ PutScroll
  \/ HandlerClears \/ SetSink \/ GetChar
------------------------------------------------------------------------------
Contents ==
  [i \in 1 .. (ring.head + RingSize - ring.tail) % RingSize |->
     ring.buf[(ring.tail + i - 1) % RingSize]]

(* Unless a handler printed between main's reading and writing of them:    *)
(* the ring holds the characters printed, oldest first, and drops only     *)
(* those that come when it is full; and the cursor of the boot console is  *)
(* on the screen whenever a character may be drawn.                        *)
ConsoleUnlessRaced ==
  ~raced =>
    /\ Contents = kept
    /\ put.step \notin {"wrap", "scroll"} =>
         cursor.row < ScreenRows /\ cursor.col < ScreenCols
=============================================================================
