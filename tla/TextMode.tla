------------------------------ MODULE TextMode ------------------------------
(***************************************************************************)
(* The text mode that kernel_main turns to when the GUI has ended          *)
(* (src/core/kernel.c), the sink of terminal_putc that it shares with the  *)
(* terminal windows, and the lock of kprintf.                              *)
(*                                                                         *)
(* kernel_main runs with interrupts on.  Handlers and system calls print   *)
(* with interrupts off: as long as `handler` holds work, nothing else      *)
(* runs.  Work is characters, "lock" and "unlock" of kprintf, and "unsink" *)
(* when a terminal window's command has returned.  Characters are "a" (any *)
(* that is drawn), "nl", "bs" and ">", the prompt.                         *)
(***************************************************************************)
EXTENDS Naturals, Sequences

CONSTANTS
  TtyCols,    \* the columns of the screen
  LineRoom    \* characters that tty_line_buf takes

VARIABLES
  sink,       \* terminal_sink
  lock,       \* g_printf_lock is held
  main,       \* where kernel_main is, and what its kprintf has still to print
  handler,    \* what the running handler has still to do
  hook,       \* whose key handler is called
  tty,        \* the row at tty_y up to tty_x, and did the row before it wrap?
  line,       \* tty_line_buf
  lost,       \* history: a window's command ended between main's two hooks
  disturbed   \* history: something else was printed since the prompt, or a key dropped

textVars == <<sink, lock, main, handler, hook, tty, line, lost, disturbed>>

(* A text without its last character. *)
Erased(text) == SubSeq(text, 1, Len(text) - 1)

At(pc, text) == [pc |-> pc, text |-> text]

TextInit ==
  /\ sink = "none"
  /\ lock = FALSE
  /\ main = At("gui", <<>>)
  /\ handler = <<>>
  /\ hook = "gui"
  /\ tty = [text |-> <<>>, wrapped |-> FALSE]
  /\ line = <<>>
  /\ lost = FALSE /\ disturbed = FALSE

(* tty_sink: only a line feed looks whether tty_y is still on the screen,  *)
(* and then the screen is cleared: the new row is blank in any case.  A    *)
(* row that wraps may go on below the screen.                              *)
TtyAfter(c) ==
  CASE c = "nl" -> [text |-> <<>>, wrapped |-> FALSE]
    [] c = "bs" -> IF tty.text = <<>> THEN tty ELSE [tty EXCEPT !.text = Erased(@)]
    [] OTHER -> IF Len(tty.text) + 1 >= TtyCols
                THEN [text |-> <<>>, wrapped |-> TRUE]
                ELSE [tty EXCEPT !.text = Append(@, c)]
Shown(c) == IF sink = "tty" THEN TtyAfter(c) ELSE tty
------------------------------------------------------------------------------
MainStep(from, to) ==
  /\ handler = <<>>
  /\ main = At(from, <<>>) /\ main' = to
  /\ UNCHANGED <<handler, line, lost, disturbed>>

(* The start menu ends the GUI; the screen is cleared, *)
GuiEnds == MainStep("gui", At("sink", <<>>)) /\ UNCHANGED <<sink, lock, hook, tty>>

(* the sink set, then the key handler.                                     *)
SetSink == MainStep("sink", At("hook", <<>>)) /\ sink' = "tty" /\ UNCHANGED <<lock, hook, tty>>
SetHook == MainStep("hook", At("kprintf", <<>>)) /\ hook' = "tty" /\ UNCHANGED <<sink, lock, tty>>

(* kprintf takes its lock, prints, and gives it back. *)
Lock ==
  /\ MainStep("kprintf", At("prompt", <<"a", "nl", ">">>))
  /\ ~lock /\ lock' = TRUE
  /\ UNCHANGED <<sink, hook, tty>>

Prints ==
  /\ handler = <<>> /\ main.text # <<>>
  /\ tty' = Shown(Head(main.text))
  /\ main' = [main EXCEPT !.text = Tail(@)]
  /\ UNCHANGED <<sink, lock, handler, hook, line, lost, disturbed>>

Unlock == MainStep("prompt", At("halt", <<>>)) /\ lock' = FALSE /\ UNCHANGED <<sink, hook, tty>>

Main == GuiEnds \/ SetSink \/ SetHook \/ Lock \/ Prints \/ Unlock
------------------------------------------------------------------------------
(* Handlers.  One begins between two steps of main. *)
Begins(work) ==
  /\ handler = <<>> /\ handler' = work
  /\ UNCHANGED <<lock, main, hook, lost>>

(* A frame's message, or a system call's output. *)
Output(work) ==
  /\ Begins(work)
  /\ disturbed' = (disturbed \/ main.pc \in {"prompt", "halt"})
  /\ UNCHANGED <<sink, tty, line>>

(* Enter in a terminal window, as long as main has not taken the keys. *)
WindowEnter(out) ==
  /\ hook = "gui"
  /\ Begins(out \o <<"unsink">>)
  /\ sink' = "window"
  /\ UNCHANGED <<tty, line, disturbed>>

(* tty_key_handler: a character is echoed, and stored if there is room. *)
TtyKey ==
  /\ hook = "tty" /\ Begins(<<>>)
  /\ tty' = TtyAfter("a")
  /\ line' = IF Len(line) < LineRoom THEN Append(line, "a") ELSE line
  /\ disturbed' = (disturbed \/ Len(line) = LineRoom \/ main.pc # "halt")
  /\ UNCHANGED sink

(* Mutant: the echo does not ask whether there is a character to erase. *)
TtyBackspaceAlways ==
  /\ hook = "tty" /\ Begins(<<>>)
  /\ tty' = TtyAfter("bs")
  /\ line' = IF line = <<>> THEN line ELSE Erased(line)
  /\ UNCHANGED <<sink, disturbed>>

TtyBackspace ==
  /\ hook = "tty" /\ line # <<>> /\ Begins(<<>>)
  /\ tty' = TtyAfter("bs")
  /\ line' = Erased(line)
  /\ UNCHANGED <<sink, disturbed>>

(* Enter: the command prints, and kprintf the prompt. *)
TtyEnter(out) ==
  /\ hook = "tty" /\ Begins(out \o <<"lock", ">", "unlock">>)
  /\ tty' = TtyAfter("nl")
  /\ line' = <<>>
  /\ disturbed' = (main.pc # "halt")
  /\ UNCHANGED sink

Handles(work) ==
  /\ handler # <<>> /\ Head(handler) = work /\ handler' = Tail(handler)
  /\ UNCHANGED <<main, hook, line, disturbed>>

HandlerPuts(c) == Handles(c) /\ tty' = Shown(c) /\ UNCHANGED <<sink, lock, lost>>

(* kprintf of a handler: with the lock held by the code it interrupted it  *)
(* waits, and nothing ever runs again.                                     *)
HandlerLocks == Handles("lock") /\ ~lock /\ lock' = TRUE /\ UNCHANGED <<sink, tty, lost>>

(* Mutant: kprintf returns without giving its lock back. *)
HandlerUnlocksNot == Handles("unlock") /\ UNCHANGED <<sink, lock, tty, lost>>

HandlerUnlocks == Handles("unlock") /\ lock' = FALSE /\ UNCHANGED <<sink, tty, lost>>

(* terminal_app_key takes the sink away, whoever's it was. *)
HandlerUnsinks ==
  /\ Handles("unsink")
  /\ sink' = "none"
  /\ lost' = (lost \/ main.pc = "hook")
  /\ UNCHANGED <<lock, tty>>

Outputs == {<<>>, <<"a">>, <<"a", "nl">>}

Handler ==
  \/ \E out \in Outputs : WindowEnter(out) \/ TtyEnter(out)
  \/ Output(<<"a">>) \/ Output(<<"lock", "a", "nl", "unlock">>)
  \/ TtyKey \/ TtyBackspace
  \/ \E c \in {"a", "nl", ">"} : HandlerPuts(c)
  \/ HandlerLocks \/ HandlerUnlocks \/ HandlerUnsinks

TextNext == Main \/ Handler
------------------------------------------------------------------------------
EndsWith(text, s) ==
  Len(s) <= Len(text) /\ SubSeq(text, Len(text) - Len(s) + 1, Len(text)) = s

(* In text mode the sink is the text mode's, and what stands behind the    *)
(* prompt on the screen is the line that Enter will run: unless a window's *)
(* command ended between the two hooks, something else was printed since   *)
(* the prompt, the line wrapped, or it was too long.                       *)
TtyShowsLine ==
  main.pc = "halt" /\ handler = <<>> /\ ~lost /\ ~disturbed /\ ~tty.wrapped =>
    /\ sink = "tty"
    /\ EndsWith(tty.text, <<">">> \o line)

(* The lock is the running code's, or that of the code it interrupted: a   *)
(* handler that waits for it does so because it came while main's kprintf  *)
(* printed, and never because one before it kept it.                       *)
SpinsOnlyInPrompt == lock /\ handler # <<>> /\ Head(handler) = "lock" => main.pc = "prompt"

(* What is typed in text mode is shown and runs. *)
TextModeWorks == TtyShowsLine /\ SpinsOnlyInPrompt
=============================================================================
