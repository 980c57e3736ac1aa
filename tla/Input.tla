------------------------------- MODULE Input -------------------------------
(***************************************************************************)
(* What becomes of a key: keyboard_irq_handler in src/drivers/keyboard.c,  *)
(* wm_handle_key in src/gui/window_manager.c, terminal windows in          *)
(* src/apps/terminal_app.c, commands in src/shell/command.c, and the event *)
(* ring of a process's window (EventQueue).                                *)
(*                                                                         *)
(* The handler gives a key to the window in front and then, whatever that  *)
(* window did with it, to a line buffer of its own; Enter runs both lines  *)
(* as commands, inside the handler, with interrupts off.  The command gui  *)
(* starts another GUI loop there, whose hlt is never woken: the machine    *)
(* stands still.                                                           *)
(*                                                                         *)
(* The GUI loop focuses, minimises and creates windows; processes open and *)
(* poll theirs.  Closing is left to WindowManager.  The window list is     *)
(* abstracted to the window that takes keys.  Scan codes, layouts, shift   *)
(* and lock keys are abstracted to the character they make; what makes     *)
(* none ends the handler without an effect here.  Two commands are told    *)
(* from the others: gui, and files, which opens a window in the handler.   *)
(***************************************************************************)
EXTENDS EventQueue, SequencesExt

CONSTANTS
  Terminals,      \* terminal windows there can be
  User, Browser,  \* a process's window; the window that files opens
  Nobody,         \* no window is open or the first one is minimised
  MaxLine,        \* MAX_CMD - 1, what a terminal's line holds
  MaxInput,       \* KEYBOARD_BUFFER_SIZE - 1
  MaxKeys,        \* bound: keys that are pressed
  MaxClicks       \* bound: clicks into the process's window

ASSUME InputAssumption ==
  /\ {User, Browser, Nobody} \cap Terminals = {}
  /\ {MaxLine, MaxInput, MaxKeys, MaxClicks} \subseteq Nat
  /\ MaxLine <= MaxInput

VARIABLES
  opened,      \* the windows on the list
  front,       \* the window that takes keys
  ready,       \* the terminals whose on_key is set
  creating,    \* the terminal that the GUI loop is creating
  cmd_line,    \* each terminal's line
  input_buffer,
  halted,      \* a handler waits in hlt with interrupts off
  ran,         \* the calls of command_execute in the last key's handler:
               \* for whom, and the line
  only,        \* history: the terminal that got every key of both lines
  keys, clicks

windowVars == <<opened, front, ready, creating>>
lineVars == <<cmd_line, input_buffer, halted, ran, only, keys>>
vars == <<windowVars, lineVars, clicks, queueVars>>

(* Letters are printable.  tab separates words; like the Turkish letters   *)
(* it is not printable to a terminal window, only to the handler.          *)
Letters == {"f", "g"}
Chars == Letters \cup {"tab", "enter", "back"}

Init ==
  /\ QueueInit
  /\ opened = {}
  /\ front = Nobody
  /\ ready = {}
  /\ creating = Nobody
  /\ cmd_line = [t \in Terminals |-> <<>>]
  /\ input_buffer = <<>>
  /\ halted = FALSE
  /\ ran = <<>>
  /\ only = Nobody
  /\ keys = 0 /\ clicks = 0

(* The first word of a line, which names the command. *)
Name(line) ==
  LET word[i \in 0 .. Len(line)] ==
        CASE i = 0 -> [text |-> <<>>, done |-> FALSE]
          [] i > 0 /\ line[i] = "tab" ->
               [word[i - 1] EXCEPT !.done = word[i - 1].text # <<>>]
          [] i > 0 /\ line[i] # "tab" /\ ~word[i - 1].done ->
               [word[i - 1] EXCEPT !.text = Append(@, line[i])]
          [] OTHER -> word[i - 1]
  IN word[Len(line)].text

(* command_execute *)
StartsGui(line) == Name(line) = <<"g">>
OpensBrowser(line) == Name(line) = <<"f">>
------------------------------------------------------------------------------
(* terminal_app_key: the line after a key. *)
TerminalLine(line, c) ==
  CASE c = "enter" -> <<>>
    [] c = "back" -> IF line = <<>> THEN line ELSE Front(line)
    [] c \in Letters /\ Len(line) < MaxLine -> Append(line, c)
    [] OTHER -> line

(* Mutant: backspace takes nothing away. *)
InputLineNoBack(line, c) ==
  CASE c = "enter" -> <<>>
    [] c \in Letters \cup {"tab"} /\ Len(line) < MaxInput -> Append(line, c)
    [] OTHER -> line

(* keyboard_irq_handler: its own line after a key. *)
InputLine(line, c) ==
  CASE c = "enter" -> <<>>
    [] c = "back" -> IF line = <<>> THEN line ELSE Front(line)
    [] c \in Letters \cup {"tab"} /\ Len(line) < MaxInput -> Append(line, c)
    [] OTHER -> line

(* The commands that a key has the window in front and then the handler    *)
(* run; what gui starts does not come back.                                *)
TerminalRuns(c) ==
  IF c = "enter" /\ front \in ready /\ cmd_line[front] # <<>>
  THEN << <<front, cmd_line[front]>> >> ELSE <<>>

HandlerRuns(c) ==
  IF c = "enter" /\ input_buffer # <<>> /\ ~\E r \in Range(TerminalRuns(c)) : StartsGui(r[2])
  THEN << <<"handler", input_buffer>> >> ELSE <<>>

(* What files opens is in front from then on. *)
Commands(runs) ==
  IF \E r \in Range(runs) : OpensBrowser(r[2])
  THEN opened' = opened \cup {Browser} /\ front' = Browser
  ELSE UNCHANGED <<opened, front>>

(* wm_handle_key: the window in front takes the key. *)
WindowKey(c) ==
  /\ IF front = User THEN IrqPush(keys + clicks + 1) ELSE UNCHANGED queueVars
  /\ IF front \in ready
     THEN cmd_line' = [cmd_line EXCEPT ![front] = TerminalLine(@, c)]
     ELSE UNCHANGED cmd_line

(* The terminal that still has got all of both lines. *)
OnlyAfter(c) ==
  IF /\ front \in ready
     /\ only = front \/ (input_buffer = <<>> /\ cmd_line[front] = <<>>)
     /\ c = "back" \/ (c \in Letters /\ Len(cmd_line[front]) < MaxLine)
  THEN front ELSE Nobody

(* keyboard_irq_handler, up to its end. *)
Press(c) ==
  /\ ~halted /\ keys < MaxKeys
  /\ ran' = TerminalRuns(c) \o HandlerRuns(c)
  /\ Commands(ran')
  /\ \A r \in Range(ran') : ~StartsGui(r[2])
  /\ WindowKey(c)
  /\ input_buffer' = InputLine(input_buffer, c)
  /\ only' = OnlyAfter(c)
  /\ keys' = keys + 1
  /\ UNCHANGED <<ready, creating, halted, clicks>>

(* keyboard_irq_handler, when it or the window runs gui: it gets no        *)
(* further.                                                                *)
PressGui ==
  /\ ~halted /\ keys < MaxKeys
  /\ ran' = TerminalRuns("enter") \o HandlerRuns("enter")
  /\ Commands(ran')
  /\ \E r \in Range(ran') : StartsGui(r[2])
  /\ halted' = TRUE
  /\ IF HandlerRuns("enter") = <<>> THEN UNCHANGED <<cmd_line, queueVars>> ELSE WindowKey("enter")
  /\ keys' = keys + 1
  /\ UNCHANGED <<ready, creating, input_buffer, only, clicks>>
------------------------------------------------------------------------------
(* SYS_GUI_WINDOW_OPEN *)
Open ==
  /\ ~halted /\ User \notin opened
  /\ opened' = opened \cup {User} /\ front' = User
  /\ UNCHANGED <<ready, creating, lineVars, clicks, queueVars>>

UserPoll == ~halted /\ Poll /\ UNCHANGED <<windowVars, lineVars, clicks>>

MainIdle == ~halted /\ creating = Nobody /\ Pushing("idle")

(* terminal_app_create: wm_create_window puts the window in front ...      *)
CreateTerminal(t) ==
  /\ MainIdle /\ t \notin opened
  /\ opened' = opened \cup {t} /\ front' = t
  /\ creating' = t
  /\ UNCHANGED <<ready, lineVars, clicks, queueVars>>

(* ... and later on_key is set. *)
TerminalReady ==
  /\ ~halted /\ creating # Nobody
  /\ ready' = ready \cup {creating}
  /\ creating' = Nobody
  /\ UNCHANGED <<opened, front, lineVars, clicks, queueVars>>

(* A click into a window, or on its button in the task bar. *)
Focus(w) ==
  /\ MainIdle /\ w \in opened
  /\ front' = w
  /\ UNCHANGED <<opened, ready, creating, lineVars, clicks, queueVars>>

(* A click into the process's window is an event as well. *)
Click ==
  /\ MainIdle /\ User \in opened /\ clicks < MaxClicks
  /\ front' = User
  /\ PushReads(keys + clicks + 1)
  /\ clicks' = clicks + 1
  /\ UNCHANGED <<opened, ready, creating, lineVars>>

Clicked == ~halted /\ Push /\ UNCHANGED <<windowVars, lineVars, clicks>>

Minimise ==
  /\ MainIdle /\ front # Nobody
  /\ front' = Nobody
  /\ UNCHANGED <<opened, ready, creating, lineVars, clicks, queueVars>>

Next ==
  \/ \E c \in Chars : Press(c)
  \/ PressGui
  \/ Open \/ UserPoll
  \/ \E t \in Terminals : CreateTerminal(t)
  \/ TerminalReady
  \/ \E w \in opened : Focus(w)
  \/ Click \/ Clicked \/ Minimise

Spec == Init /\ [][Next]_vars
------------------------------------------------------------------------------
(* Every variable has its type. *)
TypeOK ==
  /\ QueueTypeOK
  /\ opened \subseteq Terminals \cup {User, Browser}
  /\ front \in opened \cup {Nobody}
  /\ ready \subseteq opened \cap Terminals
  /\ creating \in ((opened \cap Terminals) \ ready) \cup {Nobody}
  /\ cmd_line \in [Terminals -> Seq(Letters)]
  /\ \A t \in Terminals : Len(cmd_line[t]) <= MaxLine
  /\ input_buffer \in Seq(Letters \cup {"tab"}) /\ Len(input_buffer) <= MaxInput
  /\ halted \in BOOLEAN
  /\ \A r \in Range(ran) : r[1] \in Terminals \cup {"handler"}
  /\ only \in ready \cup {Nobody}
  /\ keys \in Nat /\ clicks \in Nat

(* A command that was typed into one terminal, from empty lines on and     *)
(* within its length, is run twice, by the terminal and by the handler,    *)
(* unless the first time never ends.                                       *)
RunsTwice ==
  [][keys' # keys /\ ran' # <<>> /\ only # Nobody /\ front = only =>
       LET once == <<only, input_buffer>> IN
       ran' = IF StartsGui(input_buffer) THEN <<once>>
              ELSE <<once, <<"handler", input_buffer>>>>]_vars
=============================================================================
