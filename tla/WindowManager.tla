---------------------------- MODULE WindowManager ----------------------------
(***************************************************************************)
(* The list of windows of src/gui/window_manager.c: front window first,    *)
(* linked by next.                                                         *)
(*                                                                         *)
(* The GUI loop, the kernel's main thread, creates, focuses, drags and     *)
(* closes windows with interrupts on; its steps are cut where it reads or  *)
(* writes the list.  A process opens a window by a system call, which runs *)
(* with interrupts off: one step, at any moment at which the main thread   *)
(* can be interrupted.  No lock excludes it, and `windows` is an ordinary  *)
(* variable: what the main thread has read it or written into it, it may   *)
(* use again without reading it anew (the build is optimised, -O2).        *)
(*                                                                         *)
(* Geometry is left out: a click hits any window that is not minimised, on *)
(* any of its parts.  A window is its address, which the heap may give out *)
(* again once it was freed; the surface is allocated and freed with it.    *)
(***************************************************************************)
CONSTANTS
  Wins,   \* addresses a window_t can have
  NULL

ASSUME WindowManagerAssumption == NULL \notin Wins

VARIABLES
  windows,          \* the first window of the list
  next,             \* each window's next field
  live,             \* the windows kmalloc_z returned and kfree did not get
  magic,            \* those whose magic is WM_MAGIC
  minimised,        \* those with bit 0 of flags set
  dragging_window,
  main,             \* where the main thread is in its call, and its locals
  closed,           \* history: windows wm_remove_window was called for
  late,             \* history: opened since the main thread last knew `windows`
  lost              \* history: opened so and cut off by what it wrote

vars == <<windows, next, live, magic, minimised, dragging_window, main,
          closed, late, lost>>

Parts == {"close", "minimise", "title", "client", "taskbar"}
Pcs == {"idle", "create_link", "splice", "front_next", "front_link", "act",
        "remove", "remove_head", "invalidate", "free"}

(* head is the value of `windows` that the main thread has in a register. *)
Idle == [pc |-> "idle", win |-> NULL, part |-> "client", head |-> NULL]

At(pc) == main.pc = pc
Goto(pc) == main' = [main EXCEPT !.pc = pc]

Init ==
  /\ windows = NULL
  /\ next = [w \in Wins |-> NULL]
  /\ live = {}
  /\ magic = {}
  /\ minimised = {}
  /\ dragging_window = NULL
  /\ main = Idle
  /\ closed = {}
  /\ late = {}
  /\ lost = {}

(* The windows on the list from w on: the least set with w, if there is    *)
(* one, and with the next of each of its windows.                          *)
From(w) ==
  {v \in Wins : \A S \in SUBSET Wins :
     {w} \ {NULL} \subseteq S /\ (\A u \in S : next[u] \in S \cup {NULL}) => v \in S}

Listed == From(windows)

(* The window whose next is w, as the walks of focus and remove find it. *)
Before(v, w) == v \in Listed /\ next[v] = w
------------------------------------------------------------------------------
(* kmalloc_z of a window, and its fields up to next. *)
NewWindow(w) ==
  /\ w \notin live
  /\ live' = live \cup {w}
  /\ magic' = magic \cup {w}
  /\ minimised' = minimised \ {w}
  /\ next' = [next EXCEPT ![w] = windows]
  /\ closed' = closed \ {w}
  /\ UNCHANGED dragging_window

(* wm_create_window, called by an icon or a menu entry. *)
Create(w) ==
  /\ At("idle") /\ dragging_window = NULL
  /\ NewWindow(w)
  /\ main' = [Idle EXCEPT !.pc = "create_link", !.win = w]
  /\ late' = {}
  /\ UNCHANGED <<windows, lost>>

CreateLink ==
  /\ At("create_link")
  /\ windows' = main.win
  /\ lost' = lost \cup late
  /\ late' = {}
  /\ main' = Idle
  /\ UNCHANGED <<next, live, magic, minimised, dragging_window, closed>>

(* SYS_GUI_WINDOW_OPEN. *)
Open(w) ==
  /\ NewWindow(w)
  /\ windows' = w
  /\ late' = IF At("idle") THEN {} ELSE late \cup {w}
  /\ UNCHANGED <<main, lost>>

(* wm_focus_window is called for w. *)
Focus(w, part) ==
  main' = [pc |-> IF windows = w THEN "act" ELSE "splice", win |-> w, part |-> part,
           head |-> windows]

(* Mutant: a click is taken while a window is dragged. *)
ClickWhileDragging(w, part) ==
  /\ At("idle")
  /\ w \in Listed \ minimised
  /\ Focus(w, part)
  /\ UNCHANGED <<windows, next, live, magic, minimised, dragging_window,
                 closed, late, lost>>

(* wm_update finds the window under the mouse; wm_focus_window begins. *)
Click(w, part) ==
  /\ At("idle") /\ dragging_window = NULL
  /\ w \in Listed \ minimised
  /\ Focus(w, part)
  /\ UNCHANGED <<windows, next, live, magic, minimised, dragging_window,
                 closed, late, lost>>

(* A click on the taskbar's button of w: the front window is minimised,    *)
(* any other one restored and focused.                                     *)
Taskbar(w) ==
  /\ At("idle") /\ dragging_window = NULL
  /\ w \in Listed
  /\ IF w \notin minimised /\ windows = w
     THEN minimised' = minimised \cup {w} /\ main' = main
     ELSE /\ minimised' = minimised \ {w}
          /\ Focus(w, "taskbar")
  /\ UNCHANGED <<windows, next, live, magic, dragging_window, closed, late, lost>>

(* wm_focus_window: curr->next = win->next *)
Splice ==
  /\ At("splice")
  /\ \E curr \in Listed :
       /\ Before(curr, main.win)
       /\ next' = [next EXCEPT ![curr] = next[main.win]]
  /\ Goto("front_next")
  /\ UNCHANGED <<windows, live, magic, minimised, dragging_window, closed, late, lost>>

(* Mutant: focusing takes the old front window off the list. *)
FrontNextSkips ==
  /\ At("front_next")
  /\ next' = [next EXCEPT ![main.win] = next[windows]]
  /\ late' = {}
  /\ Goto("front_link")
  /\ UNCHANGED <<windows, live, magic, minimised, dragging_window, closed, lost>>

(* win->next = windows, read again or not. *)
FrontNext ==
  /\ At("front_next")
  /\ \/ /\ next' = [next EXCEPT ![main.win] = windows]
        /\ late' = {}
     \/ /\ next' = [next EXCEPT ![main.win] = main.head]
        /\ late' = late
  /\ Goto("front_link")
  /\ UNCHANGED <<windows, live, magic, minimised, dragging_window, closed, lost>>

(* windows = win *)
FrontLink ==
  /\ At("front_link")
  /\ windows' = main.win
  /\ lost' = lost \cup late
  /\ late' = {}
  /\ Goto("act")
  /\ UNCHANGED <<next, live, magic, minimised, dragging_window, closed>>

(* What the click does once its window is focused. *)
Act ==
  /\ At("act")
  /\ dragging_window' = IF main.part = "title" THEN main.win ELSE dragging_window
  /\ minimised' = IF main.part = "minimise" THEN minimised \cup {main.win} ELSE minimised
  /\ closed' = IF main.part = "close" THEN closed \cup {main.win} ELSE closed
  /\ main' = IF main.part = "close" THEN [main EXCEPT !.pc = "remove"] ELSE Idle
  /\ late' = IF main.part = "close" THEN late ELSE {}
  /\ UNCHANGED <<windows, next, live, magic, lost>>

(* wm_remove_window: is win the front one?  It was, at the end of          *)
(* wm_focus_window, and need not be read again.  If it is and is found not *)
(* to be the front one any more, it is unlinked.                           *)
Remove ==
  /\ At("remove")
  /\ \/ /\ Goto("remove_head")
        /\ UNCHANGED next
     \/ /\ windows # main.win
        /\ \E curr \in Listed :
             /\ Before(curr, main.win)
             /\ next' = [next EXCEPT ![curr] = next[main.win]]
        /\ Goto("invalidate")
  /\ UNCHANGED <<windows, live, magic, minimised, dragging_window, closed, late, lost>>

(* windows = win->next, and the function returns. *)
RemoveHead ==
  /\ At("remove_head")
  /\ windows' = next[main.win]
  /\ lost' = lost \cup late
  /\ late' = {}
  /\ main' = Idle
  /\ UNCHANGED <<next, live, magic, minimised, dragging_window, closed>>

Invalidate ==
  /\ At("invalidate")
  /\ magic' = magic \ {main.win}
  /\ Goto("free")
  /\ UNCHANGED <<windows, next, live, minimised, dragging_window, closed, late, lost>>

Free ==
  /\ At("free")
  /\ live' = live \ {main.win}
  /\ main' = Idle
  /\ late' = {}
  /\ UNCHANGED <<windows, next, magic, minimised, dragging_window, closed, lost>>

(* The button is released: wm_update forgets the dragged window. *)
Drop ==
  /\ At("idle") /\ dragging_window # NULL
  /\ dragging_window' = NULL
  /\ UNCHANGED <<windows, next, live, magic, minimised, main, closed, late, lost>>

Main ==
  \/ \E w \in Wins : Create(w)
  \/ \E w \in Wins, part \in Parts \ {"taskbar"} : Click(w, part)
  \/ \E w \in Wins : Taskbar(w)
  \/ CreateLink
  \/ Splice \/ FrontNext \/ FrontLink \/ Act
  \/ Remove \/ RemoveHead \/ Invalidate \/ Free
  \/ Drop

Next == Main \/ \E w \in Wins : Open(w)

Spec == Init /\ [][Next]_vars
------------------------------------------------------------------------------
(* Every variable has its type. *)
TypeOK ==
  /\ windows \in Wins \cup {NULL}
  /\ next \in [Wins -> Wins \cup {NULL}]
  /\ \A s \in {live, magic, minimised, closed, late, lost} : s \subseteq Wins
  /\ dragging_window \in Wins \cup {NULL}
  /\ main \in [pc : Pcs, win : Wins \cup {NULL}, part : Parts, head : Wins \cup {NULL}]
  /\ main.win = NULL <=> main.pc = "idle"

(* The window the main thread has in its hands and not on the list. *)
InHand ==
  IF main.pc \in {"create_link", "front_next", "front_link"} THEN {main.win} ELSE {}

Closing == IF main.pc \in {"remove", "remove_head"} THEN {main.win} ELSE {}

(* Whatever a process opens between which two steps, the list has an end,  *)
(* and every window on it is one that was neither freed nor closed.        *)
ListSound ==
  /\ windows # NULL => \E w \in Listed : next[w] = NULL
  /\ Listed \subseteq live \cap magic
  /\ Listed \cap closed \subseteq Closing

(* A window that was opened and not closed is on the list, or about to be  *)
(* put there; but for those that a process opened while the main thread    *)
(* was at work on the list and that its next write cut off.                *)
NothingElseLost == live \ closed \subseteq Listed \cup InHand \cup lost

(* A window is dragged only while it is on the list: the drag begins and   *)
(* ends in other calls of wm_update than the ones that close windows.      *)
DragListed == dragging_window # NULL => dragging_window \in Listed \ closed

(* A handle that the system calls accept by its magic is a window that was *)
(* not freed.                                                              *)
HandleLive == magic \subseteq live

(* No pointer to a window outlives it: not on the list, not in             *)
(* dragging_window, and not a handle.                                      *)
PointersLive == TypeOK /\ ListSound /\ DragListed /\ HandleLive

(* wm_remove_window says "Invalidate handle for any ongoing syscalls": a   *)
(* window that was closed has lost its magic by the time it is done.       *)
CloseInvalidates == At("idle") => closed \cap magic = {}
=============================================================================
