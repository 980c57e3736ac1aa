-------------------------------- MODULE Apps --------------------------------
(***************************************************************************)
(* Files and what is built on them and on the console: the tree of files   *)
(* and its browser (EXTENDed), the readers of files, the text that windows,*)
(* boot console and text mode show, and the calculator.  A behaviour is    *)
(* one part's; the others stay as they are after boot.                     *)
(*   files    commands on the tree and the browser's walk                  *)
(*   read     the image viewer and the commands that come in between       *)
(*   volume   paths and files of every image                               *)
(*   screen   the screen of a terminal window                              *)
(*   console  terminal_putc, up to the first race of two                   *)
(*   text     text mode                                                    *)
(*   keys     the calculator                                               *)
(***************************************************************************)
EXTENDS Reading

CONSTANTS
  Parts,         \* the parts whose behaviours are looked at
  ReadNodes,     \* bound: part "read" creates no node once there are this many
  UsualImage,
  Rows, Cols, EscapeRoom, Drawn, Letters, MaxPrinted,
  VgaRows, VgaCols, VesaRows, VesaCols, RingSize,
  TtyCols, LineRoom,
  Colours, Digits, Width, Word, MaxKeys

VARIABLES
  part,
  screen, row, col, escape, colour, printed,
  coSink, coVesa, coCursor, coRing, coPut, coKept, coRaced,
  ttSink, ttLock, ttMain, ttHandler, ttHook, ttRow, ttLine, ttLost, ttDisturbed,
  calc, display, new_input, pressed, meant

Term == INSTANCE TerminalScreen
C == INSTANCE Console WITH
       sink <- coSink, vesa <- coVesa, cursor <- coCursor, ring <- coRing,
       put <- coPut, kept <- coKept, raced <- coRaced
Y == INSTANCE TextMode WITH
       sink <- ttSink, lock <- ttLock, main <- ttMain, handler <- ttHandler, hook <- ttHook,
       tty <- ttRow, line <- ttLine, lost <- ttLost, disturbed <- ttDisturbed
K == INSTANCE Calculator

(* What is assumed of the constants. *)
AppsConstants ==
  /\ {VgaRows, VgaCols, VesaRows, VesaCols} \subseteq Nat \ {0}
  /\ RingSize \in Nat \ {0, 1} /\ LineRoom \in Nat
  /\ {Rows, Cols} \subseteq Nat \ {0} /\ EscapeRoom \in Nat
  /\ Letters \subseteq Drawn /\ Drawn \cap {"esc", "nl"} = {}
  /\ \A body \in DOMAIN Colours :
       /\ body \in Seq(Drawn) \ {<<>>} /\ Len(body) <= EscapeRoom
       /\ Last(body) \in Letters /\ Colours[body] # "same"
  /\ Digits \subseteq 0 .. 9 /\ Width \in Nat \ {0} /\ Word \in Nat
  /\ K!Ten[Width] < Word \div 2

ASSUME AppsAssumption == AppsConstants

screenVars == <<screen, row, col, escape, colour, printed>>
consoleVars == <<coSink, coVesa, coCursor, coRing, coPut, coKept, coRaced>>
textVars == <<ttSink, ttLock, ttMain, ttHandler, ttHook, ttRow, ttLine, ttLost, ttDisturbed>>
calcVars == <<calc, display, new_input, pressed, meant>>
AllVars == <<part, vars, readVars, screenVars, consoleVars, textVars, calcVars>>

AppsInit ==
  /\ part \in Parts
  /\ ReadingInit /\ Term!ScreenInit /\ C!ConsoleInit /\ Y!TextInit /\ K!CalcInit
  /\ part # "console" => coCursor = [row |-> 0, col |-> 0] /\ ~coVesa
  /\ part # "volume" => image = UsualImage

FileSteps(action) ==
  /\ action
  /\ UNCHANGED <<part, screenVars, consoleVars, textVars, calcVars>>
ScreenSteps(action) ==
  /\ action
  /\ UNCHANGED <<part, vars, readVars, textVars, calcVars>>

AppsNext ==
  \/ part = "files" /\ FileSteps(Next) /\ UNCHANGED readVars
  \/ part = "read" /\ FileSteps(Reads) /\ UNCHANGED listed /\ Len(nodes') <= ReadNodes
  \/ part = "volume" /\ FileSteps(ListRoot \/ \E path \in Read : ReadCommand(path))
  \/ part = "screen" /\ ScreenSteps(Term!ScreenNext) /\ UNCHANGED consoleVars
  \/ part = "console" /\ ~coRaced /\ ScreenSteps(C!ConsoleNext) /\ UNCHANGED screenVars
  \/ /\ part = "text" /\ Y!TextNext
     /\ UNCHANGED <<part, vars, readVars, screenVars, consoleVars, calcVars>>
  \/ /\ part = "keys" /\ K!CalcNext
     /\ UNCHANGED <<part, vars, readVars, screenVars, consoleVars, textVars>>

AppsSpec == AppsInit /\ [][AppsNext]_AllVars
------------------------------------------------------------------------------
(* What the modules state, of their part. *)

(* The tree stays one, fs_find finds what a path stands for, the browser's *)
(* walk finds what was there, and its path fits its field.                 *)
TreeStaysSound == part \in {"files", "read"} => TreeSound
PathsRight == part = "files" => FindIsNormal
WalkRight == part = "files" => FoundAtStartOrEnd
BrowserFits == part = "files" => PathFits

(* What the volume holds is what is read of it, and the viewer sees one    *)
(* file.                                                                   *)
ReadsVolume == part = "volume" => ReadsExt2
ViewerOwn == part = "read" => ViewerUnlessRaced

(* Text: on the boot console, in a terminal window and in text mode. *)
ConsoleUnlessRaced == part = "console" => C!ConsoleUnlessRaced
ScreenIsTail == part = "screen" => Term!ScreenIsTail
TextModeWorks == part = "text" => Y!TextModeWorks

(* The calculator's display is the value of what was typed. *)
CalculatorRight == part = "keys" => K!CalculatorRight
=============================================================================
