----------------------------- MODULE Interrupts -----------------------------
(***************************************************************************)
(* Where interrupts go: the boot order of src/core/kernel.c, the local and *)
(* IO APIC of apic.c, the legacy PIC that isr.c programs, and the common   *)
(* part of every interrupt handler.                                        *)
(*                                                                         *)
(* A device's line reaches the processor on two ways.  The PIC latches the *)
(* edge of a line that it does not mask and, in the mode pic_remap asks    *)
(* for (fully nested, no automatic end of interrupt), offers no line while *)
(* one of the same or a higher priority is in service.  An IO APIC pin     *)
(* that is not masked passes the line's vector on to the local APIC, which *)
(* offers it while no vector of the same class (32 .. 47 are one class) is *)
(* in service.  Both use the vectors from 32.  The PIC's, the APICs' and   *)
(* the devices' behaviour is that of the hardware and marked external.     *)
(***************************************************************************)
EXTENDS Naturals

CONSTANTS
  NicLine   \* the line the PCI configuration space names for the network
            \* card: one of 3 .. 15 that is not the mouse's

TimerLine == 0
KeyboardLine == 1
MouseLine == 12
Lines == {TimerLine, KeyboardLine, MouseLine, NicLine}
NoLine == 16

VARIABLES
  boot,      \* the call of kernel_main that comes next
  handlers,  \* the lines irq_handlers has an entry for
  imr,       \* PIC: the masked lines
  irr,       \* PIC: the lines whose edge is latched
  isr,       \* PIC: the lines in service
  routed,    \* IO APIC: the lines whose pin is not masked
  lirr,      \* local APIC: the lines requested
  lisr,      \* local APIC: the lines in service
  cpu,       \* the line being handled, through what, and how far
  taken      \* history: the lines that ever came through the PIC, and twice

vars == <<boot, handlers, imr, irr, isr, routed, lirr, lisr, cpu, taken>>

BootSteps ==
  {"lapic_init", "ioapic_init", "irq_install", "keyboard_init", "mouse_init",
   "timer_init", "rtl8139_init", "sti", "running"}

Idle == [line |-> NoLine, via |-> "none", step |-> "none"]

InterruptsOn == cpu = Idle

(* The master PIC's input: the slave's lines share input 2. *)
Input(l) == IF l >= 8 THEN 2 ELSE l
------------------------------------------------------------------------------
(* The firmware hands over with interrupts off, nothing routed, the PIC as *)
(* it was; edges may have been latched.                                    *)
Init ==
  /\ boot = "lapic_init"
  /\ handlers = {}
  /\ imr \in {{}, Lines}
  /\ irr = {}
  /\ isr = {}
  /\ routed = {}
  /\ lirr = {}
  /\ lisr = {}
  /\ cpu = [Idle EXCEPT !.step = "boot"]
  /\ taken = [once |-> {}, twice |-> {}]

hardware == <<irr, isr, lirr, lisr, taken>>

LapicInit ==
  /\ boot = "lapic_init"
  /\ boot' = "ioapic_init"
  /\ imr' = Lines
  /\ UNCHANGED <<handlers, routed, cpu, hardware>>

IoapicInit ==
  /\ boot = "ioapic_init"
  /\ boot' = "irq_install"
  /\ routed' = {}
  /\ UNCHANGED <<handlers, imr, cpu, hardware>>

(* pic_remap's first control word forgets what was latched and in service, *)
(* its last writes unmask every line.                                      *)
IrqInstall ==
  /\ boot = "irq_install"
  /\ boot' = "keyboard_init"
  /\ imr' = {}
  /\ irr' = {}
  /\ isr' = {}
  /\ UNCHANGED <<handlers, routed, lirr, lisr, cpu, taken>>

KeyboardInit ==
  /\ boot = "keyboard_init"
  /\ boot' = "mouse_init"
  /\ handlers' = handlers \cup {KeyboardLine}
  /\ routed' = routed \cup {KeyboardLine}
  /\ UNCHANGED <<imr, cpu, hardware>>

MouseInit ==
  /\ boot = "mouse_init"
  /\ boot' = "timer_init"
  /\ handlers' = handlers \cup {MouseLine}
  /\ routed' = routed \cup {MouseLine}
  /\ UNCHANGED <<imr, cpu, hardware>>

TimerInit ==
  /\ boot = "timer_init"
  /\ boot' = "rtl8139_init"
  /\ handlers' = handlers \cup {TimerLine}
  /\ UNCHANGED <<imr, routed, cpu, hardware>>

(* The network card registers a handler and routes nothing; without a card *)
(* there is no handler.                                                    *)
Rtl8139Init ==
  /\ boot = "rtl8139_init"
  /\ boot' = "sti"
  /\ handlers' \in {handlers, handlers \cup {NicLine}}
  /\ UNCHANGED <<imr, routed, cpu, hardware>>

Sti ==
  /\ boot = "sti"
  /\ boot' = "running"
  /\ cpu' = Idle
  /\ UNCHANGED <<handlers, imr, routed, hardware>>
------------------------------------------------------------------------------
(* A device raises its line; the timer chip runs from power-on. *)
Raise(l) ==
  /\ irr' = irr \cup {l}
  /\ lirr' = IF l \in routed THEN lirr \cup {l} ELSE lirr
  /\ UNCHANGED <<boot, handlers, imr, isr, routed, lisr, cpu, taken>>

PicOffers(l) ==
  /\ l \in irr \ imr
  /\ \A m \in isr : Input(l) < Input(m)

(* The processor takes the line of the highest priority the PIC offers. *)
TakeFromPic(l) ==
  /\ InterruptsOn
  /\ PicOffers(l)
  /\ \A m \in Lines : PicOffers(m) => Input(l) <= Input(m)
  /\ irr' = irr \ {l}
  /\ isr' = isr \cup {l}
  /\ cpu' = [line |-> l, via |-> "pic", step |-> "handler"]
  /\ taken' = [once |-> taken.once \cup {l},
               twice |-> taken.twice \cup (taken.once \cap {l})]
  /\ UNCHANGED <<boot, handlers, imr, routed, lirr, lisr>>

LapicOffers(l) == l \in lirr /\ lisr = {} /\ \A m \in lirr : m <= l

(* The processor takes the highest vector the local APIC offers. *)
TakeFromLapic(l) ==
  /\ InterruptsOn
  /\ LapicOffers(l)
  /\ lirr' = lirr \ {l}
  /\ lisr' = lisr \cup {l}
  /\ cpu' = [line |-> l, via |-> "lapic", step |-> "handler"]
  /\ UNCHANGED <<boot, handlers, imr, irr, isr, routed, taken>>

(* Mutant: the end of interrupt is the handler's last statement, which its *)
(* early returns skip.                                                     *)
HandleSkipsEoi ==
  /\ cpu.step = "handler"
  /\ \E next \in {"eoi", "iret"} : cpu' = [cpu EXCEPT !.step = next]
  /\ UNCHANGED <<boot, handlers, imr, routed, hardware>>

(* irq_handler calls the line's handler if there is one. *)
Handle ==
  /\ cpu.step = "handler"
  /\ cpu' = [cpu EXCEPT !.step = "eoi"]
  /\ UNCHANGED <<boot, handlers, imr, routed, hardware>>

(* The keyboard's handler and the network card's need not come back: the   *)
(* commands gui and shutdown end in a hlt with interrupts off, and kprintf *)
(* spins for a lock that the interrupted thread holds.                     *)
MayStay == {KeyboardLine, NicLine} \cap handlers

HandlerStays ==
  /\ cpu.step = "handler" /\ cpu.line \in MayStay
  /\ cpu' = [cpu EXCEPT !.step = "stays"]
  /\ UNCHANGED <<boot, handlers, imr, routed, hardware>>

(* Mutant: the PIC is told as well. *)
EoiBoth ==
  /\ cpu.step = "eoi"
  /\ lisr' = lisr \ {l \in lisr : \A m \in lisr : m <= l}
  /\ isr' = isr \ {cpu.line}
  /\ cpu' = [cpu EXCEPT !.step = "iret"]
  /\ UNCHANGED <<boot, handlers, imr, irr, routed, lirr, taken>>

(* Mutant: the PIC is told instead. *)
EoiPicOnly ==
  /\ cpu.step = "eoi"
  /\ isr' = isr \ {cpu.line}
  /\ cpu' = [cpu EXCEPT !.step = "iret"]
  /\ UNCHANGED <<boot, handlers, imr, irr, routed, lirr, lisr, taken>>

(* lapic_eoi ends the highest vector in service in the local APIC, if any; *)
(* nothing is written to the PIC.                                          *)
Eoi ==
  /\ cpu.step = "eoi"
  /\ lisr' = lisr \ {l \in lisr : \A m \in lisr : m <= l}
  /\ cpu' = [cpu EXCEPT !.step = "iret"]
  /\ UNCHANGED <<boot, handlers, imr, irr, isr, routed, lirr, taken>>

(* The stub returns, to whatever context: its flags have interrupts on. *)
Iret ==
  /\ cpu.step = "iret"
  /\ cpu' = Idle
  /\ UNCHANGED <<boot, handlers, imr, routed, hardware>>

Boot ==
  \/ LapicInit
  \/ IoapicInit
  \/ IrqInstall
  \/ KeyboardInit
  \/ MouseInit
  \/ TimerInit
  \/ Rtl8139Init
  \/ Sti

Next ==
  \/ Boot
  \/ \E l \in Lines : Raise(l) \/ TakeFromPic(l) \/ TakeFromLapic(l)
  \/ Handle
  \/ HandlerStays
  \/ Eoi
  \/ Iret

(* The code runs on, be it to a handler's end or to where it stays; the    *)
(* timer chip keeps raising its line and the processor takes, of the input *)
(* devices' and the timer's lines, what is offered again and again.        *)
Fairness ==
  /\ WF_vars(Boot) /\ WF_vars(Handle) /\ WF_vars(Eoi) /\ WF_vars(Iret)
  /\ WF_vars(Raise(TimerLine))
  /\ SF_vars(TakeFromPic(TimerLine))
  /\ SF_vars(TakeFromLapic(KeyboardLine))
  /\ SF_vars(TakeFromLapic(MouseLine))

Spec == Init /\ [][Next]_vars

FairSpec == Spec /\ Fairness
------------------------------------------------------------------------------
(* Every variable has its type. *)
TypeOK ==
  /\ boot \in BootSteps
  /\ \A s \in {handlers, imr, irr, isr, routed, lirr, lisr, taken.once, taken.twice} :
       s \subseteq Lines
  /\ cpu \in [line : Lines \cup {NoLine}, via : {"none", "pic", "lapic"},
              step : {"none", "boot", "handler", "stays", "eoi", "iret"}]
  /\ cpu.step = "boot" <=> boot # "running"

(* The local APIC has a line in service exactly from the moment it is      *)
(* taken through it to lapic_eoi, also when the PIC's interrupts come in   *)
(* between and lapic_eoi is called for them: no EOI is one too many, and   *)
(* none is forgotten but by a handler that stays.                          *)
LapicBalanced ==
  lisr = IF cpu.via = "lapic" /\ cpu.step \in {"handler", "stays", "eoi"}
         THEN {cpu.line} ELSE {}

(* What came through the PIC stays in service there, so no line comes      *)
(* through it twice, nor one of the same or a lower priority ever again;   *)
(* the network card's interrupts, which no pin routes, with them.          *)
PicOnceEach ==
  /\ taken.once = isr
  /\ taken.twice = {}
  /\ TimerLine \in isr => ~\E l \in Lines : PicOffers(l)

(* The mouse and the keyboard are served whatever becomes of the PIC, until*)
(* a handler stays; the keyboard as long as the mouse, whose vector is     *)
(* higher, pauses now and then while interrupts are on (which they are     *)
(* only if no handler has stayed).                                         *)
InputServed ==
  /\ MouseLine \in lirr ~> cpu.line = MouseLine \/ cpu.step = "stays"
  /\ []<>(InterruptsOn /\ MouseLine \notin lirr) =>
       (KeyboardLine \in lirr ~> cpu.line = KeyboardLine)

(* kernel.c says of the timer "20Hz scheduler - ultra stable": its         *)
(* interrupts are handled again and again, unless a handler stays.         *)
TicksKeepComing == []<>(cpu.line = TimerLine \/ cpu.step = "stays")
=============================================================================
