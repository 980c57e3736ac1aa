----------------------------- MODULE Processor -----------------------------
(***************************************************************************)
(* What the processor runs: processes (EXTENDed) and interrupts.  The      *)
(* modules meet in the timer's handler only, and each leaves the other's   *)
(* state alone: a behaviour is one part's.                                 *)
(***************************************************************************)
EXTENDS Scheduler

CONSTANTS
  Parts,      \* the parts whose behaviours are looked at
  NicLine

VARIABLES part, boot, handlers, imr, irr, isr, routed, lirr, lisr, handled, taken

I == INSTANCE Interrupts WITH cpu <- handled

interruptVars == <<boot, handlers, imr, irr, isr, routed, lirr, lisr, handled, taken>>
AllVars == <<part, vars, interruptVars>>

InterruptStep(action) == part = "interrupts" /\ action /\ UNCHANGED <<part, vars>>

ProcessorInit ==
  /\ part \in Parts /\ Init /\ I!Init
  /\ part # "interrupts" => imr = {}
ProcessorNext ==
  \/ part = "processes" /\ Next /\ UNCHANGED <<part, interruptVars>>
  \/ InterruptStep(I!Next)

(* The fairness of Interrupts, for its part. *)
ProcessorSpec ==
  /\ ProcessorInit /\ [][ProcessorNext]_AllVars
  /\ WF_AllVars(InterruptStep(I!Boot))
  /\ WF_AllVars(InterruptStep(I!Handle))
  /\ WF_AllVars(InterruptStep(I!Eoi))
  /\ WF_AllVars(InterruptStep(I!Iret))
  /\ WF_AllVars(InterruptStep(I!Raise(I!TimerLine)))
  /\ SF_AllVars(InterruptStep(I!TakeFromPic(I!TimerLine)))
  /\ SF_AllVars(InterruptStep(I!TakeFromLapic(I!KeyboardLine)))
  /\ SF_AllVars(InterruptStep(I!TakeFromLapic(I!MouseLine)))
------------------------------------------------------------------------------
(* The ends of interrupts balance at the local APIC, and never come to the *)
(* PIC.                                                                    *)
LapicBalanced == I!LapicBalanced
PicOnceEach == I!PicOnceEach

(* Mouse and keyboard are served until a handler stays. *)
InputServed == I!InputServed
=============================================================================
