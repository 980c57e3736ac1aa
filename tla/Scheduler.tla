------------------------------ MODULE Scheduler ------------------------------
(***************************************************************************)
(* The process table of src/core/process.c and the timer interrupt that    *)
(* switches between processes (irq_handler in isr.c, irq_common_stub in    *)
(* isr_stub.s).                                                            *)
(*                                                                         *)
(* A context is what the registers hold: whose it is, how far that program *)
(* is, and whether it is in the program or inside the kernel, in the exec  *)
(* command.  Every entry into the kernel executes cli and iretq restores   *)
(* the flags of the context it returns to, so interrupts are on exactly    *)
(* while the running context is in its program.  exec is reached from the  *)
(* keyboard interrupt and from the system call SYS_SHELL_EXEC, never with  *)
(* interrupts on; its two halves are separate actions all the same, and    *)
(* what keeps the timer out between them is the flag alone.                *)
(***************************************************************************)
EXTENDS Naturals

CONSTANTS
  MaxProcesses,   \* MAX_PROCESSES, 32 in process.h
  Steps           \* bound: a program's progress is counted modulo this

ASSUME SchedulerAssumption ==
  /\ MaxProcesses \in Nat \ {0}
  /\ Steps \in Nat \ {0}

Slots == 0 .. MaxProcesses - 1

VARIABLES
  state,      \* processes[s].state
  pid,        \* processes[s].pid
  rsp,        \* the frame processes[s].rsp points to
  current,    \* current_process
  next_pid,
  cpu,        \* the context the processor is executing
  waited      \* history: ticks since the process was last given the processor

vars == <<state, pid, rsp, current, next_pid, cpu, waited>>

States == {"UNUSED", "READY", "RUNNING", "STOPPED", "WAITING"}
Places == {"program", "process_create", "process_execute"}
Nobody == MaxProcesses

(* proc is the local variable of cmd_exec, Nobody outside it. *)
Context == [owner : Slots \cup {Nobody}, done : Nat, at : Places,
            proc : Slots \cup {Nobody}]

Fresh(s) == [owner |-> s, done |-> 0, at |-> "program", proc |-> Nobody]
Null == [owner |-> Nobody, done |-> 0, at |-> "program", proc |-> Nobody]
------------------------------------------------------------------------------
(* The table as process_init leaves it: slot 0 is the kernel's own thread, *)
(* which is running and has no frame yet.                                  *)
Init ==
  /\ state = [s \in Slots |-> IF s = 0 THEN "RUNNING" ELSE "UNUSED"]
  /\ pid = [s \in Slots |-> IF s = 0 THEN 1 ELSE 0]
  /\ rsp = [s \in Slots |-> Null]
  /\ current = 0
  /\ next_pid = 2
  /\ cpu = Fresh(0)
  /\ waited = [s \in Slots |-> 0]

Runnable(s) == state[s] \in {"READY", "RUNNING"}

GoTo(place, s) == [owner |-> cpu.owner, done |-> cpu.done, at |-> place, proc |-> s]

InterruptsOn == cpu.at = "program"

(* How many slots after the current one s is in the ring, 1 .. MaxProcesses. *)
After(s) == IF s > current THEN s - current ELSE s + MaxProcesses - current

(* Mutant: the search starts at the first slot every time. *)
FirstRunnable(s) == Runnable(s) /\ \A q \in Slots : Runnable(q) => s <= q

(* The slot the search loop stops at, the current one coming last. *)
NextRunnable(s) == Runnable(s) /\ \A q \in Slots : Runnable(q) => After(s) <= After(q)

Waited(n) ==
  [s \in Slots |-> IF s = n \/ ~Runnable(s) THEN 0 ELSE waited[s] + 1]

(* A program executes. *)
Work ==
  /\ InterruptsOn
  /\ cpu' = [cpu EXCEPT !.done = (@ + 1) % Steps]
  /\ UNCHANGED <<state, pid, rsp, current, next_pid, waited>>

(* Mutant: the frame is filed under the process that is switched to. *)
TimerSavesLate ==
  /\ InterruptsOn
  /\ \E n \in Slots :
       /\ NextRunnable(n)
       /\ current' = n
       /\ cpu' = IF n = current THEN cpu ELSE rsp[n]
       /\ rsp' = [rsp EXCEPT ![n] = cpu]
       /\ state' = IF n = current THEN state ELSE [state EXCEPT ![n] = "RUNNING"]
       /\ waited' = Waited(n)
  /\ UNCHANGED <<pid, next_pid>>

(* Mutant: the timer interrupts the kernel too. *)
TimerAnywhere ==
  /\ \E n \in Slots :
       /\ NextRunnable(n)
       /\ current' = n
       /\ cpu' = IF n = current THEN cpu ELSE rsp[n]
       /\ rsp' = [rsp EXCEPT ![current] = cpu]
       /\ state' = IF n = current THEN state ELSE [state EXCEPT ![n] = "RUNNING"]
       /\ waited' = Waited(n)
  /\ UNCHANGED <<pid, next_pid>>

(* IRQ 0: the stub pushes the frame, scheduler_schedule files it and picks *)
(* a process, the stub pops that one's frame.  A switched-from process     *)
(* stays RUNNING.                                                          *)
Timer ==
  /\ InterruptsOn
  /\ \E n \in Slots :
       /\ NextRunnable(n)
       /\ current' = n
       /\ cpu' = IF n = current THEN cpu ELSE rsp[n]
       /\ rsp' = [rsp EXCEPT ![current] = cpu]
       /\ state' = IF n = current THEN state ELSE [state EXCEPT ![n] = "RUNNING"]
       /\ waited' = Waited(n)
  /\ UNCHANGED <<pid, next_pid>>

(* The exec command is entered, its file being a valid program. *)
Exec ==
  /\ InterruptsOn
  /\ cpu' = GoTo("process_create", Nobody)
  /\ UNCHANGED <<state, pid, rsp, current, next_pid, waited>>

FirstUnused(s) == state[s] = "UNUSED" /\ \A q \in Slots : state[q] = "UNUSED" => s <= q

(* process_create takes the first unused slot: READY before it has a frame. *)
ProcessCreate ==
  /\ cpu.at = "process_create"
  /\ \E s \in Slots :
       /\ FirstUnused(s)
       /\ pid' = [pid EXCEPT ![s] = next_pid]
       /\ next_pid' = next_pid + 1
       /\ state' = [state EXCEPT ![s] = "READY"]
       /\ cpu' = GoTo("process_execute", s)
  /\ UNCHANGED <<rsp, current, waited>>

(* No slot is left: process_create returns NULL and exec gives up. *)
ProcessCreateFails ==
  /\ cpu.at = "process_create"
  /\ \A s \in Slots : state[s] # "UNUSED"
  /\ cpu' = GoTo("program", Nobody)
  /\ UNCHANGED <<state, pid, rsp, current, next_pid, waited>>

(* process_execute writes the frame the process starts from, and exec ends. *)
ProcessExecute ==
  /\ cpu.at = "process_execute"
  /\ state' = [state EXCEPT ![cpu.proc] = "READY"]
  /\ rsp' = [rsp EXCEPT ![cpu.proc] = Fresh(cpu.proc)]
  /\ cpu' = GoTo("program", Nobody)
  /\ UNCHANGED <<pid, current, next_pid, waited>>

Next ==
  \/ Work
  \/ Timer
  \/ Exec
  \/ ProcessCreate
  \/ ProcessCreateFails
  \/ ProcessExecute

Spec == Init /\ [][Next]_vars
------------------------------------------------------------------------------
(* Every variable has its type. *)
TypeOK ==
  /\ state \in [Slots -> States]
  /\ pid \in [Slots -> Nat]
  /\ rsp \in [Slots -> Context]
  /\ current \in Slots
  /\ next_pid \in Nat
  /\ cpu \in Context
  /\ cpu.at = "process_execute" <=> cpu.proc # Nobody
  /\ waited \in [Slots -> Nat]

(* The slot exec has made READY and has not yet given a frame. *)
Building(s) == cpu.at = "process_execute" /\ cpu.proc = s

(* The processor runs the current process, and each other process the      *)
(* scheduler could pick has, whenever a tick can come, a frame of its own  *)
(* that stops inside its program and not inside exec.                      *)
ContextsOwned ==
  /\ cpu.owner = current
  /\ \A s \in Slots :
       Runnable(s) /\ s # current /\ ~Building(s) =>
         rsp[s].owner = s /\ rsp[s].at = "program"

(* No runnable process waits for more ticks than there are other slots,    *)
(* however many processes are created meanwhile: the ring is searched from *)
(* the slot after the current one, so nobody is passed twice.              *)
BoundedWait == \A s \in Slots : Runnable(s) => waited[s] < MaxProcesses

(* Processes are numbered in the order of their slots: the slots in use    *)
(* are the first ones and slot s has pid s + 1, so no pid is given twice   *)
(* and none is skipped, although a failing exec looks for a slot as well.  *)
(* (sys_exit of syscall.c only prints: a slot never becomes unused again.) *)
TableDense ==
  /\ \A s \in Slots : pid[s] = IF state[s] = "UNUSED" THEN 0 ELSE s + 1
  /\ \A s \in Slots : state[s] = "UNUSED" <=> s + 1 >= next_pid

(* How far each program is, as its own registers tell: the processor's for *)
(* the current one, the saved frame's for the others.                      *)
ContextOf(s) == IF s = current THEN cpu ELSE rsp[s]

Progress(s) ==
  IF ContextOf(s).owner \in {s, Nobody} THEN ContextOf(s).done ELSE Steps

Started == {s \in Slots : Runnable(s) /\ ~Building(s)}

Multi == INSTANCE Multitasking WITH
  started <- Started,
  running <- current,
  progress <- [s \in Slots |-> Progress(s)]

(* Every program goes on from where it was interrupted. *)
ImplementsMultitasking == Multi!Spec
=============================================================================
