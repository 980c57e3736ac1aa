--------------------------- MODULE ProcessorProofs ---------------------------
(***************************************************************************)
(* Proofs about what the processor runs.                                   *)
(*                                                                         *)
(* Scheduler, for a process table of any size: ContextsOwned is inductive  *)
(* once it is known that the current process is runnable, that exec builds *)
(* a slot nobody runs in and that saved frames lie outside exec; the bound *)
(* on waiting follows from the sum of what a process has waited and its    *)
(* distance in the ring never growing.                                     *)
(*                                                                         *)
(* Interrupts, for every line the network card may be given: LapicBalanced *)
(* is inductive, since a line is taken only with interrupts on, when       *)
(* nothing is being handled and so nothing is in service.  PicOnceEach     *)
(* needs to know that nothing is taken before the processor runs with      *)
(* interrupts on, because pic_remap forgets what is in service.            *)
(***************************************************************************)
EXTENDS Processor, TLAPS

(* No process is ever stopped or waiting. *)
StatesUsed == \A s \in Slots : state[s] \in {"UNUSED", "READY", "RUNNING"}

(* exec builds a slot that is not the current one. *)
BuildingApart ==
  cpu.at = "process_execute" => state[cpu.proc] = "READY" /\ cpu.proc # current

(* A frame that can be resumed lies outside exec. *)
FramesIdle == \A s \in Slots : rsp[s].at = "program" /\ rsp[s].proc = Nobody

(* A slot that nothing was started in has no frame. *)
FramesEmpty == \A s \in Slots : state[s] = "UNUSED" \/ Building(s) => rsp[s] = Null

(* What a process has waited leaves room for the slots before its turn. *)
WaitRoom ==
  \A s \in Slots : IF Runnable(s) THEN waited[s] + After(s) <= MaxProcesses
                                  ELSE waited[s] = 0

IInv ==
  /\ TypeOK
  /\ ContextsOwned
  /\ Runnable(current)
  /\ StatesUsed
  /\ BuildingApart
  /\ FramesIdle
  /\ FramesEmpty
  /\ TableDense

(* Where the processor goes, and that it is still the same program's. *)
LEMMA GoToContext ==
  ASSUME cpu \in Context, NEW p \in Places, NEW q \in Slots \cup {Nobody}
  PROVE  /\ GoTo(p, q) \in Context /\ GoTo(p, q).owner = cpu.owner
         /\ GoTo(p, q).at = p /\ GoTo(p, q).proc = q /\ GoTo(p, q).done = cpu.done
  BY DEF Context, GoTo

(* The progress of a context can be replaced. *)
LEMMA DoneUpdate ==
  ASSUME NEW c \in Context, NEW d \in Nat
  PROVE  [c EXCEPT !.done = d]
           = [owner |-> c.owner, done |-> d, at |-> c.at, proc |-> c.proc]
  BY DEF Context

(* Slots and the constant contexts are what they should be. *)
LEMMA Constants ==
  /\ MaxProcesses \in Nat /\ MaxProcesses > 0
  /\ 0 \in Slots /\ Nobody \notin Slots
  /\ \A s \in Slots : s \in Nat /\ s < MaxProcesses
  /\ Null \in Context
  /\ \A s \in Slots : Fresh(s) \in Context
  BY SchedulerAssumption DEF Slots, Nobody, Null, Fresh, Context, Places

(* Distances in the ring, seen from where it moves to. *)
LEMMA AfterRange ==
  ASSUME current \in Slots, NEW s \in Slots
  PROVE  After(s) \in 1 .. MaxProcesses
  BY SchedulerAssumption DEF Slots, After

LEMMA AfterMoves ==
  ASSUME current \in Slots, NEW n \in Slots, NEW s \in Slots, s # n, current' = n,
         After(n) <= After(s)
  PROVE  After(s)' = After(s) - After(n)
  BY SchedulerAssumption DEF Slots, After
------------------------------------------------------------------------------
(* The table as process_init leaves it. *)
LEMMA InitIInv == Init => IInv /\ WaitRoom
<1> SUFFICES ASSUME Init PROVE IInv /\ WaitRoom
  OBVIOUS
<1> USE Constants
<1>1. TypeOK
  BY DEF Init, TypeOK, States, Places, Fresh, Context, Null
<1>2. ContextsOwned
  BY DEF Init, ContextsOwned, Fresh, Runnable
<1>3. Runnable(current) /\ StatesUsed
  BY DEF Init, Runnable, StatesUsed
<1>4. BuildingApart /\ FramesIdle /\ FramesEmpty
  BY DEF Init, BuildingApart, FramesIdle, FramesEmpty, Fresh, Null
<1>5. TableDense
  BY DEF Init, TableDense
<1>6. WaitRoom
  <2>1. current \in Slots /\ \A s \in Slots : waited[s] = 0
    BY DEF Init
  <2> QED BY <2>1, AfterRange DEF WaitRoom
<1> QED BY <1>1, <1>2, <1>3, <1>4, <1>5, <1>6 DEF IInv

(* A step that changes only the context's program counter or progress. *)
LEMMA WorkStep == IInv /\ Work => IInv'
<1> SUFFICES ASSUME IInv, Work PROVE IInv'
  OBVIOUS
<1> DEFINE d == (cpu.done + 1) % Steps
<1>1. d \in Nat /\ cpu \in Context
  BY SchedulerAssumption DEF IInv, TypeOK, Context
<1>2. /\ cpu' = [cpu EXCEPT !.done = d] /\ cpu.at = "program"
      /\ UNCHANGED <<state, pid, rsp, current, next_pid>> /\ waited' = waited
  BY DEF Work, InterruptsOn
<1> HIDE DEF d
<1>3. /\ cpu' \in Context /\ cpu'.owner = cpu.owner /\ cpu'.at = cpu.at
      /\ cpu'.proc = cpu.proc
  <2>1. cpu' = [owner |-> cpu.owner, done |-> d, at |-> cpu.at, proc |-> cpu.proc]
    BY <1>1, <1>2, DoneUpdate
  <2> QED BY <1>1, <2>1 DEF Context
<1> QED BY <1>2, <1>3 DEF IInv, TypeOK, ContextsOwned, Runnable, StatesUsed, Building,
           BuildingApart, FramesIdle, FramesEmpty, TableDense, Context, Null

(* exec is entered. *)
LEMMA ExecStep == IInv /\ Exec => IInv'
<1> SUFFICES ASSUME IInv, Exec PROVE IInv'
  OBVIOUS
<1>1. cpu \in Context /\ cpu.at = "program"
  BY DEF IInv, TypeOK, Exec, InterruptsOn
<1>2. /\ cpu' = GoTo("process_create", Nobody)
      /\ UNCHANGED <<state, pid, rsp, current, next_pid>> /\ waited' = waited
  BY DEF Exec
<1>3. /\ cpu' \in Context /\ cpu'.owner = cpu.owner /\ cpu'.at = "process_create"
      /\ cpu'.proc = Nobody
  BY <1>1, <1>2, GoToContext DEF Places
<1> QED BY <1>1, <1>2, <1>3 DEF IInv, TypeOK, ContextsOwned, Runnable, StatesUsed,
           Building, BuildingApart, FramesIdle, FramesEmpty, TableDense, Context, Null

(* exec gives up. *)
LEMMA FailStep == IInv /\ ProcessCreateFails => IInv'
<1> SUFFICES ASSUME IInv, ProcessCreateFails PROVE IInv'
  OBVIOUS
<1>1. cpu \in Context /\ cpu.at = "process_create"
  BY DEF IInv, TypeOK, ProcessCreateFails
<1>2. /\ cpu' = GoTo("program", Nobody)
      /\ UNCHANGED <<state, pid, rsp, current, next_pid>> /\ waited' = waited
  BY DEF ProcessCreateFails
<1>3. /\ cpu' \in Context /\ cpu'.owner = cpu.owner /\ cpu'.at = "program"
      /\ cpu'.proc = Nobody
  BY <1>1, <1>2, GoToContext DEF Places
<1> QED BY <1>1, <1>2, <1>3 DEF IInv, TypeOK, ContextsOwned, Runnable, StatesUsed,
           Building, BuildingApart, FramesIdle, FramesEmpty, TableDense, Context, Null

(* process_create takes the slot whose pid is next. *)
LEMMA CreateStep == IInv /\ ProcessCreate => IInv'
<1> SUFFICES ASSUME IInv, ProcessCreate PROVE IInv'
  OBVIOUS
<1> USE Constants
<1>1. PICK s \in Slots :
        /\ FirstUnused(s)
        /\ pid' = [pid EXCEPT ![s] = next_pid]
        /\ next_pid' = next_pid + 1
        /\ state' = [state EXCEPT ![s] = "READY"]
        /\ cpu' = GoTo("process_execute", s)
  BY DEF ProcessCreate
<1>2. /\ TypeOK /\ cpu \in Context /\ cpu.at = "process_create"
      /\ UNCHANGED <<rsp, current>> /\ waited' = waited
      /\ state \in [Slots -> States] /\ pid \in [Slots -> Nat] /\ next_pid \in Nat
  BY DEF IInv, TypeOK, ProcessCreate
<1>4. /\ cpu' \in Context /\ cpu'.owner = cpu.owner /\ cpu'.at = "process_execute"
      /\ cpu'.proc = s /\ s # Nobody
  BY <1>1, <1>2, GoToContext DEF Places
<1>5. state[s] = "UNUSED" /\ s # current
  BY <1>1 DEF FirstUnused, IInv, Runnable
<1>6. s + 1 = next_pid
  <2>1. s + 1 >= next_pid
    BY <1>2, <1>5 DEF IInv, TableDense
  <2>2. CASE s + 1 > next_pid
    <3>1. next_pid # 0 /\ next_pid # 1
      <4>1. \A q \in Slots : next_pid = q + 1 \/ next_pid = 0 => state[q] = "UNUSED"
        BY <1>2 DEF IInv, TableDense
      <4>2. current \in Slots /\ state[current] # "UNUSED"
        BY <1>2 DEF IInv, Runnable, TypeOK
      <4>3. current + 1 < next_pid
        BY <1>2, <4>2 DEF IInv, TableDense
      <4> QED BY <1>2, <4>2, <4>3
    <3> DEFINE q == next_pid - 1
    <3>2. q \in Slots /\ q < s
      BY <1>2, <2>2, <3>1 DEF Slots
    <3>3. state[q] = "UNUSED"
      BY <1>2, <3>2 DEF IInv, TableDense
    <3> QED BY <1>1, <3>2, <3>3 DEF FirstUnused
  <2> QED BY <1>2, <2>1, <2>2
<1>7. TypeOK'
  <2>1. state' \in [Slots -> States]
    BY <1>1, <1>2 DEF States
  <2>2. pid' \in [Slots -> Nat] /\ next_pid' \in Nat
    BY <1>1, <1>2
  <2> QED BY <1>2, <1>4, <2>1, <2>2 DEF TypeOK, Context
<1>8. \A q \in Slots : state'[q] = IF q = s THEN "READY" ELSE state[q]
  BY <1>1, <1>2
<1>9. ContextsOwned'
  BY <1>2, <1>4, <1>8 DEF IInv, ContextsOwned, Runnable, Building
<1>10. Runnable(current)' /\ StatesUsed'
  BY <1>2, <1>5, <1>8 DEF IInv, Runnable, StatesUsed, TypeOK
<1>11. BuildingApart'
  BY <1>2, <1>4, <1>5, <1>8 DEF BuildingApart
<1>12. FramesIdle'
  BY <1>2 DEF IInv, FramesIdle
<1>13. FramesEmpty'
  BY <1>2, <1>4, <1>5, <1>8 DEF IInv, FramesEmpty, Building, Null
<1>14. TableDense'
  <2>1. \A q \in Slots : pid'[q] = IF q = s THEN next_pid ELSE pid[q]
    BY <1>1, <1>2
  <2>2. \A q \in Slots : pid'[q] = IF state'[q] = "UNUSED" THEN 0 ELSE q + 1
    BY <1>5, <1>6, <1>8, <2>1 DEF IInv, TableDense
  <2>3. \A q \in Slots : state'[q] = "UNUSED" <=> q + 1 >= next_pid'
    BY <1>1, <1>2, <1>6, <1>8 DEF IInv, TableDense
  <2> QED BY <2>2, <2>3 DEF TableDense
<1> QED BY <1>7, <1>9, <1>10, <1>11, <1>12, <1>13, <1>14 DEF IInv

(* process_execute gives the slot its frame. *)
LEMMA ExecuteStep == IInv /\ ProcessExecute => IInv'
<1> SUFFICES ASSUME IInv, ProcessExecute PROVE IInv'
  OBVIOUS
<1> USE Constants
<1> DEFINE s == cpu.proc
<1>1. /\ TypeOK /\ cpu \in Context /\ cpu.at = "process_execute" /\ s \in Slots
      /\ UNCHANGED <<pid, current, next_pid>> /\ waited' = waited
      /\ state \in [Slots -> States] /\ rsp \in [Slots -> Context]
      /\ state' = [state EXCEPT ![s] = "READY"] /\ rsp' = [rsp EXCEPT ![s] = Fresh(s)]
      /\ cpu' = GoTo("program", Nobody)
  BY DEF IInv, TypeOK, ProcessExecute, Context
<1>2. state[s] = "READY" /\ s # current
  BY <1>1 DEF IInv, BuildingApart
<1> HIDE DEF s
<1>4. /\ cpu' \in Context /\ cpu'.owner = cpu.owner /\ cpu'.at = "program"
      /\ cpu'.proc = Nobody
  BY <1>1, GoToContext DEF Places
<1>5. /\ state' = state /\ rsp' \in [Slots -> Context]
      /\ \A q \in Slots : rsp'[q] = IF q = s THEN Fresh(s) ELSE rsp[q]
  BY <1>1, <1>2
<1>6. Fresh(s).owner = s /\ Fresh(s).at = "program" /\ Fresh(s).proc = Nobody
  BY DEF Fresh
<1>7. TypeOK'
  BY <1>1, <1>4, <1>5 DEF TypeOK, Context
<1>8. ContextsOwned'
  <2>1. cpu'.owner = current'
    BY <1>1, <1>4 DEF IInv, ContextsOwned
  <2>2. ASSUME NEW q \in Slots, Runnable(q)', q # current'
        PROVE  rsp'[q].owner = q /\ rsp'[q].at = "program"
    <3>1. CASE q = s
      BY <1>5, <1>6, <3>1
    <3>2. CASE q # s
      BY <1>1, <1>5, <2>2, <3>2 DEF IInv, ContextsOwned, Runnable, Building, s
    <3> QED BY <3>1, <3>2
  <2> QED BY <2>1, <2>2 DEF ContextsOwned
<1>9. Runnable(current)' /\ StatesUsed'
  BY <1>1, <1>5 DEF IInv, Runnable, StatesUsed
<1>10. BuildingApart'
  BY <1>4 DEF BuildingApart
<1>11. FramesIdle'
  BY <1>5, <1>6 DEF IInv, FramesIdle
<1>12. FramesEmpty'
  BY <1>2, <1>4, <1>5 DEF IInv, FramesEmpty, Building, Null
<1>13. TableDense'
  BY <1>1, <1>5 DEF IInv, TableDense
<1> QED BY <1>7, <1>8, <1>9, <1>10, <1>11, <1>12, <1>13 DEF IInv

(* A tick files the frame of the current process and resumes another's. *)
LEMMA TimerStep == IInv /\ Timer => IInv'
<1> SUFFICES ASSUME IInv, Timer PROVE IInv'
  OBVIOUS
<1> USE Constants
<1>1. PICK n \in Slots :
        /\ NextRunnable(n)
        /\ current' = n
        /\ cpu' = IF n = current THEN cpu ELSE rsp[n]
        /\ rsp' = [rsp EXCEPT ![current] = cpu]
        /\ state' = IF n = current THEN state ELSE [state EXCEPT ![n] = "RUNNING"]
        /\ waited' = Waited(n)
  BY DEF Timer
<1>2. /\ TypeOK /\ cpu \in Context /\ cpu.at = "program" /\ cpu.proc = Nobody
      /\ cpu.owner = current /\ current \in Slots
      /\ state \in [Slots -> States] /\ rsp \in [Slots -> Context]
      /\ UNCHANGED <<pid, next_pid>>
  BY DEF IInv, TypeOK, ContextsOwned, Timer, InterruptsOn
<1>3. Runnable(n) /\ ~Building(n)
  BY <1>1, <1>2 DEF NextRunnable, Building
<1>4. /\ cpu' \in Context /\ cpu'.owner = n /\ cpu'.at = "program" /\ cpu'.proc = Nobody
  <2>1. CASE n = current
    BY <1>1, <1>2, <2>1
  <2>2. CASE n # current
    BY <1>1, <1>2, <1>3, <2>2 DEF IInv, ContextsOwned, FramesIdle
  <2> QED BY <2>1, <2>2
<1>5. /\ rsp' \in [Slots -> Context]
      /\ \A q \in Slots : rsp'[q] = IF q = current THEN cpu ELSE rsp[q]
  BY <1>1, <1>2
<1>6. /\ state' \in [Slots -> States]
      /\ \A q \in Slots : state'[q] = IF q = n /\ n # current THEN "RUNNING" ELSE state[q]
  BY <1>1, <1>2 DEF States
<1>7. \A q \in Slots : /\ Runnable(q)' <=> Runnable(q)
                       /\ state'[q] = "UNUSED" <=> state[q] = "UNUSED"
  BY <1>3, <1>6 DEF Runnable
<1>8. TypeOK'
  <2>1. waited \in [Slots -> Nat] /\ waited' \in [Slots -> Nat]
    BY <1>1, <1>2 DEF TypeOK, Waited
  <2> QED BY <1>1, <1>2, <1>4, <1>5, <1>6, <2>1 DEF TypeOK, Context
<1>9. ContextsOwned'
  <2>1. cpu'.owner = current'
    BY <1>1, <1>4
  <2>2. ASSUME NEW q \in Slots, Runnable(q)'
        PROVE  rsp'[q].owner = q /\ rsp'[q].at = "program"
    <3>1. CASE q = current
      BY <1>2, <1>5, <3>1
    <3>2. CASE q # current
      BY <1>2, <1>5, <1>7, <2>2, <3>2 DEF IInv, ContextsOwned, Building
    <3> QED BY <3>1, <3>2
  <2> QED BY <2>1, <2>2 DEF ContextsOwned
<1>10. Runnable(current)' /\ StatesUsed'
  BY <1>1, <1>3, <1>6, <1>7 DEF IInv, StatesUsed, Runnable
<1>11. BuildingApart'
  BY <1>4 DEF BuildingApart
<1>12. FramesIdle'
  BY <1>2, <1>5 DEF IInv, FramesIdle
<1>13. FramesEmpty'
  BY <1>2, <1>4, <1>5, <1>7 DEF IInv, FramesEmpty, Building, Null, Runnable
<1>14. TableDense'
  BY <1>2, <1>7 DEF IInv, TableDense
<1> QED BY <1>8, <1>9, <1>10, <1>11, <1>12, <1>13, <1>14 DEF IInv

(* Every step keeps the inductive invariant. *)
LEMMA NextIInv == IInv /\ [Next]_vars => IInv'
<1> SUFFICES ASSUME IInv, [Next]_vars PROVE IInv'
  OBVIOUS
<1>1. CASE UNCHANGED vars
  BY <1>1 DEF vars, IInv, TypeOK, ContextsOwned, Runnable, StatesUsed, Building,
     BuildingApart, FramesIdle, FramesEmpty, TableDense, Context, Null
<1> QED BY <1>1, WorkStep, ExecStep, FailStep, CreateStep, ExecuteStep, TimerStep DEF Next

(* A tick brings every waiting process nearer by more than it waits. *)
LEMMA NextWaitRoom == IInv /\ WaitRoom /\ [Next]_vars => WaitRoom'
<1> SUFFICES ASSUME IInv, WaitRoom, [Next]_vars PROVE WaitRoom'
  OBVIOUS
<1> USE Constants
<1>1. current \in Slots /\ waited \in [Slots -> Nat] /\ state \in [Slots -> States]
  BY DEF IInv, TypeOK
<1>2. CASE Timer
  <2>1. PICK n \in Slots :
          /\ NextRunnable(n)
          /\ current' = n
          /\ state' = IF n = current THEN state ELSE [state EXCEPT ![n] = "RUNNING"]
          /\ waited' = Waited(n)
    BY <1>2 DEF Timer
  <2>2. Runnable(n) /\ \A q \in Slots : Runnable(q) => After(n) <= After(q)
    BY <2>1 DEF NextRunnable
  <2>3. \A s \in Slots : Runnable(s)' <=> Runnable(s)
    BY <1>1, <2>1, <2>2 DEF Runnable, States
  <2>4. \A s \in Slots : waited'[s] = IF s = n \/ ~Runnable(s) THEN 0 ELSE waited[s] + 1
    BY <2>1 DEF Waited
  <2>5. current' \in Slots
    BY <2>1
  <2>6. ASSUME NEW s \in Slots, Runnable(s)
        PROVE  waited'[s] + After(s)' <= MaxProcesses
    <3>1. CASE s = n
      <4>1. After(s)' = MaxProcesses
        BY <2>1, <3>1 DEF After
      <4> QED BY <2>4, <3>1, <4>1
    <3>2. CASE s # n
      <4>1. After(s)' = After(s) - After(n)
        BY <1>1, <2>1, <2>2, <2>6, <3>2, AfterMoves
      <4>2. After(n) \in 1 .. MaxProcesses /\ After(s) \in 1 .. MaxProcesses
        BY <1>1, AfterRange
      <4>3. waited[s] + After(s) <= MaxProcesses /\ waited'[s] = waited[s] + 1
        BY <2>4, <2>6, <3>2 DEF WaitRoom
      <4>4. waited[s] \in Nat
        BY <1>1
      <4> QED BY <4>1, <4>2, <4>3, <4>4
    <3> QED BY <3>1, <3>2
  <2> QED BY <2>3, <2>4, <2>6 DEF WaitRoom
<1>3. CASE ProcessCreate
  <2>1. PICK s \in Slots : state' = [state EXCEPT ![s] = "READY"] /\ state[s] = "UNUSED"
    BY <1>3 DEF ProcessCreate, FirstUnused
  <2>2. waited' = waited /\ current' = current
    BY <1>3 DEF ProcessCreate
  <2>3. ASSUME NEW q \in Slots
        PROVE  IF Runnable(q)' THEN waited'[q] + After(q)' <= MaxProcesses
                               ELSE waited'[q] = 0
    <3>1. After(q) \in 1 .. MaxProcesses /\ After(q)' = After(q)
      BY <1>1, <2>2, AfterRange DEF After
    <3>2. CASE q = s
      <4>1. waited[q] = 0
        BY <2>1, <3>2 DEF WaitRoom, Runnable
      <4> QED BY <2>2, <3>1, <4>1
    <3>3. CASE q # s
      <4>1. Runnable(q)' <=> Runnable(q)
        BY <1>1, <2>1, <3>3 DEF Runnable
      <4> QED BY <2>2, <3>1, <4>1 DEF WaitRoom
    <3> QED BY <3>2, <3>3
  <2> QED BY <2>3 DEF WaitRoom
<1>4. CASE ProcessExecute
  <2>1. cpu.proc \in Slots /\ state[cpu.proc] = "READY"
    BY <1>4 DEF ProcessExecute, IInv, TypeOK, BuildingApart, Context
  <2>2. state' = state
    BY <1>1, <1>4, <2>1 DEF ProcessExecute
  <2> QED BY <1>4, <2>2 DEF ProcessExecute, WaitRoom, Runnable, After
<1>5. CASE Work \/ Exec \/ ProcessCreateFails \/ UNCHANGED vars
  BY <1>5 DEF Work, Exec, ProcessCreateFails, vars, WaitRoom, Runnable, After
<1> QED BY <1>2, <1>3, <1>4, <1>5 DEF Next

(* The inductive invariants hold in every reachable state. *)
THEOREM Inductive == Spec => [](IInv /\ WaitRoom)
<1> QED BY InitIInv, NextIInv, NextWaitRoom, PTL DEF Spec

(* Every variable keeps its type. *)
THEOREM TypeCorrect == Spec => []TypeOK
<1>1. IInv => TypeOK
  BY DEF IInv
<1> QED BY <1>1, Inductive, PTL

(* The scheduler never resumes a process from anything but its own frame. *)
THEOREM Ownership == Spec => []ContextsOwned
<1>1. IInv => ContextsOwned
  BY DEF IInv
<1> QED BY <1>1, Inductive, PTL

(* Slot and pid go together for ever. *)
THEOREM Numbering == Spec => []TableDense
<1>1. IInv => TableDense
  BY DEF IInv
<1> QED BY <1>1, Inductive, PTL

(* Every runnable process gets the processor within MaxProcesses ticks. *)
THEOREM NoStarvation == Spec => []BoundedWait
<1>1. IInv /\ WaitRoom => BoundedWait
  <2> SUFFICES ASSUME IInv, WaitRoom, NEW s \in Slots, Runnable(s)
               PROVE  waited[s] < MaxProcesses
    BY DEF BoundedWait
  <2>1. current \in Slots /\ waited[s] \in Nat
    BY DEF IInv, TypeOK
  <2>2. After(s) \in 1 .. MaxProcesses
    BY <2>1, AfterRange
  <2>3. waited[s] + After(s) <= MaxProcesses
    BY DEF WaitRoom
  <2> QED BY <2>1, <2>2, <2>3, Constants
<1> QED BY <1>1, Inductive, PTL
------------------------------------------------------------------------------
(* What the refinement mapping makes of a context: a slot without a program *)
(* is at its first step.                                                    *)
ProgressKnown ==
  \A s \in Slots :
    Progress(s) = IF s = current THEN cpu.done
                  ELSE IF s \in Started THEN rsp[s].done ELSE 0

LEMMA KnownProgress == IInv => ProgressKnown
<1> SUFFICES ASSUME IInv, NEW s \in Slots
             PROVE  Progress(s) = IF s = current THEN cpu.done
                                  ELSE IF s \in Started THEN rsp[s].done ELSE 0
  BY DEF ProgressKnown
<1>1. cpu.owner = current
  BY DEF IInv, ContextsOwned
<1>2. CASE s = current
  BY <1>1, <1>2 DEF Progress, ContextOf
<1>3. CASE s # current /\ s \in Started
  BY <1>3 DEF Progress, ContextOf, Started, IInv, ContextsOwned
<1>4. CASE s # current /\ s \notin Started
  <2>1. state[s] = "UNUSED" \/ Building(s)
    BY <1>4 DEF Started, IInv, StatesUsed, Runnable
  <2>2. rsp[s] = Null
    BY <2>1 DEF IInv, FramesEmpty
  <2> QED BY <1>4, <2>2 DEF Progress, ContextOf, Null
<1> QED BY <1>2, <1>3, <1>4

LEMMA CurrentStarted == IInv => current \in Slots /\ current \in Started
  BY DEF IInv, TypeOK, Started, Building, BuildingApart

(* Each step of the scheduler is a step of the abstract machine or none. *)
LEMMA StepMaps == IInv /\ IInv' /\ [Next]_vars => [Multi!Next]_(Multi!vars)
<1> SUFFICES ASSUME IInv, IInv', [Next]_vars PROVE [Multi!Next]_(Multi!vars)
  OBVIOUS
<1> USE Constants
<1> DEFINE progress == [s \in Slots |-> Progress(s)]
<1>1. \A s \in Slots :
        Progress(s) = IF s = current THEN cpu.done
                      ELSE IF s \in Started THEN rsp[s].done ELSE 0
  BY KnownProgress DEF ProgressKnown
<1>2. \A s \in Slots :
        Progress(s)' = IF s = current' THEN cpu'.done
                       ELSE IF s \in Started' THEN rsp'[s].done ELSE 0
  <2>1. ProgressKnown'
    BY KnownProgress, PTL
  <2> QED BY <2>1 DEF ProgressKnown
<1>3. current \in Slots /\ current \in Started /\ cpu \in Context
      /\ state \in [Slots -> States] /\ rsp \in [Slots -> Context]
  BY CurrentStarted DEF IInv, TypeOK
<1>4. CASE Work
  <2> DEFINE d == (cpu.done + 1) % Steps
  <2>1. d \in Nat
    BY <1>3, SchedulerAssumption DEF Context
  <2>2. cpu' = [cpu EXCEPT !.done = d] /\ UNCHANGED <<state, rsp, current>>
    BY <1>4 DEF Work
  <2>3. cpu'.done = d /\ cpu'.at = cpu.at /\ cpu'.proc = cpu.proc
    <3> HIDE DEF d
    <3>1. cpu' = [owner |-> cpu.owner, done |-> d, at |-> cpu.at, proc |-> cpu.proc]
      BY <1>3, <2>1, <2>2, DoneUpdate
    <3> QED BY <3>1
  <2>4. Started' = Started
    BY <2>2, <2>3 DEF Started, Runnable, Building
  <2>5. \A s \in Slots : Progress(s)' = IF s = current THEN d ELSE Progress(s)
    BY <1>1, <1>2, <2>2, <2>3, <2>4
  <2>6. d = (Progress(current) + 1) % Steps
    BY <1>1, <1>3
  <2>7. progress' = [progress EXCEPT ![current] = (@ + 1) % Steps]
    BY <1>3, <2>5, <2>6
  <2> QED BY <2>2, <2>4, <2>7 DEF Multi!Next, Multi!Advance
<1>5. CASE Timer
  <2>1. PICK n \in Slots :
          /\ NextRunnable(n)
          /\ current' = n
          /\ cpu' = IF n = current THEN cpu ELSE rsp[n]
          /\ rsp' = [rsp EXCEPT ![current] = cpu]
          /\ state' = IF n = current THEN state ELSE [state EXCEPT ![n] = "RUNNING"]
    BY <1>5 DEF Timer
  <2>2. ~\E s \in Slots : Building(s) \/ Building(s)'
    <3>1. cpu.at = "program"
      BY <1>5 DEF Timer, InterruptsOn
    <3>2. cpu'.at = "program"
      BY <2>1, <3>1 DEF IInv, FramesIdle
    <3> QED BY <3>1, <3>2 DEF Building
  <2>3. \A s \in Slots : Runnable(s)' <=> Runnable(s)
    BY <1>3, <2>1 DEF NextRunnable, Runnable, States
  <2>4. Started' = Started /\ n \in Started
    BY <2>1, <2>2, <2>3 DEF Started, NextRunnable
  <2>5. \A s \in Slots : Progress(s)' = Progress(s)
    <3> SUFFICES ASSUME NEW s \in Slots PROVE Progress(s)' = Progress(s)
      OBVIOUS
    <3>1. rsp'[s] = IF s = current THEN cpu ELSE rsp[s]
      BY <1>3, <2>1
    <3> QED BY <1>1, <1>2, <1>3, <2>1, <2>4, <3>1
  <2>6. progress' = progress
    BY <2>5
  <2> QED BY <2>1, <2>4, <2>6 DEF Multi!Next, Multi!Switch
<1>6. CASE Exec \/ ProcessCreateFails
  <2>1. /\ UNCHANGED <<state, rsp, current>>
        /\ cpu.at # "process_execute" /\ cpu'.at # "process_execute"
        /\ cpu'.done = cpu.done
    BY <1>3, <1>6, GoToContext DEF Exec, ProcessCreateFails, InterruptsOn, Places
  <2>2. Started' = Started
    BY <2>1 DEF Started, Runnable, Building
  <2>3. \A s \in Slots : Progress(s)' = Progress(s)
    BY <1>1, <1>2, <2>1, <2>2
  <2>4. progress' = progress
    BY <2>3
  <2> QED BY <2>1, <2>2, <2>4 DEF Multi!vars
<1>7. CASE ProcessCreate
  <2>1. PICK s \in Slots :
          /\ state[s] = "UNUSED"
          /\ state' = [state EXCEPT ![s] = "READY"]
          /\ cpu' = GoTo("process_execute", s)
    BY <1>7 DEF ProcessCreate, FirstUnused
  <2>2. /\ UNCHANGED <<rsp, current>> /\ cpu.at = "process_create"
        /\ cpu'.at = "process_execute" /\ cpu'.proc = s /\ cpu'.done = cpu.done
    BY <1>3, <1>7, <2>1, GoToContext DEF ProcessCreate, Places
  <2>3. \A q \in Slots : (Runnable(q)' /\ ~Building(q)') <=> (Runnable(q) /\ ~Building(q))
    BY <1>3, <2>1, <2>2 DEF Runnable, Building
  <2>4. Started' = Started
    BY <2>3 DEF Started
  <2>5. \A q \in Slots : Progress(q)' = Progress(q)
    BY <1>1, <1>2, <2>2, <2>4
  <2>6. progress' = progress
    BY <2>5
  <2> QED BY <2>2, <2>4, <2>6 DEF Multi!vars
<1>8. CASE ProcessExecute
  <2> DEFINE s == cpu.proc
  <2>1. /\ cpu.at = "process_execute" /\ s \in Slots /\ state[s] = "READY" /\ s # current
        /\ state' = [state EXCEPT ![s] = "READY"] /\ rsp' = [rsp EXCEPT ![s] = Fresh(s)]
        /\ cpu' = GoTo("program", Nobody) /\ current' = current
    BY <1>8 DEF ProcessExecute, IInv, BuildingApart, TypeOK, Context
  <2>2. cpu'.at = "program" /\ cpu'.done = cpu.done
    BY <1>3, <2>1, GoToContext DEF Places
  <2>3. \A q \in Slots : Building(q) <=> q = s
    BY <2>1 DEF Building
  <2> HIDE DEF s
  <2>4. state' = state
    BY <1>3, <2>1
  <2>5. s \notin Started /\ Started' = Started \cup {s}
    BY <2>1, <2>2, <2>3, <2>4 DEF Started, Runnable, Building
  <2>6. \A q \in Slots : rsp'[q].done = IF q = s THEN 0 ELSE rsp[q].done
    BY <1>3, <2>1 DEF Fresh
  <2>7. \A q \in Slots : Progress(q)' = Progress(q)
    BY <1>1, <1>2, <2>1, <2>2, <2>5, <2>6
  <2>8. progress' = progress /\ progress[s] = 0
    BY <1>1, <2>1, <2>5, <2>7
  <2> QED BY <2>1, <2>5, <2>8 DEF Multi!Next, Multi!Start
<1>9. CASE UNCHANGED vars
  <2>1. Started' = Started /\ \A s \in Slots : Progress(s)' = Progress(s)
    BY <1>9 DEF vars, Started, Runnable, Building, Progress, ContextOf
  <2>2. progress' = progress
    BY <2>1
  <2> QED BY <1>9, <2>1, <2>2 DEF vars, Multi!vars
<1> QED BY <1>4, <1>5, <1>6, <1>7, <1>8, <1>9 DEF Next

(* Every program goes on from where it was: the scheduler implements the   *)
(* machine on which each has the processor to itself.                      *)
THEOREM Refinement == Spec => ImplementsMultitasking
<1>1. Init => Multi!Init
  <2> SUFFICES ASSUME Init PROVE Multi!Init
    OBVIOUS
  <2> USE Constants
  <2>1. current = 0 /\ cpu = Fresh(0) /\ rsp = [s \in Slots |-> Null]
        /\ state = [s \in Slots |-> IF s = 0 THEN "RUNNING" ELSE "UNUSED"]
    BY DEF Init
  <2>2. Started = {current}
    BY <2>1 DEF Started, Runnable, Building, Fresh
  <2>3. \A s \in Slots : Progress(s) = 0
    BY <2>1 DEF Progress, ContextOf, Fresh, Null
  <2> QED BY <2>1, <2>2, <2>3 DEF Multi!Init
<1>2. IInv /\ IInv' /\ [Next]_vars => [Multi!Next]_(Multi!vars)
  BY StepMaps
<1> QED BY <1>1, <1>2, Inductive, PTL DEF Spec, ImplementsMultitasking, Multi!Spec
------------------------------------------------------------------------------
(* Interrupts. *)

(* The configuration space names a line that is no input device's. *)
NicLineFree == NicLine \in 3 .. 15 \ {I!MouseLine}

(* Before interrupts are on, nothing came through the PIC. *)
QuietBoot == boot # "running" => isr = {}

IrqInv ==
  /\ I!TypeOK
  /\ I!LapicBalanced
  /\ QuietBoot
  /\ I!PicOnceEach

(* The lines are numbers, none is the number that stands for no line, and  *)
(* no line has a higher priority than the timer's.                         *)
LEMMA LineNumbers ==
  ASSUME NicLineFree
  PROVE  /\ \A l \in I!Lines : l \in Nat /\ l # I!NoLine
         /\ I!Lines \subseteq Nat
         /\ \A l \in I!Lines : I!Input(l) \in Nat /\ ~(I!Input(l) < I!Input(I!TimerLine))
         /\ \A l \in I!Lines : ~(I!Input(l) < I!Input(l))
  BY DEF NicLineFree, I!Lines, I!NoLine, I!TimerLine, I!KeyboardLine, I!MouseLine, I!Input

(* Once the timer's line is in service the PIC offers nothing. *)
LEMMA TimerBlocks ==
  ASSUME NicLineFree, I!TimerLine \in isr
  PROVE  ~\E l \in I!Lines : I!PicOffers(l)
  BY LineNumbers DEF I!PicOffers

(* How far the handling has come can be replaced. *)
LEMMA CpuUpdate ==
  ASSUME NEW c \in [line : I!Lines \cup {I!NoLine}, via : {"none", "pic", "lapic"},
                    step : {"none", "boot", "handler", "stays", "eoi", "iret"}],
         NEW s \in {"none", "boot", "handler", "stays", "eoi", "iret"}
  PROVE  /\ [c EXCEPT !.step = s] = [line |-> c.line, via |-> c.via, step |-> s]
         /\ [c EXCEPT !.step = s] \in
              [line : I!Lines \cup {I!NoLine}, via : {"none", "pic", "lapic"},
               step : {"none", "boot", "handler", "stays", "eoi", "iret"}]
  OBVIOUS

LEMMA InitInv == ASSUME NicLineFree, I!Init PROVE IrqInv
<1>1. handled = [line |-> I!NoLine, via |-> "none", step |-> "boot"]
  BY DEF I!Init, I!Idle
<1>2. I!TypeOK
  <2>1. handled \in [line : I!Lines \cup {I!NoLine}, via : {"none", "pic", "lapic"},
                 step : {"none", "boot", "handler", "stays", "eoi", "iret"}]
    BY <1>1
  <2>2. handled.step = "boot" /\ boot = "lapic_init"
    BY <1>1 DEF I!Init
  <2>3. \A s \in {handlers, imr, irr, isr, routed, lirr, lisr, taken.once, taken.twice} :
          s \subseteq I!Lines
    BY DEF I!Init
  <2> QED BY <2>1, <2>2, <2>3 DEF I!TypeOK, I!BootSteps
<1>3. I!LapicBalanced /\ QuietBoot
  BY <1>1 DEF I!Init, I!LapicBalanced, QuietBoot
<1>4. I!PicOnceEach
  BY DEF I!Init, I!PicOnceEach
<1> QED BY <1>2, <1>3, <1>4 DEF IrqInv

(* The boot steps. *)
LEMMA BootInv == ASSUME NicLineFree, IrqInv, I!Boot PROVE IrqInv'
<1>1. I!TypeOK'
  <2>1. \A s \in {handlers, imr, irr, isr, routed, lirr, lisr, taken.once, taken.twice}' :
          s \subseteq I!Lines
    BY DEF IrqInv, I!TypeOK, I!Boot, I!LapicInit, I!IoapicInit, I!IrqInstall, I!KeyboardInit,
           I!MouseInit, I!TimerInit, I!Rtl8139Init, I!Sti, I!hardware, I!Lines
  <2>2. boot' \in I!BootSteps
    BY DEF I!Boot, I!LapicInit, I!IoapicInit, I!IrqInstall, I!KeyboardInit,
           I!MouseInit, I!TimerInit, I!Rtl8139Init, I!Sti, I!BootSteps
  <2>3. /\ (handled.step = "boot" <=> boot # "running")'
        /\ handled' \in [line : I!Lines \cup {I!NoLine}, via : {"none", "pic", "lapic"},
                     step : {"none", "boot", "handler", "stays", "eoi", "iret"}]
    BY DEF IrqInv, I!TypeOK, I!Boot, I!LapicInit, I!IoapicInit, I!IrqInstall, I!KeyboardInit,
           I!MouseInit, I!TimerInit, I!Rtl8139Init, I!Sti, I!Idle
  <2> QED BY <2>1, <2>2, <2>3 DEF I!TypeOK
<1>2. boot # "running" /\ handled.step = "boot" /\ isr = {}
  BY DEF IrqInv, I!TypeOK, QuietBoot, I!Boot, I!LapicInit, I!IoapicInit, I!IrqInstall,
         I!KeyboardInit, I!MouseInit, I!TimerInit, I!Rtl8139Init, I!Sti
<1>3. isr' = {} /\ taken' = taken /\ lisr' = lisr /\ handled' \in {handled, I!Idle}
  BY <1>2 DEF I!Boot, I!LapicInit, I!IoapicInit, I!IrqInstall, I!KeyboardInit, I!MouseInit,
              I!TimerInit, I!Rtl8139Init, I!Sti, I!hardware
<1>4. (I!LapicBalanced /\ QuietBoot)'
  BY <1>2, <1>3 DEF IrqInv, I!LapicBalanced, QuietBoot, I!Idle
<1>5. I!PicOnceEach'
  BY <1>2, <1>3 DEF IrqInv, I!PicOnceEach
<1> QED BY <1>1, <1>4, <1>5 DEF IrqInv

(* A line raised. *)
LEMMA RaiseInv == ASSUME NicLineFree, IrqInv, NEW l \in I!Lines, I!Raise(l) PROVE IrqInv'
<1>1. I!TypeOK' /\ (I!LapicBalanced /\ QuietBoot)'
  BY DEF IrqInv, I!TypeOK, I!LapicBalanced, QuietBoot, I!Raise
<1>2. (I!TimerLine \in isr => ~\E m \in I!Lines : I!PicOffers(m))'
  <2>1. (~\E m \in I!Lines : \A k \in isr : I!Input(m) < I!Input(k)) \/ I!TimerLine \notin isr
    BY LineNumbers
  <2> QED BY <2>1 DEF I!Raise, I!PicOffers
<1>3. I!PicOnceEach'
  BY <1>2 DEF IrqInv, I!PicOnceEach, I!Raise
<1> QED BY <1>1, <1>3 DEF IrqInv

(* A line taken through the PIC is not in service there yet. *)
LEMMA TakeFromPicInv ==
  ASSUME NicLineFree, IrqInv, NEW l \in I!Lines, I!TakeFromPic(l) PROVE IrqInv'
<1>1. l \notin isr /\ handled = I!Idle /\ handled.step = "none" /\ boot = "running"
  BY LineNumbers DEF IrqInv, I!TypeOK, I!TakeFromPic, I!PicOffers, I!InterruptsOn, I!Idle
<1>2. handled' = [line |-> l, via |-> "pic", step |-> "handler"]
  BY DEF I!TakeFromPic
<1>3. taken'.once = taken.once \cup {l} /\ taken'.twice = {} /\ isr' = isr \cup {l}
  BY <1>1 DEF IrqInv, I!PicOnceEach, I!TakeFromPic
<1>4. I!TypeOK'
  BY <1>1, <1>2, <1>3 DEF IrqInv, I!TypeOK, I!TakeFromPic
<1>5. lisr' = {} /\ (I!LapicBalanced /\ QuietBoot)'
  BY <1>1, <1>2 DEF IrqInv, I!LapicBalanced, QuietBoot, I!TakeFromPic, I!Idle
<1>6. (I!TimerLine \in isr => ~\E m \in I!Lines : I!PicOffers(m))'
  <2>1. (~\E m \in I!Lines : \A k \in isr' : I!Input(m) < I!Input(k)) \/ I!TimerLine \notin isr'
    BY LineNumbers
  <2> QED BY <2>1 DEF I!TakeFromPic, I!PicOffers
<1>7. I!PicOnceEach'
  BY <1>3, <1>6 DEF IrqInv, I!PicOnceEach
<1> QED BY <1>4, <1>5, <1>7 DEF IrqInv

(* What the four other steps leave alone. *)
LEMMA PicUntouched ==
  ASSUME IrqInv, UNCHANGED <<boot, handlers, imr, irr, isr, routed, taken>>
  PROVE  QuietBoot' /\ I!PicOnceEach'
  BY DEF IrqInv, QuietBoot, I!PicOnceEach, I!PicOffers

LEMMA TakeFromLapicInv ==
  ASSUME NicLineFree, IrqInv, NEW l \in I!Lines, I!TakeFromLapic(l) PROVE IrqInv'
<1>1. handled = I!Idle /\ handled.step = "none" /\ boot = "running" /\ lisr = {}
  BY DEF IrqInv, I!TypeOK, I!TakeFromLapic, I!LapicOffers, I!InterruptsOn, I!Idle
<1>2. handled' = [line |-> l, via |-> "lapic", step |-> "handler"] /\ lisr' = {l}
  BY <1>1 DEF I!TakeFromLapic
<1>3. I!TypeOK'
  BY <1>1, <1>2 DEF IrqInv, I!TypeOK, I!TakeFromLapic
<1>4. I!LapicBalanced'
  BY <1>2 DEF I!LapicBalanced
<1> QED BY <1>3, <1>4, PicUntouched DEF IrqInv, I!TakeFromLapic

LEMMA HandleInv == ASSUME IrqInv, I!Handle PROVE IrqInv'
<1>1. /\ handled.step = "handler"
      /\ handled' = [line |-> handled.line, via |-> handled.via, step |-> "eoi"]
  BY CpuUpdate DEF IrqInv, I!TypeOK, I!Handle
<1>2. I!TypeOK'
  BY <1>1 DEF IrqInv, I!TypeOK, I!Handle, I!hardware
<1>3. I!LapicBalanced'
  BY <1>1 DEF IrqInv, I!LapicBalanced, I!Handle, I!hardware
<1> QED BY <1>2, <1>3, PicUntouched DEF IrqInv, I!Handle, I!hardware

LEMMA StaysInv == ASSUME IrqInv, I!HandlerStays PROVE IrqInv'
<1>1. /\ handled.step = "handler"
      /\ handled' = [line |-> handled.line, via |-> handled.via, step |-> "stays"]
  BY CpuUpdate DEF IrqInv, I!TypeOK, I!HandlerStays
<1>2. I!TypeOK'
  BY <1>1 DEF IrqInv, I!TypeOK, I!HandlerStays, I!hardware
<1>3. I!LapicBalanced'
  BY <1>1 DEF IrqInv, I!LapicBalanced, I!HandlerStays, I!hardware
<1> QED BY <1>2, <1>3, PicUntouched DEF IrqInv, I!HandlerStays, I!hardware

(* The end of interrupt finds its own line in service or none. *)
LEMMA EoiInv == ASSUME NicLineFree, IrqInv, I!Eoi PROVE IrqInv'
<1>1. /\ handled.step = "eoi"
      /\ handled' = [line |-> handled.line, via |-> handled.via, step |-> "iret"]
  BY CpuUpdate DEF IrqInv, I!TypeOK, I!Eoi
<1>2. handled.line \in Nat
  BY LineNumbers DEF IrqInv, I!TypeOK, I!NoLine
<1>3. lisr = {} \/ lisr = {handled.line}
  BY DEF IrqInv, I!LapicBalanced
<1>4. lisr' = {}
  BY <1>2, <1>3 DEF I!Eoi
<1>5. I!TypeOK'
  BY <1>1, <1>4 DEF IrqInv, I!TypeOK, I!Eoi
<1>6. I!LapicBalanced'
  BY <1>1, <1>4 DEF I!LapicBalanced
<1> QED BY <1>5, <1>6, PicUntouched DEF IrqInv, I!Eoi

LEMMA IretInv == ASSUME IrqInv, I!Iret PROVE IrqInv'
<1>1. handled.step = "iret" /\ handled' = [line |-> I!NoLine, via |-> "none", step |-> "none"]
  BY DEF I!Iret, I!Idle
<1>2. I!TypeOK'
  BY <1>1 DEF IrqInv, I!TypeOK, I!Iret, I!hardware
<1>3. I!LapicBalanced'
  BY <1>1 DEF IrqInv, I!LapicBalanced, I!Iret, I!hardware
<1> QED BY <1>2, <1>3, PicUntouched DEF IrqInv, I!Iret, I!hardware

(* The inductive invariant holds of every behaviour. *)
LEMMA Invariance == ASSUME NicLineFree PROVE I!Spec => []IrqInv
<1>1. I!Init => IrqInv
  BY InitInv
<1>2. IrqInv /\ [I!Next]_(I!vars) => IrqInv'
  <2> SUFFICES ASSUME IrqInv, [I!Next]_(I!vars) PROVE IrqInv'
    OBVIOUS
  <2>1. CASE I!Boot
    BY <2>1, BootInv
  <2>2. CASE \E l \in I!Lines : I!Raise(l) \/ I!TakeFromPic(l) \/ I!TakeFromLapic(l)
    BY <2>2, RaiseInv, TakeFromPicInv, TakeFromLapicInv
  <2>3. CASE I!Handle \/ I!HandlerStays \/ I!Eoi \/ I!Iret
    BY <2>3, HandleInv, StaysInv, EoiInv, IretInv
  <2>4. CASE UNCHANGED I!vars
    BY <2>4 DEF I!vars, IrqInv, I!TypeOK, I!LapicBalanced, QuietBoot, I!PicOnceEach, I!PicOffers
  <2> QED BY <2>1, <2>2, <2>3, <2>4 DEF I!Next
<1> QED BY <1>1, <1>2, PTL DEF I!Spec

(* A behaviour of the processor is one of each part, that may stand still. *)
THEOREM PartsBehave == ProcessorSpec => Spec /\ I!Spec
<1>1. ProcessorInit => Init /\ I!Init
  BY DEF ProcessorInit
<1>2. [ProcessorNext]_AllVars => [Next]_vars /\ [I!Next]_(I!vars)
  BY DEF ProcessorNext, InterruptStep, AllVars, interruptVars, vars, I!vars
<1> QED BY <1>1, <1>2, PTL DEF ProcessorSpec, Spec, I!Spec

(* Every variable keeps its type, for every line of the network card. *)
THEOREM IrqTypeCorrect == ASSUME NicLineFree PROVE ProcessorSpec => []I!TypeOK
<1>1. IrqInv => I!TypeOK
  BY DEF IrqInv
<1> QED BY <1>1, Invariance, PartsBehave, PTL

(* lapic_eoi is called once for each interrupt the local APIC delivers: a  *)
(* line is in service there exactly while its handler has not come to it.  *)
THEOREM EoiOncePerInterrupt == ASSUME NicLineFree PROVE ProcessorSpec => []LapicBalanced
<1>1. IrqInv => LapicBalanced
  BY DEF IrqInv, LapicBalanced
<1> QED BY <1>1, Invariance, PartsBehave, PTL

(* Nothing tells the PIC of the end of an interrupt: what it delivers it   *)
(* delivers once, and after the timer's line nothing.                      *)
THEOREM PicBlocksForEver == ASSUME NicLineFree PROVE ProcessorSpec => []PicOnceEach
<1>1. IrqInv => PicOnceEach
  BY DEF IrqInv, PicOnceEach
<1> QED BY <1>1, Invariance, PartsBehave, PTL
=============================================================================
