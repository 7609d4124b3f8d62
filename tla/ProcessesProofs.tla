-------------------------- MODULE ProcessesProofs --------------------------
(***************************************************************************)
(* Proofs about Processes, for any number of terminals and of slots and    *)
(* any programs: the ranges of the variables wherever the timer strikes,   *)
(* and, where it strikes only at the points of SafeNested and SafeRoot,    *)
(* that the processes of all terminals fit together, so that sys_execute,  *)
(* sys_halt and context_switch implement Jobs.                             *)
(*                                                                         *)
(* The invariant speaks of the chain of processes of each terminal as a    *)
(* function, ch[t][1] the first shell and ch[t][Depth(t)] the process on   *)
(* top, because Ancestor is a recursion that no single step follows.       *)
(***************************************************************************)
EXTENDS Processes, Sequences, FiniteSetTheorems, WellFoundedInduction, TLAPS

USE SizesAssumption, CommandsAssumption, PreemptAssumption

\* The null PCB is not a process.
LEMMA NullNotASlot == NULL \notin Slots
BY DEF NULL, Slots

\* The kernel starts in range.
LEMMA InitTypeInv == Init => TypeInv
BY DEF Init, TypeInv, TypeOK, ThreadOK, Points, InKernel, Local, NoLocal, Pcb,
       History, Commands, Terminals, Slots, NULL

\* What sys_execute and sys_halt do to their locals, and the history, keep
\* them in range.
LEMMA NoLocalIsLocal == NoLocal \in Local
BY DEF NoLocal, Local, Commands, Terminals

\* The same of the fields that they assign one at a time.
LEMMA LocalUpdates ==
  ASSUME NEW l \in Local, NEW c \in Commands, NEW s \in Slots,
         NEW t \in Terminals
  PROVE  /\ [l EXCEPT !.file = c] \in Local
         /\ [l EXCEPT !.slot = s] \in Local
         /\ [l EXCEPT !.slot = s].slot = s
         /\ [NoLocal EXCEPT !.caller = t] \in Local
BY DEF Local, NoLocal, Commands, Terminals

\* And of the copy of num_process_executing that a thread works on.
LEMMA CountUpdates ==
  ASSUME NEW l \in Local, NEW n \in Int
  PROVE  /\ [l EXCEPT !.count = n] \in Local
         /\ [l EXCEPT !.count = n].slot = l.slot
BY DEF Local

\* And of the history.
LEMMA HistoryUpdates ==
  ASSUME NEW h \in History, NEW c \in Commands, NEW s \in Slots,
         NEW b \in BOOLEAN
  PROVE  /\ [h EXCEPT !.asked[s] = c] \in History
         /\ [h EXCEPT !.drift = @ + 1] \in History
         /\ [h EXCEPT !.overrun = b] \in History
BY DEF History

\* Every handler keeps its variables in range, the slots and stacks it will
\* use included.
THEOREM StepTypeInv == TypeInv /\ [Next]_vars => TypeInv'
<1> SUFFICES ASSUME TypeInv, [Next]_vars PROVE TypeInv'
  OBVIOUS
<1> USE DEF TypeInv, TypeOK, run, At, Goto, SetLocal
<1> USE DEF terminal, counts, links, mmu, content, thread
<1> USE DEF ThreadOK, InKernel, Points
<1>1. ASSUME NEW c \in Commands, Execute(c) PROVE TypeInv'
  BY <1>1, NoLocalIsLocal DEF Execute, Trap, NoLocal, Local
<1>2. CASE CheckLimit
  <2>1. CASE Fail
    <3>1. /\ local' \in [Terminals -> Local]
          /\ executing_terminal' \in Terminals
          /\ displayed_terminal' \in Terminals
      BY <2>1, NoLocalIsLocal DEF Fail, Local
    <3> QED
      BY <1>2, <2>1, <3>1 DEF CheckLimit, Fail
  <2>2. CASE ~Fail
    BY <1>2, <2>2, NullNotASlot DEF CheckLimit
  <2> QED
    BY <2>1, <2>2
<1>3. CASE ParseCommand
  BY <1>3, NullNotASlot, NoLocalIsLocal DEF ParseCommand, Local, Commands
<1>4. CASE LookUp
  <2>1. CASE Fail
    <3>1. /\ local' \in [Terminals -> Local]
          /\ executing_terminal' \in Terminals
          /\ displayed_terminal' \in Terminals
      BY <2>1, NoLocalIsLocal DEF Fail, Local
    <3> QED
      BY <1>4, <2>1, <3>1 DEF LookUp, Fail
  <2>2. CASE ~Fail
    <3>1. CASE parsed \in Executables
      <4>1. 0 \in Slots
        BY DEF Slots
      <4>2. local' = [local EXCEPT ![run] =
                        [local[run] EXCEPT !.file = parsed, !.slot = 0]]
        BY <1>4, <2>2, <3>1, CommandsAssumption DEF LookUp, Commands
      <4>3. local' \in [Terminals -> Local] /\ local'[run].slot = 0
        <5>1. local'[run] = [[local[run] EXCEPT !.file = parsed]
                                EXCEPT !.slot = 0]
          BY <4>2
        <5>2. PICK m \in Local : local'[run] = [m EXCEPT !.slot = 0]
          BY <5>1, LocalUpdates
        <5>3. local'[run] \in Local
          BY <4>1, <5>2, LocalUpdates
        <5>4. local'[run].slot = 0
          BY <5>2 DEF Local
        <5> QED
          BY <4>2, <5>3, <5>4
      <4> QED
        BY <1>4, <2>2, <3>1, <4>1, <4>3, CommandsAssumption DEF LookUp
    <3>2. CASE parsed \notin Executables
      BY <1>4, <2>2, <3>2 DEF LookUp
    <3> QED
      BY <3>1, <3>2
  <2> QED
    BY <2>1, <2>2
<1>5. CASE LoadRefused
  <2>1. local' \in [Terminals -> Local]
    BY <1>5, CountUpdates DEF LoadRefused, LoadCounter
  <2> QED
    BY <1>5, <2>1 DEF LoadRefused, LoadCounter
<1>6. CASE StoreRefused
  <2>1. hist' \in History
    BY <1>6, HistoryUpdates DEF StoreRefused, Commands
  <2>2. Fail /\ num_process_executing' \in Int
    BY <1>6 DEF StoreRefused, Refuse, Local
  <2>3. /\ local' \in [Terminals -> Local]
        /\ executing_terminal' \in Terminals
        /\ displayed_terminal' \in Terminals
    BY <2>2, NoLocalIsLocal DEF Fail, Local
  <2> QED
    BY <1>6, <2>1, <2>2, <2>3 DEF StoreRefused, Fail
<1>7. CASE SearchSlot
  <2>1. local[run].slot \in Slots /\ hist' \in History
    <3>1. TRUE \in BOOLEAN /\ Shell \in Commands
      BY CommandsAssumption DEF Commands
    <3>2. local[run].slot \in Slots
      BY <1>7 DEF SearchSlot
    <3>3. [hist EXCEPT !.overrun = TRUE] \in History
      BY <3>1, <3>2, HistoryUpdates
    <3> QED
      BY <1>7, <3>2, <3>3 DEF SearchSlot
  <2>2. PICK s \in Slots :
          local' = [local EXCEPT ![run] = [local[run] EXCEPT !.slot = s]]
    <3>1. [local[run] EXCEPT !.slot = local[run].slot] = local[run]
      BY DEF Local
    <3> QED
      BY <1>7, <2>1, <3>1 DEF SearchSlot
  <2>3. local' \in [Terminals -> Local] /\ local'[run].slot = s
    BY <2>2, LocalUpdates
  <2> QED
    BY <1>7, <2>1, <2>2, <2>3 DEF SearchSlot
<1>8. CASE MarkSlot
  BY <1>8, NullNotASlot DEF MarkSlot
<1>9. CASE LoadCount
  <2>1. local' \in [Terminals -> Local] /\ local'[run].slot = local[run].slot
    BY <1>9, CountUpdates DEF LoadCount, LoadCounter
  <2> QED
    BY <1>9, <2>1 DEF LoadCount, LoadCounter
<1>10. CASE StoreCount
  <2>1. local' \in [Terminals -> Local] /\ local'[run].slot = local[run].slot
    <3>1. 0 \in Int
      OBVIOUS
    <3> QED
      BY <1>10, <3>1, CountUpdates DEF StoreCount
  <2>2. num_process_executing' \in Int
    BY <1>10 DEF StoreCount, Local
  <2> QED
    BY <1>10, <2>1, <2>2 DEF StoreCount
<1>11. CASE CountTerminal
  BY <1>11, NullNotASlot DEF CountTerminal
<1>12. CASE MapPage
  BY <1>12, NullNotASlot, NoLocalIsLocal DEF MapPage, ProcessMap
<1>13. CASE LoadImage
  BY <1>13, NullNotASlot, NoLocalIsLocal DEF LoadImage, Local
<1>14. CASE SetPcb
  <2> DEFINE s == local[run].slot
  <2>1. s \in Slots /\ local[run].command \in Commands
    BY <1>14 DEF SetPcb, Local
  <2>2. hist' \in History
    BY <1>14, <2>1, HistoryUpdates DEF SetPcb
  <2>3. pcb' \in [Slots -> Pcb]
    BY <1>14, <2>1 DEF SetPcb, ParentOfNew, Pcb
  <2> QED
    BY <1>14, <2>1, <2>2, <2>3 DEF SetPcb
<1>15. CASE SaveFrame
  <2>1. active_pcb[run] \in Slots /\ kstack[run] \in Slots
    BY <1>15 DEF SaveFrame
  <2>2. pcb' \in [Slots -> Pcb]
    <3>1. pcb' = [pcb EXCEPT ![active_pcb[run]] =
                     [[pcb[active_pcb[run]] EXCEPT !.esp = kstack[run]]
                        EXCEPT !.curr_esp0 = esp0]]
      BY <1>15, <2>1 DEF SaveFrame
    <3>2. pcb[active_pcb[run]] \in Pcb
      BY <2>1
    <3>3. PICK m \in Pcb :
            m = [pcb[active_pcb[run]] EXCEPT !.esp = kstack[run]]
      BY <2>1, <3>2 DEF Pcb
    <3>4. [m EXCEPT !.curr_esp0 = esp0] \in Pcb
      BY DEF Pcb
    <3> QED
      BY <3>1, <3>3, <3>4
  <2> QED
    BY <1>15, <2>2 DEF SaveFrame
<1>16. CASE EnterUser
  BY <1>16, NullNotASlot, NoLocalIsLocal DEF EnterUser, SetEsp0, LeaveKernel
<1>17. CASE PickCurrent
  BY <1>17, NullNotASlot, NoLocalIsLocal DEF PickCurrent, NoLocal, Local
<1>18. CASE LoadUncount
  <2>1. local' \in [Terminals -> Local] /\ local'[run].slot = local[run].slot
    BY <1>18, CountUpdates DEF LoadUncount, LoadCounter
  <2> QED
    BY <1>18, <2>1 DEF LoadUncount, LoadCounter
<1>19. CASE StoreUncount
  <2>1. local' \in [Terminals -> Local] /\ local'[run].slot = local[run].slot
    <3>1. 0 \in Int
      OBVIOUS
    <3> QED
      BY <1>19, <3>1, CountUpdates DEF StoreUncount
  <2>2. num_process_executing' \in Int
    BY <1>19 DEF StoreUncount, CountAfterHalt, Local
  <2> QED
    BY <1>19, <2>1, <2>2 DEF StoreUncount
<1>20. CASE UncountTerminal
  BY <1>20, NullNotASlot DEF UncountTerminal
<1>21. CASE FreeSlot
  <2>1. hist' \in History
    BY <1>21, HistoryUpdates DEF FreeSlot, Commands
  <2> QED
    BY <1>21, <2>1 DEF FreeSlot, SlotsAfterHalt
<1>22. CASE Unwind
  <2> DEFINE parent == pcb[local[run].slot].parent
  <2>1. parent \in Slots \cup {NULL}
    <3>1. run \in Terminals /\ local[run].slot \in Slots
      BY <1>22 DEF Unwind
    <3>2. pcb[local[run].slot] \in Pcb
      BY <3>1
    <3> QED
      BY <3>2 DEF Pcb
  <2>2. CASE parent = NULL
    <3>1. [NoLocal EXCEPT !.caller = run] \in Local
      BY NoLocalIsLocal DEF Local, NoLocal
    <3> QED
      BY <1>22, <2>2, <3>1 DEF Unwind, RelaunchShell, NoLocal
  <2>3. CASE parent # NULL
    BY <1>22, <2>1, <2>3 DEF Unwind
  <2> QED
    BY <2>2, <2>3
<1>23. CASE RestoreParent
  BY <1>23, NullNotASlot, NoLocalIsLocal DEF RestoreParent, ProcessMap,
     SetEsp0, LeaveKernel, Pcb
<1>24. CASE Halt
  BY <1>24, NullNotASlot, NoLocalIsLocal DEF Halt, Trap
<1>25. CASE Read
  BY <1>25, NullNotASlot, NoLocalIsLocal DEF Read, Trap
<1>26. CASE GetArgs
  BY <1>26, NullNotASlot, NoLocalIsLocal DEF GetArgs, Trap, Commands
<1>27. CASE ReadReturns
  BY <1>27, NullNotASlot, NoLocalIsLocal DEF ReadReturns, LeaveKernel
<1>28. CASE LaunchShell
  <2>1. PICK n \in Terminals :
          /\ Tick(n) /\ num_on_terminal[n] = 0
          /\ pc' = [pc EXCEPT ![n] = "exec"]
          /\ kstack' = [kstack EXCEPT ![run] = StackInUse, ![n] = StackInUse]
          /\ local' = [local EXCEPT ![n] = [NoLocal EXCEPT !.caller = run]]
          /\ UNCHANGED <<displayed_terminal, counts, links, mmu, content,
                         hist>>
    BY <1>28 DEF LaunchShell
  <2>2. local' \in [Terminals -> Local]
    BY <2>1, LocalUpdates
  <2>3. StackInUse \in Slots
    BY <2>1 DEF StackInUse, Tick, Preemptible
  <2> QED
    BY <2>1, <2>2, <2>3 DEF Tick
<1>29. CASE SwitchTo
  BY <1>29, NullNotASlot, NoLocalIsLocal DEF SwitchTo, Tick, Preemptible,
     StackInUse, ProcessMap, SetEsp0, NoLocal, Local
<1>30. ASSUME NEW n \in Terminals, SwitchDisplay(n) PROVE TypeInv'
  BY <1>30 DEF SwitchDisplay
<1>31. CASE UNCHANGED vars
  BY <1>31 DEF vars
<1> QED
  BY <1>1, <1>2, <1>3, <1>4, <1>5, <1>6, <1>7, <1>8, <1>9, <1>10, <1>11, <1>12,
     <1>13, <1>14, <1>15, <1>16, <1>17, <1>18, <1>19, <1>20, <1>21, <1>22,
     <1>23, <1>24, <1>25, <1>26, <1>27, <1>28, <1>29, <1>30, <1>31 DEF Next,
     ExecuteStep, HaltStep, UserStep, TimerStep

\* Every variable stays in its range, whatever the timer interrupts.
THEOREM TypeCorrect == Spec => []TypeOK
<1>1. Spec => []TypeInv
  BY InitTypeInv, StepTypeInv, PTL DEF Spec
<1>2. TypeInv => TypeOK
  BY DEF TypeInv
<1> QED
  BY <1>1, <1>2, PTL

(***************************************************************************)
(* The inductive invariant.                                                *)
(***************************************************************************)
\* The constants of the proofs below.
SafePreemption ==
  /\ PreemptNested \subseteq SafeNested
  /\ PreemptRoot \subseteq SafeRoot

\* Points: a call of execute before its slot is marked, with the slot
\* marked, counted, and with the PCB linked; a call of halt up to the slot's
\* release; and the calls whose slot is busy and in no chain.
Choosing == {"exec", "parse", "lookup", "refuse", "lower", "alloc", "mark"}
Linking == {"map", "load", "pcb"}
Filling == Linking \cup {"count", "add", "join"}
Entering == {"frame", "enter"}
Leaving == {"uncount", "subtract", "leave", "free"}
Holding == Filling \cup {"free"}

\* A thread that does not run is where the timer may leave it.
ShapeOK(t) ==
  /\ num_on_terminal[t] \in Nat
  /\ pc[t] # "fault"
  /\ num_on_terminal[t] = 0 =>
       pc[t] \in SafeRoot \cup {"none", "count", "add", "join", "free"}
  /\ num_on_terminal[t] # 0 => pc[t] # "none"
  /\ t # run =>
       IF num_on_terminal[t] = 0
         THEN pc[t] \in SafeRoot \cup {"none"}
         ELSE /\ pc[t] \in PreemptNested
              /\ num_on_terminal[t] = 1 => pc[t] \notin {"map", "enter"}

\* The locals of sys_execute and sys_halt.
LocalOK(t) ==
  /\ pc[t] \in Entering \cup Leaving => local[t].slot = active_pcb[t]
  /\ pc[t] \in Filling \cup {"alloc", "mark"} =>
       local[t].file = local[t].command /\ local[t].file \in Executables
  /\ pc[t] \in {"refuse", "lower"} => local[t].command \notin Executables
  /\ pc[t] \in Choosing =>
       IF num_on_terminal[t] = 0
         THEN local[t].command = Shell /\ local[t].caller \in {t, t - 1}
         ELSE local[t].caller = t

\* The thread of t has processes below the one that sys_execute makes.
Nested(t) ==
  num_on_terminal[t] > IF pc[t] \in Linking \cup Entering THEN 1 ELSE 0

\* Calls use the stack of the process that made them.
StackOK(t) ==
  Nested(t) =>
    /\ pc[t] = "user" => kstack[t] \in {NULL, active_pcb[t]}
    /\ pc[t] \in Choosing \cup Filling \cup Leaving \cup {"wait", "halt"} =>
         kstack[t] = active_pcb[t]
    /\ pc[t] \in Entering => kstack[t] = pcb[active_pcb[t]].parent

\* The PCB of a process that ends still leads to its parent.
FreeOK(t) ==
  LET p == pcb[local[t].slot] IN
  pc[t] = "free" => IF num_on_terminal[t] = 0 THEN p.parent = NULL
                    ELSE p.curr_esp0 = p.parent

\* The threads that the one that runs goes back to when launches fail: the
\* shell of each terminal after t, up to that of run, was started on the
\* stack of the one before.
Launching(u) ==
  /\ num_on_terminal[u] = 0
  /\ pc[u] \in Choosing
  /\ local[u].caller = u - 1
Waiting(t) == t < run /\ \A u \in t + 1 .. run : Launching(u)
Alive(t) == t = run \/ Waiting(t)

\* They find the page, tss.esp0 and the globals as they left them.
PageOK(t) ==
  /\ Nested(t) /\ pc[t] \in Choosing \cup {"user", "wait"} =>
       vir_page = active_pcb[t]
  /\ pc[t] \in {"load", "pcb"} => vir_page = local[t].slot
  /\ pc[t] \in Entering => vir_page = active_pcb[t]
  /\ pc[t] = "pcb" => image[local[t].slot] = local[t].file

Esp0OK(t) ==
  /\ Nested(t) /\ pc[t] \in Choosing \cup Filling \cup {"user", "wait"} =>
       esp0 = active_pcb[t]
  /\ Nested(t) /\ pc[t] = "frame" => esp0 = pcb[active_pcb[t]].parent

ParsedOK(t) == pc[t] = "lookup" => parsed = local[t].command

HaltOK(t) ==
  LET p == pcb[local[t].slot] IN
  /\ pc[t] = "unwind" => IF num_on_terminal[t] = 0 THEN p.parent = NULL
                         ELSE p.curr_esp0 = p.parent
  /\ pc[t] = "restore" => p.parent = active_pcb[t] /\ p.curr_esp0 = p.parent

\* When the timer strikes nobody between the test of the limit and the
\* count, nor between the end of the count and the release of a slot.
NoGap == PreemptNested \cap {"parse", "alloc", "count", "leave", "free"} = {}

\* What a thread has loaded is still so when it stores: the counter, the free
\* slot, and the busy ones below it.
SlotOK(t) ==
  /\ pc[t] \in {"lower", "add", "subtract"} =>
       local[t].count = num_process_executing
  /\ pc[t] = "mark" => local[t].slot \notin processes
  /\ NoGap /\ pc[t] = "alloc" =>
       \A s \in 0 .. local[t].slot - 1 : s \in processes

\* There is room for a shell that starts again, and for whoever has passed
\* the test.
Restarting(t) ==
  pc[t] \in {"free", "unwind"} \/ (pc[t] = "exec" /\ local[t].caller = t)
RoomOK(t) ==
  /\ num_on_terminal[t] = 0 /\ Restarting(t) =>
       num_process_executing < MAX_NUM_PROCESS
  /\ pc[t] \in {"parse", "lookup", "alloc", "mark"}
     /\ (num_on_terminal[t] = 0 \/ NoGap) =>
       num_process_executing < MAX_NUM_PROCESS

\* The processes of t are ch[t][1], a first shell, to ch[t][Depth(t)].
Linked(ch, t) ==
  /\ Depth(t) \in Nat
  /\ Depth(t) > 0 => ch[t][Depth(t)] = Top(t) /\ pcb[ch[t][1]].parent = NULL
  /\ \A k \in 1 .. Depth(t) - 1 :
       /\ pcb[ch[t][k + 1]].parent = ch[t][k]
       /\ k + 1 # Depth(t) \/ pc[t] # "frame" =>
            /\ pcb[ch[t][k + 1]].curr_esp0 = ch[t][k]
            /\ pcb[ch[t][k + 1]].esp = ch[t][k]

\* Every slot is in one place.
Distinct(ch) ==
  \A t, u \in Terminals : \A j \in 1 .. Depth(t), k \in 1 .. Depth(u) :
    ch[t][j] = ch[u][k] => t = u /\ j = k
Apart(ch, t) ==
  pc[t] \in Holding =>
    /\ \A u \in Terminals : \A k \in 1 .. Depth(u) :
         ch[u][k] # local[t].slot
    /\ \A u \in Terminals \ {t} :
         pc[u] \in Holding => local[u].slot # local[t].slot
InChain(ch, s) == \E t \in Terminals : \E k \in 1 .. Depth(t) : s = ch[t][k]
InHolding(s) == \E t \in Terminals : pc[t] \in Holding /\ s = local[t].slot
Busy(ch) == \A s \in Slots : s \in processes <=> InChain(ch, s) \/ InHolding(s)
Loaded(ch, t) ==
  \A k \in 1 .. Depth(t) : image[ch[t][k]] = hist.asked[ch[t][k]]

Chains == [Terminals -> [Nat -> Slots]]

Counted ==
  Cardinality(processes) =
    num_process_executing + hist.drift + Cardinality(Uncounted)

ThreadsInv ==
  \A t \in Terminals : ShapeOK(t) /\ LocalOK(t) /\ StackOK(t) /\ FreeOK(t)
ReadyOK(t) ==
  /\ pc[t] # "none"
  /\ PageOK(t) /\ Esp0OK(t) /\ ParsedOK(t) /\ HaltOK(t)
  /\ SlotOK(t) /\ RoomOK(t)
AliveInv == \A t \in Terminals : Alive(t) => ReadyOK(t)
ForestInv(ch) ==
  /\ ch \in Chains
  /\ \A t \in Terminals : Linked(ch, t) /\ Apart(ch, t) /\ Loaded(ch, t)
  /\ Distinct(ch)
  /\ Busy(ch)

SoundWith(ch) == TypeInv /\ ThreadsInv /\ AliveInv /\ ForestInv(ch) /\ Counted

IInv ==
  /\ TypeInv
  /\ ~hist.overrun => \E ch : SoundWith(ch)

(***************************************************************************)
(* The threads.                                                            *)
(***************************************************************************)
\* next_scheduled_terminal is the next terminal, or the first.
LEMMA NextTerminal ==
  ASSUME NEW r \in Terminals
  PROVE  (r + 1) % TERM_NUM = IF r + 1 = TERM_NUM THEN 0 ELSE r + 1
BY SMT DEF Terminals

\* Most steps leave the history alone.
LEMMA HistoryFrame ==
  ASSUME [Next]_vars
  PROVE  UNCHANGED hist \/ SearchSlot \/ StoreRefused \/ SetPcb \/ FreeSlot
BY DEF Next, ExecuteStep, HaltStep, UserStep, TimerStep, vars, Execute,
   CheckLimit, ParseCommand, LookUp, LoadRefused, LoadCounter, MarkSlot,
   LoadCount, StoreCount, CountTerminal, MapPage, LoadImage, SaveFrame,
   EnterUser, PickCurrent, LoadUncount, StoreUncount, UncountTerminal,
   Unwind, RestoreParent, Halt, Read, GetArgs, ReadReturns, LaunchShell,
   SwitchTo, SwitchDisplay

\* hist.overrun remembers that the search for a free slot failed once.
LEMMA OverrunStays == [Next]_vars /\ TypeInv /\ ~hist.overrun' => ~hist.overrun
<1> SUFFICES ASSUME [Next]_vars, TypeInv, hist.overrun PROVE hist'.overrun
  BY DEF TypeInv, TypeOK, History
<1> USE DEF TypeInv, TypeOK, History, terminal, counts, links, mmu, content,
   thread
<1>1. CASE SearchSlot
  BY <1>1 DEF SearchSlot
<1>2. CASE StoreRefused
  BY <1>2 DEF StoreRefused
<1>3. CASE SetPcb
  BY <1>3 DEF SetPcb
<1>4. CASE FreeSlot
  BY <1>4 DEF FreeSlot
<1>5. CASE UNCHANGED hist
  BY <1>5
<1> HIDE DEF TypeInv, TypeOK
<1> QED
  BY <1>1, <1>2, <1>3, <1>4, <1>5, HistoryFrame

\* Each thread stays where its counts say it can be: sys_execute of a first
\* shell never reaches the null PCB, because RoomOK leaves it a place.
LEMMA StepShape ==
  ASSUME NEW ch, SafePreemption, SoundWith(ch), ~hist.overrun, TypeInv',
         [Next]_vars
  PROVE  \A t \in Terminals : ShapeOK(t)'
<1> SUFFICES ASSUME NEW t \in Terminals PROVE ShapeOK(t)'
  OBVIOUS
<1> USE DEF SoundWith, ThreadsInv, ShapeOK
<1> USE DEF TypeInv, TypeOK, run, At, Goto, SetLocal, SafeNested, SafeRoot
<1> USE DEF terminal, counts, links, mmu, content, thread
<1>1. ASSUME NEW c \in Commands, Execute(c) PROVE ShapeOK(t)'
  BY <1>1 DEF Execute, Trap
<1>2. CASE CheckLimit
  <2>1. CASE ~AtLimit
    BY <1>2, <2>1 DEF CheckLimit
  <2>2. CASE AtLimit
    <3> DEFINE back == local[run].caller
    <3>1. back = run => num_on_terminal[run] # 0
      <4>1. RoomOK(run) /\ pc[run] = "exec" /\ AtLimit
        BY <1>2, <2>2 DEF CheckLimit, AliveInv, Alive, ReadyOK
      <4> QED
        BY <4>1 DEF RoomOK, Restarting, AtLimit
    <3>2. pc[run] = "exec" /\ Fail /\ UNCHANGED num_on_terminal
      BY <1>2, <2>2 DEF CheckLimit
    <3>3. LocalOK(run)
      BY DEF TypeInv
    <3> QED
      BY <3>1, <3>2, <3>3 DEF Fail, LocalOK, Choosing
  <2> QED
    BY <2>1, <2>2
<1>3. CASE ParseCommand
  BY <1>3 DEF ParseCommand
<1>4. CASE LookUp
  <2>1. /\ pc[run] = "lookup" /\ UNCHANGED num_on_terminal
        /\ parsed = local[run].command
    BY <1>4 DEF LookUp, AliveInv, Alive, ReadyOK, ParsedOK
  <2>2. CASE parsed \in Executables
    BY <1>4, <2>1, <2>2, CommandsAssumption DEF LookUp, Commands
  <2>3. CASE parsed \notin Executables
    <3>1. num_on_terminal[run] # 0 /\ local[run].caller = run
      BY <2>1, <2>3, CommandsAssumption DEF LocalOK, Choosing
    <3>2. Fail \/ (Goto("refuse") /\ UNCHANGED executing_terminal)
      BY <1>4, <2>3 DEF LookUp
    <3> QED
      BY <2>1, <3>1, <3>2 DEF Fail
  <2> QED
    BY <2>2, <2>3
<1>5. CASE LoadRefused
  BY <1>5 DEF LoadRefused, LoadCounter
<1>6. CASE StoreRefused
  <2>1. /\ pc[run] = "lower" /\ Fail /\ UNCHANGED num_on_terminal
        /\ num_on_terminal[run] # 0
    BY <1>6 DEF StoreRefused
  <2>2. local[run].caller = run
    BY <2>1 DEF LocalOK, Choosing
  <2> QED
    BY <2>1, <2>2 DEF Fail
<1>7. CASE SearchSlot
  BY <1>7 DEF SearchSlot
<1>8. CASE MarkSlot
  BY <1>8 DEF MarkSlot
<1>9. CASE LoadCount
  BY <1>9 DEF LoadCount, LoadCounter
<1>10. CASE StoreCount
  BY <1>10 DEF StoreCount
<1>11. CASE CountTerminal
  BY <1>11 DEF CountTerminal
<1>12. CASE MapPage
  BY <1>12 DEF MapPage
<1>13. CASE LoadImage
  BY <1>13 DEF LoadImage
<1>14. CASE SetPcb
  BY <1>14 DEF SetPcb
<1>15. CASE SaveFrame
  BY <1>15 DEF SaveFrame
<1>16. CASE EnterUser
  BY <1>16 DEF EnterUser, LeaveKernel
<1>17. CASE PickCurrent
  BY <1>17 DEF PickCurrent
<1>18. CASE LoadUncount
  BY <1>18 DEF LoadUncount, LoadCounter
<1>19. CASE StoreUncount
  BY <1>19 DEF StoreUncount
<1>20. CASE UncountTerminal
  BY <1>20 DEF UncountTerminal
<1>21. CASE FreeSlot
  BY <1>21 DEF FreeSlot
<1>22. CASE Unwind
  BY <1>22 DEF Unwind, RelaunchShell, AliveInv, Alive, ReadyOK, HaltOK
<1>23. CASE RestoreParent
  BY <1>23 DEF RestoreParent, LeaveKernel
<1>24. CASE Halt
  BY <1>24 DEF Halt, Trap
<1>25. CASE Read
  BY <1>25 DEF Read, Trap
<1>26. CASE GetArgs
  BY <1>26 DEF GetArgs, Trap
<1>27. CASE ReadReturns
  BY <1>27 DEF ReadReturns, LeaveKernel
<1>28. CASE LaunchShell
  BY <1>28 DEF LaunchShell, Tick, Preemptible, CreatesRoot, SafePreemption
<1>29. CASE SwitchTo
  <2>1. PICK n \in Terminals :
          /\ Tick(n) /\ num_on_terminal[n] # 0
          /\ pc' = [u \in Terminals |->
                      IF num_on_terminal[u] = 0 THEN "none"
                      ELSE IF u = n /\ active_pcb[n] = NULL THEN "fault"
                      ELSE pc[u]]
          /\ UNCHANGED counts
    BY <1>29 DEF SwitchTo
  <2>2. active_pcb[n] \in Slots
    <3>1. ShapeOK(n) /\ StackOK(n) /\ ThreadOK(n) /\ n # run
      BY <2>1 DEF Tick
    <3> QED
      BY <2>1, <3>1 DEF SafePreemption, ThreadOK, StackOK, Nested, InKernel,
         Choosing, Filling, Linking, Entering, Leaving, Points
  <2>3. active_pcb[n] # NULL
    BY <2>2, NullNotASlot
  <2>4. /\ pc[run] \in (IF CreatesRoot(run) THEN SafeRoot ELSE PreemptNested)
        /\ executing_terminal' = n
    BY <2>1 DEF Tick, Preemptible, SafePreemption
  <2> QED
    BY <2>1, <2>3, <2>4 DEF CreatesRoot, SafePreemption
<1>30. ASSUME NEW n \in Terminals, SwitchDisplay(n) PROVE ShapeOK(t)'
  BY <1>30 DEF SwitchDisplay
<1>31. CASE UNCHANGED vars
  BY <1>31 DEF vars
<1> QED
  BY <1>1, <1>2, <1>3, <1>4, <1>5, <1>6, <1>7, <1>8, <1>9, <1>10, <1>11, <1>12,
     <1>13, <1>14, <1>15, <1>16, <1>17, <1>18, <1>19, <1>20, <1>21, <1>22,
     <1>23, <1>24, <1>25, <1>26, <1>27, <1>28, <1>29, <1>30, <1>31 DEF Next,
     ExecuteStep, HaltStep, UserStep, TimerStep

\* process_num and curr_pcb of sys_execute and sys_halt stay what they were
\* computed to be until the call has used them.
LEMMA StepLocal ==
  ASSUME NEW ch, SafePreemption, SoundWith(ch), ~hist.overrun, TypeInv',
         [Next]_vars
  PROVE  \A t \in Terminals : LocalOK(t)'
<1> SUFFICES ASSUME NEW t \in Terminals PROVE LocalOK(t)'
  OBVIOUS
<1> USE DEF SoundWith, ThreadsInv, LocalOK, ShapeOK
<1> USE DEF TypeInv, TypeOK, run, At, Goto, SetLocal, SafeRoot
<1> USE DEF terminal, counts, links, mmu, content, thread
<1> USE DEF Choosing, Filling, Linking, Entering, Leaving, NoLocal
<1>1. ASSUME NEW c \in Commands, Execute(c) PROVE LocalOK(t)'
  BY <1>1 DEF Execute, Trap
<1>2. CASE CheckLimit
  BY <1>2 DEF CheckLimit, Fail
<1>3. CASE ParseCommand
  BY <1>3 DEF ParseCommand
<1>4. CASE LookUp
  <2>1. /\ pc[run] = "lookup" /\ UNCHANGED <<num_on_terminal, active_pcb>>
        /\ parsed = local[run].command
    BY <1>4 DEF LookUp, AliveInv, Alive, ReadyOK, ParsedOK
  <2>2. CASE parsed \in Executables
    <3>1. /\ pc' = [pc EXCEPT ![run] = "alloc"]
          /\ local' = [local EXCEPT ![run] =
                         [local[run] EXCEPT !.file = parsed, !.slot = 0]]
      BY <1>4, <2>2, CommandsAssumption DEF LookUp, Commands
    <3>2. /\ \A u \in Terminals \ {run} : local'[u] = local[u]
          /\ local'[run].file = parsed /\ local'[run].command = parsed
          /\ local'[run].caller = local[run].caller
      BY <3>1, <2>1 DEF Local
    <3> QED
      BY <2>1, <2>2, <3>1, <3>2
  <2>3. CASE parsed \notin Executables
    BY <1>4, <2>1, <2>3 DEF LookUp, Fail
  <2> QED
    BY <2>2, <2>3
<1>5. CASE LoadRefused
  BY <1>5 DEF LoadRefused, LoadCounter
<1>6. CASE StoreRefused
  BY <1>6 DEF StoreRefused, Fail
<1>7. CASE SearchSlot
  <2>1. /\ pc[run] = "alloc" /\ UNCHANGED <<num_on_terminal, active_pcb>>
        /\ \E p \in {"alloc", "mark", "count"} : pc' = [pc EXCEPT ![run] = p]
    BY <1>7 DEF SearchSlot
  <2>2. /\ \A u \in Terminals \ {run} : local'[u] = local[u]
        /\ local'[run].file = local[run].file
        /\ local'[run].command = local[run].command
        /\ local'[run].caller = local[run].caller
    BY <1>7 DEF SearchSlot, Local
  <2> QED
    BY <2>1, <2>2
<1>8. CASE MarkSlot
  BY <1>8 DEF MarkSlot
<1>9. CASE LoadCount
  BY <1>9 DEF LoadCount, LoadCounter
<1>10. CASE StoreCount
  BY <1>10 DEF StoreCount
<1>11. CASE CountTerminal
  BY <1>11 DEF CountTerminal
<1>12. CASE MapPage
  BY <1>12 DEF MapPage
<1>13. CASE LoadImage
  BY <1>13 DEF LoadImage
<1>14. CASE SetPcb
  BY <1>14 DEF SetPcb
<1>15. CASE SaveFrame
  BY <1>15 DEF SaveFrame
<1>16. CASE EnterUser
  BY <1>16 DEF EnterUser, LeaveKernel
<1>17. CASE PickCurrent
  BY <1>17 DEF PickCurrent
<1>18. CASE LoadUncount
  BY <1>18 DEF LoadUncount, LoadCounter
<1>19. CASE StoreUncount
  BY <1>19 DEF StoreUncount
<1>20. CASE UncountTerminal
  BY <1>20 DEF UncountTerminal
<1>21. CASE FreeSlot
  BY <1>21 DEF FreeSlot
<1>22. CASE Unwind
  BY <1>22 DEF Unwind, RelaunchShell
<1>23. CASE RestoreParent
  BY <1>23 DEF RestoreParent, LeaveKernel
<1>24. CASE Halt
  BY <1>24 DEF Halt, Trap
<1>25. CASE Read
  BY <1>25 DEF Read, Trap
<1>26. CASE GetArgs
  BY <1>26 DEF GetArgs, Trap
<1>27. CASE ReadReturns
  BY <1>27 DEF ReadReturns, LeaveKernel
<1>28. CASE LaunchShell
  <2>1. PICK n \in Terminals :
          /\ num_on_terminal[n] = 0 /\ num_on_terminal[0] # 0
          /\ n = (run + 1) % TERM_NUM
          /\ pc' = [pc EXCEPT ![n] = "exec"]
          /\ local' = [local EXCEPT ![n] = [NoLocal EXCEPT !.caller = run]]
          /\ UNCHANGED <<counts, links>>
    BY <1>28 DEF LaunchShell, Tick, next_scheduled_terminal
  <2>2. n = run + 1
    BY <2>1, NextTerminal DEF Terminals
  <2>3. run = n - 1
    BY <2>2 DEF Terminals
  <2> QED
    BY <2>1, <2>3
<1>29. CASE SwitchTo
  BY <1>29 DEF SwitchTo, Tick
<1>30. ASSUME NEW n \in Terminals, SwitchDisplay(n) PROVE LocalOK(t)'
  BY <1>30 DEF SwitchDisplay
<1>31. CASE UNCHANGED vars
  BY <1>31 DEF vars
<1> QED
  BY <1>1, <1>2, <1>3, <1>4, <1>5, <1>6, <1>7, <1>8, <1>9, <1>10, <1>11, <1>12,
     <1>13, <1>14, <1>15, <1>16, <1>17, <1>18, <1>19, <1>20, <1>21, <1>22,
     <1>23, <1>24, <1>25, <1>26, <1>27, <1>28, <1>29, <1>30, <1>31 DEF Next,
     ExecuteStep, HaltStep, UserStep, TimerStep

\* A call keeps the stack of the process that made it.
LEMMA StepStack ==
  ASSUME NEW ch, SafePreemption, SoundWith(ch), ~hist.overrun, TypeInv',
         [Next]_vars
  PROVE  \A t \in Terminals : StackOK(t)'
<1> SUFFICES ASSUME NEW t \in Terminals PROVE StackOK(t)'
  OBVIOUS
<1> USE DEF SoundWith, ThreadsInv, StackOK, ShapeOK, Nested
<1> USE DEF TypeInv, TypeOK, run, At, Goto, SetLocal, SafeRoot
<1> USE DEF terminal, counts, links, mmu, content, thread
<1> USE DEF Choosing, Filling, Linking, Entering, Leaving, Holding
<1>a. pc[run] = "user" => esp0 = active_pcb[run]
  BY DEF AliveInv, ReadyOK, Alive, Esp0OK
<1>1. ASSUME NEW c \in Commands, Execute(c) PROVE StackOK(t)'
  BY <1>1, <1>a DEF Execute, Trap
<1>2. CASE CheckLimit
  BY <1>2 DEF CheckLimit, Fail
<1>3. CASE ParseCommand
  BY <1>3 DEF ParseCommand
<1>4. CASE LookUp
  <2>1. /\ pc[run] = "lookup" /\ UNCHANGED <<num_on_terminal, links>>
        /\ \/ Fail
           \/ /\ kstack' = kstack
              /\ \E p \in {"refuse", "alloc"} : pc' = [pc EXCEPT ![run] = p]
    BY <1>4 DEF LookUp
  <2> QED
    BY <2>1 DEF Fail
<1>5. CASE LoadRefused
  BY <1>5 DEF LoadRefused, LoadCounter
<1>6. CASE StoreRefused
  BY <1>6 DEF StoreRefused, Fail
<1>7. CASE SearchSlot
  BY <1>7 DEF SearchSlot
<1>8. CASE MarkSlot
  BY <1>8 DEF MarkSlot
<1>9. CASE LoadCount
  BY <1>9 DEF LoadCount, LoadCounter
<1>10. CASE StoreCount
  BY <1>10 DEF StoreCount
<1>11. CASE CountTerminal
  BY <1>11 DEF CountTerminal
<1>12. CASE MapPage
  BY <1>12 DEF MapPage
<1>13. CASE LoadImage
  BY <1>13 DEF LoadImage
<1>14. CASE SetPcb
  <2> DEFINE s == local[run].slot
  <2>1. /\ pc[run] = "pcb" /\ pc' = [pc EXCEPT ![run] = "frame"]
        /\ pcb' = [pcb EXCEPT ![s].parent = ParentOfNew]
        /\ active_pcb' = [active_pcb EXCEPT ![run] = s]
        /\ UNCHANGED <<num_on_terminal, kstack, executing_terminal>>
    BY <1>14 DEF SetPcb
  <2>2. s \in Slots
    BY <2>1 DEF ThreadOK
  <2>3. CASE t = run
    BY <2>1, <2>2, <2>3 DEF ParentOfNew, Pcb
  <2>4. CASE t # run
    <3>1. ASSUME Nested(t), pc[t] \in Entering
          PROVE  active_pcb[t] # s
      <4>1. Linked(ch, t) /\ Apart(ch, run)
        BY DEF ForestInv
      <4>2. Depth(t) = num_on_terminal[t] /\ Depth(t) \in Nat \ {0}
        BY <3>1 DEF Depth
      <4>3. ch[t][Depth(t)] = active_pcb[t]
        BY <4>1, <4>2, <3>1 DEF Linked, Top
      <4> QED
        BY <4>1, <4>2, <4>3, <2>1 DEF Apart
    <3> QED
      BY <2>1, <2>2, <2>4, <3>1
  <2> QED
    BY <2>3, <2>4
<1>15. CASE SaveFrame
  <2>1. \A s \in Slots : pcb'[s].parent = pcb[s].parent
    BY <1>15 DEF SaveFrame, Pcb
  <2> QED
    BY <1>15, <2>1 DEF SaveFrame, ThreadOK
<1>16. CASE EnterUser
  BY <1>16 DEF EnterUser, LeaveKernel
<1>17. CASE PickCurrent
  BY <1>17 DEF PickCurrent
<1>18. CASE LoadUncount
  BY <1>18 DEF LoadUncount, LoadCounter
<1>19. CASE StoreUncount
  BY <1>19 DEF StoreUncount
<1>20. CASE UncountTerminal
  BY <1>20 DEF UncountTerminal
<1>21. CASE FreeSlot
  BY <1>21 DEF FreeSlot
<1>22. CASE Unwind
  <2>1. HaltOK(run)
    BY DEF AliveInv, ReadyOK, Alive
  <2> QED
    BY <1>22, <2>1, NullNotASlot DEF Unwind, RelaunchShell, HaltOK, ThreadOK,
       Pcb
<1>23. CASE RestoreParent
  BY <1>23 DEF RestoreParent, LeaveKernel
<1>24. CASE Halt
  BY <1>24, <1>a DEF Halt, Trap
<1>25. CASE Read
  BY <1>25, <1>a DEF Read, Trap
<1>26. CASE GetArgs
  BY <1>26, <1>a DEF GetArgs, Trap
<1>27. CASE ReadReturns
  BY <1>27 DEF ReadReturns, LeaveKernel
<1>28. CASE LaunchShell
  <2>1. PICK n \in Terminals :
          /\ num_on_terminal[n] = 0 /\ num_on_terminal[0] # 0
          /\ n # run
          /\ pc' = [pc EXCEPT ![n] = "exec"]
          /\ kstack' = [kstack EXCEPT ![run] = StackInUse, ![n] = StackInUse]
          /\ UNCHANGED <<counts, links>>
    BY <1>28 DEF LaunchShell, Tick
  <2>2. kstack'[run] = IF pc[run] = "user" THEN esp0 ELSE kstack[run]
    BY <2>1 DEF StackInUse
  <2> QED
    BY <2>1, <2>2, <1>a
<1>29. CASE SwitchTo
  <2>1. PICK n \in Terminals :
          /\ n # run
          /\ kstack' = [u \in Terminals |->
                 IF num_on_terminal[u] = 0 \/ (u = n /\ pc[n] = "user")
                 THEN NULL ELSE IF u = run THEN StackInUse ELSE kstack[u]]
          /\ pc'[t] \in {"none", "fault", pc[t]}
          /\ UNCHANGED <<counts, links>>
    BY <1>29 DEF SwitchTo, Tick
  <2> QED
    BY <2>1, <1>a DEF StackInUse
<1>30. ASSUME NEW n \in Terminals, SwitchDisplay(n) PROVE StackOK(t)'
  BY <1>30 DEF SwitchDisplay
<1>31. CASE UNCHANGED vars
  BY <1>31 DEF vars
<1> QED
  BY <1>1, <1>2, <1>3, <1>4, <1>5, <1>6, <1>7, <1>8, <1>9, <1>10, <1>11, <1>12,
     <1>13, <1>14, <1>15, <1>16, <1>17, <1>18, <1>19, <1>20, <1>21, <1>22,
     <1>23, <1>24, <1>25, <1>26, <1>27, <1>28, <1>29, <1>30, <1>31 DEF Next,
     ExecuteStep, HaltStep, UserStep, TimerStep

\* The chain of a thread, as a step that concerns another thread needs it.
LEMMA ApartOf ==
  ASSUME NEW ch, ForestInv(ch), NEW t \in Terminals, pc[t] \in Holding,
         NEW u \in Terminals \ {t}
  PROVE  /\ pc[u] \in Holding => local[u].slot # local[t].slot
         /\ Depth(u) > 0 => Top(u) # local[t].slot
<1>1. Apart(ch, t) /\ Linked(ch, u) /\ Depth(u) \in Nat
  BY DEF ForestInv, Linked
<1>2. Depth(u) > 0 => Depth(u) \in 1 .. Depth(u)
  BY <1>1
<1> QED
  BY <1>1, <1>2 DEF Apart, Linked

\* Between the end of the count and the release of its slot, nobody changes
\* the PCB of the process that ends.
LEMMA StepFree ==
  ASSUME NEW ch, SafePreemption, SoundWith(ch), ~hist.overrun, TypeInv',
         [Next]_vars
  PROVE  \A t \in Terminals : FreeOK(t)'
<1> SUFFICES ASSUME NEW t \in Terminals PROVE FreeOK(t)'
  OBVIOUS
<1> USE DEF SoundWith, ThreadsInv, ShapeOK, FreeOK
<1> USE DEF TypeInv, TypeOK, run, At, Goto, SetLocal, SafeRoot
<1> USE DEF terminal, counts, links, mmu, content, thread
<1>1. ASSUME NEW c \in Commands, Execute(c) PROVE FreeOK(t)'
  BY <1>1 DEF Execute, Trap
<1>2. CASE CheckLimit
  BY <1>2 DEF CheckLimit, Fail
<1>3. CASE ParseCommand
  BY <1>3 DEF ParseCommand
<1>4. CASE LookUp
  <2>1. /\ pc[run] = "lookup" /\ UNCHANGED <<num_on_terminal, pcb>>
        /\ \A u \in Terminals \ {run} : local'[u] = local[u]
        /\ \/ Fail
           \/ \E p \in {"refuse", "alloc"} : pc' = [pc EXCEPT ![run] = p]
    BY <1>4 DEF LookUp, Fail
  <2> QED
    BY <2>1 DEF Fail
<1>5. CASE LoadRefused
  BY <1>5 DEF LoadRefused, LoadCounter
<1>6. CASE StoreRefused
  BY <1>6 DEF StoreRefused, Fail
<1>7. CASE SearchSlot
  BY <1>7 DEF SearchSlot
<1>8. CASE MarkSlot
  BY <1>8 DEF MarkSlot
<1>9. CASE LoadCount
  BY <1>9 DEF LoadCount, LoadCounter
<1>10. CASE StoreCount
  BY <1>10 DEF StoreCount
<1>11. CASE CountTerminal
  BY <1>11 DEF CountTerminal
<1>12. CASE MapPage
  BY <1>12 DEF MapPage
<1>13. CASE LoadImage
  BY <1>13 DEF LoadImage
<1>14. CASE SetPcb
  <2>1. /\ pc[run] = "pcb" /\ pc' = [pc EXCEPT ![run] = "frame"]
        /\ pcb' = [pcb EXCEPT ![local[run].slot].parent = ParentOfNew]
        /\ UNCHANGED <<num_on_terminal, local>>
    BY <1>14 DEF SetPcb
  <2>2. ASSUME pc[t] = "free", t # run
        PROVE  local[run].slot # local[t].slot
    BY <2>1, <2>2, ApartOf DEF Holding, Filling, Linking
  <2> QED
    BY <2>1, <2>2 DEF ThreadOK
<1>15. CASE SaveFrame
  <2>1. /\ pc[run] = "frame" /\ pc' = [pc EXCEPT ![run] = "enter"]
        /\ pcb' = [pcb EXCEPT ![active_pcb[run]].esp = kstack[run],
                              ![active_pcb[run]].curr_esp0 = esp0]
        /\ UNCHANGED <<num_on_terminal, local>>
    BY <1>15 DEF SaveFrame
  <2>2. ASSUME pc[t] = "free", t # run
        PROVE  active_pcb[run] # local[t].slot
    <3>1. Depth(run) > 0 /\ Top(run) = active_pcb[run]
      BY <2>1 DEF Depth, Top
    <3> QED
      BY <3>1, <2>2, ApartOf DEF Holding
  <2> QED
    BY <2>1, <2>2 DEF ThreadOK
<1>16. CASE EnterUser
  BY <1>16 DEF EnterUser, LeaveKernel
<1>17. CASE PickCurrent
  BY <1>17 DEF PickCurrent
<1>18. CASE LoadUncount
  BY <1>18 DEF LoadUncount, LoadCounter
<1>19. CASE StoreUncount
  BY <1>19 DEF StoreUncount
<1>20. CASE UncountTerminal
  <2> DEFINE n == num_on_terminal[run]
              s == local[run].slot
  <2>1. /\ pc[run] = "leave" /\ pc' = [pc EXCEPT ![run] = "free"]
        /\ num_on_terminal' = [num_on_terminal EXCEPT ![run] = n - 1]
        /\ UNCHANGED <<local, pcb>>
    BY <1>20 DEF UncountTerminal
  <2>2. n \in Nat \ {0} /\ s = active_pcb[run]
    BY <2>1 DEF LocalOK, Leaving
  <2>3. Linked(ch, run) /\ Depth(run) = n /\ Top(run) = s
    BY <2>1, <2>2 DEF ForestInv, Depth, Top
  <2>4. n = 1 => pcb[s].parent = NULL
    BY <2>3, <2>2 DEF Linked
  <2>5. n # 1 => pcb[s].curr_esp0 = pcb[s].parent
    <3>1. n # 1 => n - 1 \in 1 .. Depth(run) - 1 /\ n - 1 + 1 = n
      BY <2>2, <2>3
    <3> QED
      BY <3>1, <2>1, <2>2, <2>3 DEF Linked
  <2> QED
    BY <2>1, <2>2, <2>4, <2>5
<1>21. CASE FreeSlot
  BY <1>21 DEF FreeSlot
<1>22. CASE Unwind
  BY <1>22 DEF Unwind, RelaunchShell
<1>23. CASE RestoreParent
  BY <1>23 DEF RestoreParent, LeaveKernel
<1>24. CASE Halt
  BY <1>24 DEF Halt, Trap
<1>25. CASE Read
  BY <1>25 DEF Read, Trap
<1>26. CASE GetArgs
  BY <1>26 DEF GetArgs, Trap
<1>27. CASE ReadReturns
  BY <1>27 DEF ReadReturns, LeaveKernel
<1>28. CASE LaunchShell
  BY <1>28 DEF LaunchShell, Tick
<1>29. CASE SwitchTo
  BY <1>29 DEF SwitchTo, Tick
<1>30. ASSUME NEW n \in Terminals, SwitchDisplay(n) PROVE FreeOK(t)'
  BY <1>30 DEF SwitchDisplay
<1>31. CASE UNCHANGED vars
  BY <1>31 DEF vars
<1> QED
  BY <1>1, <1>2, <1>3, <1>4, <1>5, <1>6, <1>7, <1>8, <1>9, <1>10, <1>11, <1>12,
     <1>13, <1>14, <1>15, <1>16, <1>17, <1>18, <1>19, <1>20, <1>21, <1>22,
     <1>23, <1>24, <1>25, <1>26, <1>27, <1>28, <1>29, <1>30, <1>31 DEF Next,
     ExecuteStep, HaltStep, UserStep, TimerStep

\* A terminal that waits for the launch of the next.
LEMMA WaitingLaunch ==
  ASSUME NEW t \in Terminals, t # executing_terminal, Alive(t),
         executing_terminal \in Terminals
  PROVE  /\ t < executing_terminal
         /\ \A u \in t + 1 .. executing_terminal : Launching(u)
         /\ Launching(executing_terminal)
BY DEF Alive, Waiting, run, Terminals

\* The same of the next state.
LEMMA WaitingLaunchNext ==
  ASSUME NEW t \in Terminals, t # executing_terminal', Alive(t)',
         executing_terminal' \in Terminals
  PROVE  /\ t < executing_terminal'
         /\ \A u \in t + 1 .. executing_terminal' : Launching(u)'
         /\ Launching(executing_terminal)'
BY DEF Alive, Waiting, run, Terminals

\* A terminal other than the one that runs, to which the CPU may still go
\* back, keeps its thread and everything that thread will find.
Kept(t) ==
  /\ Alive(t)
  /\ pc'[t] = pc[t] /\ local'[t] = local[t]
  /\ num_on_terminal'[t] = num_on_terminal[t]
  /\ UNCHANGED <<links, mmu, image>>
  /\ num_process_executing' <= num_process_executing
  /\ processes' = processes
  /\ parsed' \in {parsed, Shell}

\* A terminal that goes on waiting finds its page, tss.esp0 and locals as they
\* were: only the thread that runs touches them.
LEMMA WaitersKept ==
  ASSUME NEW ch, SafePreemption, SoundWith(ch), ~hist.overrun, TypeInv',
         ExecuteStep \/ HaltStep \/ UserStep \/ ReadReturns,
         NEW t \in Terminals, Alive(t)', t # run
  PROVE  Kept(t)
<1> USE DEF SoundWith, ThreadsInv, ShapeOK, Kept
<1> USE DEF TypeInv, TypeOK, run, At, Goto, SetLocal, SafeRoot
<1> USE DEF terminal, counts, links, mmu, content, thread
<1> USE DEF Choosing, NoLocal
<1>t. executing_terminal \in Int /\ t \in Int
  BY DEF Terminals
<1>u. ASSUME executing_terminal' = executing_terminal
      PROVE  /\ num_on_terminal'[run] = 0
             /\ pc'[run] \in Choosing
             /\ local'[run].caller # run
  <2>1. Launching(run)'
    BY <1>u, WaitingLaunchNext
  <2> QED
    BY <2>1, <1>u, <1>t DEF Launching
<1>v. ASSUME executing_terminal' = executing_terminal,
             num_on_terminal'[run] = num_on_terminal[run],
             pc[run] \in Choosing,
             local'[run].caller = local[run].caller,
             \A u \in Terminals \ {run} :
               Launching(u)' => Launching(u)
      PROVE  Alive(t)
  <2>1. /\ t < executing_terminal
        /\ \A u \in t + 1 .. executing_terminal : Launching(u)'
        /\ Launching(executing_terminal)'
    BY <1>v, WaitingLaunchNext
  <2>2. Launching(executing_terminal)
    BY <2>1, <1>v DEF Launching
  <2>3. \A u \in t + 1 .. executing_terminal : u \in Terminals
    BY DEF Terminals
  <2> QED
    BY <2>1, <2>2, <2>3, <1>v DEF Alive, Waiting
<1>f. ASSUME Fail, pc[run] \in Choosing, UNCHANGED <<num_on_terminal>>
      PROVE  Alive(t) /\ pc'[t] = pc[t] /\ local'[t] = local[t]
  <2> DEFINE back == local[run].caller
  <2>1. LocalOK(run) /\ back \in Terminals
    BY DEF Local
  <2>2. CASE back = run
    BY <2>2, <1>f, <1>u DEF Fail
  <2>3. CASE back # run
    <3>1. num_on_terminal[run] = 0 /\ back = run - 1
      BY <2>1, <2>3, <1>f DEF LocalOK
    <3>2. Launching(run)
      BY <3>1, <1>f DEF Launching
    <3>3. executing_terminal' = back
          /\ pc' = [pc EXCEPT ![run] = "none"]
          /\ local' = [local EXCEPT ![run] = NoLocal]
      BY <1>f, <2>3 DEF Fail
    <3>4. \A u \in Terminals : Launching(u)' => Launching(u)
      BY <3>2, <3>3, <1>f DEF Launching
    <3>5. t = back \/ (t < back /\ \A u \in t + 1 .. back : Launching(u)')
      BY <3>3, <2>1, WaitingLaunchNext
    <3>6. \A u \in t + 1 .. run :
            u \in Terminals /\ (u = run \/ u \in t + 1 .. back)
      <4>1. run \in Terminals /\ TERM_NUM \in Nat
        BY SizesAssumption
      <4> HIDE DEF TypeOK, TypeInv, SoundWith, ThreadsInv, Kept
      <4> QED
        BY <4>1, <3>1, <2>1, <1>t DEF Terminals
    <3>7. t < run /\ \A u \in t + 1 .. run : Launching(u)
      <4>1. t < run
        BY <3>1, <3>5, <2>1, <1>t DEF Terminals
      <4>2. ASSUME NEW u \in t + 1 .. run PROVE Launching(u)
        <5>1. CASE u = run
          BY <5>1, <3>2
        <5>2. CASE u # run
          <6> HIDE DEF TypeOK, TypeInv, SoundWith, ThreadsInv, Kept
          <6>1. u \in Terminals /\ u \in t + 1 .. back
            BY <5>2, <3>6
          <6>2. ~(t = back)
            BY <6>1, <2>1, <1>t DEF Terminals
          <6> QED
            BY <6>1, <6>2, <3>4, <3>5
        <5> QED
          BY <5>1, <5>2
      <4> QED
        BY <4>1, <4>2
    <3>8. Alive(t)
      BY <3>7 DEF Alive, Waiting
    <3> QED
      BY <3>8, <3>3
  <2> QED
    BY <2>2, <2>3
<1>1. ASSUME NEW c \in Commands, Execute(c) PROVE Kept(t)
  BY <1>1, <1>u DEF Execute, Trap
<1>2. CASE CheckLimit
  <2>1. CASE AtLimit
    BY <1>2, <2>1, <1>f DEF CheckLimit
  <2>2. CASE ~AtLimit
    <3>1. Alive(t)
      BY <1>2, <2>2, <1>v DEF CheckLimit, Launching
    <3> QED
      BY <1>2, <2>2, <3>1 DEF CheckLimit
  <2> QED
    BY <2>1, <2>2
<1>3. CASE ParseCommand
  <2>1. Alive(t)
    BY <1>3, <1>v DEF ParseCommand, Launching
  <2>2. num_on_terminal[run] = 0
    BY <1>3, <1>u DEF ParseCommand
  <2>3. local[run].command = Shell
    BY <1>3, <2>2 DEF ParseCommand, LocalOK
  <2> QED
    BY <1>3, <2>1, <2>3 DEF ParseCommand
<1>4. CASE LookUp
  <2>1. /\ pc[run] = "lookup" /\ UNCHANGED <<num_on_terminal, links, mmu>>
        /\ UNCHANGED <<num_process_executing, processes, image, parsed>>
    BY <1>4 DEF LookUp
  <2>2. CASE Fail
    BY <2>1, <2>2, <1>f
  <2>3. CASE ~Fail
    <3>1. /\ UNCHANGED executing_terminal
          /\ \/ local' = local
             \/ local' = [local EXCEPT ![run] =
                            [local[run] EXCEPT !.file = parsed, !.slot = 0]]
          /\ \E p \in {"refuse", "alloc"} : pc' = [pc EXCEPT ![run] = p]
      BY <1>4, <2>3 DEF LookUp
    <3>2. /\ local'[run].caller = local[run].caller
          /\ \A u \in Terminals \ {run} : local'[u] = local[u]
      <4>1. CASE local' = local
        BY <4>1
      <4>2. CASE local' # local
        <5>1. local' = [local EXCEPT ![run] =
                          [local[run] EXCEPT !.file = parsed, !.slot = 0]]
          BY <3>1, <4>2
        <5> HIDE DEF Kept, ThreadsInv
        <5> QED
          BY <5>1 DEF Local
      <4> QED
        BY <4>1, <4>2
    <3>0. \A u \in Terminals \ {run} : pc'[u] = pc[u]
      BY <3>1
    <3>3. Alive(t)
      BY <2>1, <3>0, <3>1, <3>2, <1>v DEF Launching
    <3> QED
      BY <2>1, <3>0, <3>2, <3>3
  <2> QED
    BY <2>2, <2>3
<1>5. CASE LoadRefused
  <2>1. pc[run] = "refuse" /\ UNCHANGED <<executing_terminal, num_on_terminal>>
    BY <1>5 DEF LoadRefused, LoadCounter
  <2> QED
    BY <2>1, <1>u, CommandsAssumption DEF LocalOK
<1>6. CASE StoreRefused
  <2>1. pc[run] = "lower" /\ Fail /\ UNCHANGED <<num_on_terminal>>
    BY <1>6 DEF StoreRefused
  <2>2. local[run].caller = run
    BY <2>1, CommandsAssumption DEF LocalOK
  <2>3. /\ executing_terminal' = executing_terminal
        /\ pc'[run] \in {"fault", "user"}
    BY <2>1, <2>2 DEF Fail
  <2> QED
    BY <2>3, <1>u
<1>7. CASE SearchSlot
  <2>1. /\ pc[run] = "alloc"
        /\ UNCHANGED <<executing_terminal, num_on_terminal>>
        /\ UNCHANGED <<num_process_executing, processes, image, parsed>>
        /\ UNCHANGED <<links, mmu>>
        /\ \E p \in {"alloc", "mark", "count"} : pc' = [pc EXCEPT ![run] = p]
    BY <1>7 DEF SearchSlot
  <2>2. /\ local'[run].caller = local[run].caller
        /\ \A u \in Terminals \ {run} : /\ pc'[u] = pc[u]
                                        /\ local'[u] = local[u]
    BY <1>7, <2>1 DEF SearchSlot, Local
  <2>3. Alive(t)
    BY <2>1, <2>2, <1>v DEF Launching
  <2> QED
    BY <2>1, <2>2, <2>3
<1>8. CASE MarkSlot
  BY <1>8, <1>u DEF MarkSlot
<1>9. CASE LoadCount
  BY <1>9, <1>u DEF LoadCount, LoadCounter
<1>10. CASE StoreCount
  BY <1>10, <1>u DEF StoreCount
<1>11. CASE CountTerminal
  BY <1>11, <1>u DEF CountTerminal
<1>12. CASE MapPage
  BY <1>12, <1>u DEF MapPage
<1>13. CASE LoadImage
  BY <1>13, <1>u DEF LoadImage
<1>14. CASE SetPcb
  BY <1>14, <1>u DEF SetPcb
<1>15. CASE SaveFrame
  BY <1>15, <1>u DEF SaveFrame
<1>16. CASE EnterUser
  BY <1>16, <1>u DEF EnterUser, LeaveKernel
<1>17. CASE PickCurrent
  BY <1>17, <1>u DEF PickCurrent
<1>18. CASE LoadUncount
  BY <1>18, <1>u DEF LoadUncount, LoadCounter
<1>19. CASE StoreUncount
  BY <1>19, <1>u DEF StoreUncount
<1>20. CASE UncountTerminal
  BY <1>20, <1>u DEF UncountTerminal
<1>21. CASE FreeSlot
  BY <1>21, <1>u DEF FreeSlot
<1>22. CASE Unwind
  BY <1>22, <1>u DEF Unwind, RelaunchShell
<1>23. CASE RestoreParent
  BY <1>23, <1>u DEF RestoreParent, LeaveKernel
<1>24. CASE Halt
  BY <1>24, <1>u DEF Halt, Trap
<1>25. CASE Read
  BY <1>25, <1>u DEF Read, Trap
<1>26. CASE GetArgs
  BY <1>26, <1>u DEF GetArgs, Trap
<1>27. CASE ReadReturns
  BY <1>27, <1>u DEF ReadReturns, LeaveKernel
<1> QED
  BY <1>1, <1>2, <1>3, <1>4, <1>5, <1>6, <1>7, <1>8, <1>9, <1>10, <1>11, <1>12,
     <1>13, <1>14, <1>15, <1>16, <1>17, <1>18, <1>19, <1>20, <1>21, <1>22,
     <1>23, <1>24, <1>25, <1>26, <1>27 DEF ExecuteStep, HaltStep, UserStep

\* The counter that sys_execute tests is never above the limit, and below it
\* while a call is between slot and counter.
LEMMA CounterBound ==
  ASSUME TypeOK, Counted
  PROVE  /\ num_process_executing <= Cardinality(processes)
         /\ num_process_executing <= MAX_NUM_PROCESS
         /\ Uncounted # {} => num_process_executing < MAX_NUM_PROCESS
         /\ IsFiniteSet(processes) /\ IsFiniteSet(Uncounted)
<1>1. /\ IsFiniteSet(Slots) /\ Cardinality(Slots) = MAX_NUM_PROCESS
      /\ IsFiniteSet(Terminals)
  BY FS_Interval, SizesAssumption DEF Slots, Terminals
<1>2. /\ IsFiniteSet(processes)
      /\ Cardinality(processes) <= Cardinality(Slots)
      /\ IsFiniteSet(Uncounted)
  BY <1>1, FS_Subset DEF TypeOK, Uncounted
<1>3. Cardinality(processes) \in Nat /\ Cardinality(Uncounted) \in Nat
  BY <1>2, FS_CardinalityType
<1>4. Uncounted # {} => Cardinality(Uncounted) # 0
  BY <1>2, FS_EmptySet
<1>5. /\ num_process_executing \in Int /\ hist.drift \in Nat
      /\ Cardinality(processes) =
           num_process_executing + hist.drift + Cardinality(Uncounted)
  BY DEF TypeOK, History, Counted
<1> QED
  BY <1>1, <1>2, <1>3, <1>4, <1>5, SizesAssumption

\* Hence it is as ready to go on as it was.
LEMMA KeptReady ==
  ASSUME NEW ch, SafePreemption, SoundWith(ch), NEW t \in Terminals, t # run,
         Kept(t), TypeInv'
  PROVE  ReadyOK(t)'
<1>1. ReadyOK(t) /\ ShapeOK(t) /\ LocalOK(t)
  BY DEF SoundWith, AliveInv, ThreadsInv, Kept
<1>2. /\ pc'[t] = pc[t] /\ local'[t] = local[t]
      /\ num_on_terminal'[t] = num_on_terminal[t]
      /\ UNCHANGED <<active_pcb, pcb, vir_page, esp0, image>>
      /\ num_process_executing' <= num_process_executing
      /\ processes' = processes
      /\ parsed' \in {parsed, Shell}
  BY DEF Kept, links, mmu
<1>3. /\ num_process_executing \in Int /\ num_process_executing' \in Int
  BY DEF SoundWith, TypeInv, TypeOK
<1>4. PageOK(t)' /\ Esp0OK(t)' /\ HaltOK(t)' /\ pc'[t] # "none"
  BY <1>1, <1>2 DEF ReadyOK, PageOK, Esp0OK, HaltOK, Nested
<1>5. RoomOK(t)'
  BY <1>1, <1>2, <1>3 DEF ReadyOK, RoomOK, Restarting
<1>6. ParsedOK(t)'
  BY <1>1, <1>2 DEF ReadyOK, ParsedOK, ShapeOK, LocalOK, Choosing,
     SafePreemption, SafeNested
<1>7. SlotOK(t)'
  <2>1. pc[t] \notin {"lower", "add", "subtract"}
    BY <1>1 DEF ShapeOK, SafePreemption, SafeNested, SafeRoot
  <2> QED
    BY <2>1, <1>1, <1>2 DEF ReadyOK, SlotOK, NoGap
<1> QED
  BY <1>4, <1>5, <1>6, <1>7 DEF ReadyOK

\* The thread that runs, after a step of its own.
LEMMA RunReady ==
  ASSUME NEW ch, SafePreemption, SoundWith(ch), ~hist.overrun, TypeInv',
         ExecuteStep \/ HaltStep \/ UserStep \/ ReadReturns,
         executing_terminal' = executing_terminal
  PROVE  ReadyOK(run)'
<1> USE DEF TypeInv, TypeOK, run, At, Goto, SetLocal
<1> USE DEF terminal, counts, links, mmu, content, thread
<1>a. ReadyOK(run) /\ ShapeOK(run) /\ LocalOK(run) /\ StackOK(run)
     /\ FreeOK(run)
  BY DEF SoundWith, AliveInv, ThreadsInv, Alive
<1>b. num_process_executing <= MAX_NUM_PROCESS
  BY CounterBound DEF SoundWith
<1>c. /\ executing_terminal \in Terminals /\ TypeInv
      /\ ThreadOK(executing_terminal)
  BY DEF SoundWith
<1> USE DEF ReadyOK, PageOK, Esp0OK, ParsedOK, HaltOK, RoomOK, Restarting,
   SlotOK
<1> USE DEF ShapeOK, LocalOK, StackOK, Nested
<1> USE DEF Choosing, Filling, Linking, Entering, Leaving, SafeRoot
<1>1. ASSUME NEW c \in Commands, Execute(c) PROVE ReadyOK(run)'
  BY <1>1, <1>a, <1>b, <1>c DEF Execute, Trap
<1>2. CASE CheckLimit
  BY <1>2, <1>a, <1>b, <1>c DEF CheckLimit, Fail, AtLimit
<1>3. CASE ParseCommand
  BY <1>3, <1>a, <1>b, <1>c DEF ParseCommand
<1>4. CASE LookUp
  <2>1. /\ pc[run] = "lookup"
        /\ UNCHANGED <<num_on_terminal, active_pcb, vir_page, esp0>>
        /\ UNCHANGED <<num_process_executing, processes>>
    BY <1>4 DEF LookUp
  <2>2. CASE Fail
    BY <2>1, <2>2, <1>a, <1>c DEF Fail
  <2>3. CASE ~Fail
    <3>1. CASE pc' = [pc EXCEPT ![run] = "refuse"]
      BY <3>1, <2>1, <1>a, <1>c
    <3>2. CASE pc' # [pc EXCEPT ![run] = "refuse"]
      <4>1. /\ pc' = [pc EXCEPT ![run] = "alloc"]
            /\ local' = [local EXCEPT ![run] =
                           [local[run] EXCEPT !.file = parsed, !.slot = 0]]
        BY <1>4, <2>3, <3>2 DEF LookUp
      <4>2. local'[run].slot = 0
        BY <4>1, <1>c DEF Local
      <4>3. SlotOK(run)'
        BY <4>1, <4>2, <1>c
      <4>4. NoGap' = NoGap
        BY DEF NoGap
      <4> QED
        BY <4>1, <4>3, <4>4, <2>1, <1>a, <1>c
    <3> QED
      BY <3>1, <3>2
  <2> QED
    BY <2>2, <2>3
<1>5. CASE LoadRefused
  BY <1>5, <1>a, <1>b, <1>c DEF LoadRefused, LoadCounter
<1>6. CASE StoreRefused
  <2>1. /\ pc[run] = "lower" /\ Fail
        /\ UNCHANGED <<num_on_terminal, active_pcb, vir_page, esp0>>
    BY <1>6 DEF StoreRefused
  <2> QED
    BY <2>1, <1>a, <1>c DEF Fail
<1>7. CASE SearchSlot
  <2> DEFINE i == local[run].slot
  <2>1. /\ pc[run] = "alloc" /\ i \in Slots
        /\ UNCHANGED <<num_on_terminal, active_pcb, vir_page, esp0>>
        /\ UNCHANGED <<num_process_executing, processes>>
    BY <1>7, <1>c DEF SearchSlot, ThreadOK
  <2>2. CASE i \notin processes
    <3>1. pc' = [pc EXCEPT ![run] = "mark"] /\ local' = local
      BY <1>7, <2>2 DEF SearchSlot
    <3> QED
      BY <3>1, <2>1, <2>2, <1>a, <1>c
  <2>3. CASE i \in processes /\ i + 1 \in Slots
    <3>1. pc' = pc /\ local' = [local EXCEPT ![run] =
                                  [local[run] EXCEPT !.slot = i + 1]]
      BY <1>7, <2>3 DEF SearchSlot
    <3>2. local'[run].slot = i + 1
      BY <3>1, <1>c DEF Local
    <3>3. NoGap' = NoGap
      BY DEF NoGap
    <3>4. ASSUME NoGap, NEW s \in 0 .. i PROVE s \in processes
      BY <3>4, <2>1, <2>3, <1>a DEF Slots
    <3>5. SlotOK(run)'
      BY <3>1, <3>2, <3>3, <3>4, <2>1, <1>c DEF Slots
    <3> QED
      BY <3>1, <3>3, <3>5, <2>1, <1>a, <1>c
  <2>4. CASE i \in processes /\ i + 1 \notin Slots
    BY <1>7, <2>1, <2>4, <1>a, <1>c DEF SearchSlot
  <2> QED
    BY <2>2, <2>3, <2>4
<1>8. CASE MarkSlot
  BY <1>8, <1>a, <1>b, <1>c DEF MarkSlot
<1>9. CASE LoadCount
  BY <1>9, <1>a, <1>b, <1>c DEF LoadCount, LoadCounter
<1>10. CASE StoreCount
  BY <1>10, <1>a, <1>b, <1>c DEF StoreCount
<1>11. CASE CountTerminal
  BY <1>11, <1>a, <1>b, <1>c DEF CountTerminal
<1>12. CASE MapPage
  BY <1>12, <1>a, <1>c DEF MapPage, ProcessMap
<1>13. CASE LoadImage
  BY <1>13, <1>a, <1>b, <1>c DEF LoadImage
<1>14. CASE SetPcb
  <2> DEFINE s == local[run].slot
  <2>1. /\ pc[run] = "pcb" /\ pc' = [pc EXCEPT ![run] = "frame"]
        /\ pcb' = [pcb EXCEPT ![s].parent = ParentOfNew]
        /\ active_pcb' = [active_pcb EXCEPT ![run] = s]
        /\ UNCHANGED <<num_on_terminal, vir_page, esp0>>
    BY <1>14 DEF SetPcb
  <2>2. s \in Slots
    BY <2>1, <1>c DEF ThreadOK
  <2>3. pcb'[s].parent = ParentOfNew
    BY <2>1, <2>2, <1>c DEF Pcb
  <2>4. vir_page' = s /\ (num_on_terminal[run] > 1 => esp0 = active_pcb[run])
    BY <2>1, <1>a
  <2> QED
    BY <2>1, <2>2, <2>3, <2>4, <1>a, <1>c DEF ParentOfNew
<1>15. CASE SaveFrame
  BY <1>15, <1>a, <1>b, <1>c DEF SaveFrame
<1>16. CASE EnterUser
  BY <1>16, <1>a, <1>c DEF EnterUser, LeaveKernel, SetEsp0, NoLocal
<1>17. CASE PickCurrent
  BY <1>17, <1>a, <1>b, <1>c DEF PickCurrent
<1>18. CASE LoadUncount
  BY <1>18, <1>a, <1>b, <1>c DEF LoadUncount, LoadCounter
<1>19. CASE StoreUncount
  BY <1>19, <1>a, <1>b, <1>c DEF StoreUncount
<1>20. CASE UncountTerminal
  <2> DEFINE n == num_on_terminal[run]
  <2>1. /\ pc[run] = "leave" /\ pc' = [pc EXCEPT ![run] = "free"]
        /\ num_on_terminal' = [num_on_terminal EXCEPT ![run] = n - 1]
        /\ UNCHANGED <<num_process_executing, local>>
    BY <1>20 DEF UncountTerminal
  <2>2. run \in Uncounted
    BY <2>1, <1>c DEF Uncounted
  <2>3. num_process_executing < MAX_NUM_PROCESS
    BY <2>2, CounterBound DEF SoundWith
  <2> QED
    BY <2>1, <2>3, <1>a, <1>c
<1>21. CASE FreeSlot
  <2>1. /\ pc[run] = "free" /\ pc' = [pc EXCEPT ![run] = "unwind"]
        /\ UNCHANGED <<num_on_terminal, num_process_executing, local, pcb>>
    BY <1>21 DEF FreeSlot
  <2> QED
    BY <2>1, <1>a, <1>b, <1>c DEF FreeOK
<1>22. CASE Unwind
  <2> DEFINE p == pcb[local[run].slot]
  <2>1. pc[run] = "unwind" /\ p \in Pcb
    BY <1>22, <1>c DEF Unwind, ThreadOK
  <2>2. p.parent = NULL <=> num_on_terminal[run] = 0
    BY <2>1, <1>a, NullNotASlot DEF Pcb
  <2>3. CASE p.parent = NULL
    BY <1>22, <2>1, <2>2, <2>3, <1>a, <1>c DEF Unwind, RelaunchShell
  <2>4. CASE p.parent # NULL
    BY <1>22, <2>1, <2>2, <2>4, <1>a, <1>c DEF Unwind
  <2> QED
    BY <2>3, <2>4
<1>23. CASE RestoreParent
  BY <1>23, <1>a, <1>c DEF RestoreParent, LeaveKernel, ProcessMap, SetEsp0,
     NoLocal
<1>24. CASE Halt
  BY <1>24, <1>a, <1>b, <1>c DEF Halt, Trap
<1>25. CASE Read
  BY <1>25, <1>a, <1>b, <1>c DEF Read, Trap
<1>26. CASE GetArgs
  BY <1>26, <1>a, <1>b, <1>c DEF GetArgs, Trap
<1>27. CASE ReadReturns
  BY <1>27, <1>a, <1>b, <1>c DEF ReadReturns, LeaveKernel
<1> QED
  BY <1>1, <1>2, <1>3, <1>4, <1>5, <1>6, <1>7, <1>8, <1>9, <1>10, <1>11, <1>12,
     <1>13, <1>14, <1>15, <1>16, <1>17, <1>18, <1>19, <1>20, <1>21, <1>22,
     <1>23, <1>24, <1>25, <1>26, <1>27 DEF ExecuteStep, HaltStep, UserStep

\* A shell that context_switch starts finds what it needs, and so will the
\* terminals below it.
LEMMA LaunchReady ==
  ASSUME NEW ch, SafePreemption, SoundWith(ch), ~hist.overrun, TypeInv',
         LaunchShell, NEW t \in Terminals, Alive(t)'
  PROVE  ReadyOK(t)'
<1> USE DEF SoundWith, TypeInv, TypeOK, run
<1>1. PICK n \in Terminals :
        /\ num_on_terminal[n] = 0 /\ num_on_terminal[0] # 0
        /\ n = (run + 1) % TERM_NUM
        /\ executing_terminal' = n
        /\ pc' = [pc EXCEPT ![n] = "exec"]
        /\ local' = [local EXCEPT ![n] = [NoLocal EXCEPT !.caller = run]]
        /\ UNCHANGED <<counts, links, mmu, content>>
  BY DEF LaunchShell, Tick, next_scheduled_terminal
<1>2. n = run + 1
  BY <1>1, NextTerminal DEF Terminals
<1>3. run \in Int /\ n \in Int /\ t \in Int /\ n # run
  BY <1>2 DEF Terminals
<1>4. CASE t = n
  <2>1. num_on_terminal'[n] = 0 /\ pc'[n] = "exec" /\ local'[n].caller # n
    BY <1>1, <1>3 DEF NoLocal, counts
  <2> QED
    BY <2>1, <1>4 DEF ReadyOK, PageOK, Esp0OK, ParsedOK, HaltOK, SlotOK,
       RoomOK, Nested, Restarting, Choosing, Entering, Linking
<1>5. CASE t # n
  <2>1. /\ t < n
        /\ \A u \in t + 1 .. n : Launching(u)'
    BY <1>1, <1>5, WaitingLaunchNext
  <2>2. \A u \in t + 1 .. run : Launching(u)' => Launching(u)
    <3>1. \A u \in t + 1 .. run : u \in Terminals /\ u # n
      BY <1>2, <1>3 DEF Terminals
    <3> QED
      BY <3>1, <1>1 DEF Launching, counts
  <2>3. \A u \in t + 1 .. run : u \in t + 1 .. n
    BY <1>2, <1>3
  <2>4. Alive(t)
    BY <2>1, <2>2, <2>3, <1>2, <1>3 DEF Alive, Waiting
  <2>5. ReadyOK(t)
    BY <2>4 DEF AliveInv
  <2>6. /\ pc'[t] = pc[t] /\ local'[t] = local[t]
        /\ UNCHANGED <<num_on_terminal, active_pcb, pcb, vir_page, esp0, image,
                       parsed, num_process_executing, processes>>
    BY <1>1, <1>5 DEF counts, links, mmu, content
  <2> QED
    BY <2>5, <2>6 DEF ReadyOK, PageOK, Esp0OK, ParsedOK, HaltOK, SlotOK,
       RoomOK, Nested, Restarting, NoGap
<1> QED
  BY <1>4, <1>5

\* context_switch gives the terminal it resumes its page and its tss.esp0.
LEMMA SwitchReady ==
  ASSUME NEW ch, SafePreemption, SoundWith(ch), ~hist.overrun, TypeInv',
         SwitchTo, NEW t \in Terminals, Alive(t)',
         \A u \in Terminals : ShapeOK(u)'
  PROVE  ReadyOK(t)'
<1> USE DEF SoundWith, TypeInv, TypeOK, run
<1>1. PICK n \in Terminals :
        /\ num_on_terminal[n] # 0 /\ n # run
        /\ executing_terminal' = n
        /\ IF active_pcb[n] = NULL THEN UNCHANGED mmu
           ELSE vir_page' = active_pcb[n] /\ esp0' = active_pcb[n]
        /\ pc' = [u \in Terminals |->
                    IF num_on_terminal[u] = 0 THEN "none"
                    ELSE IF u = n /\ active_pcb[n] = NULL THEN "fault"
                    ELSE pc[u]]
        /\ local' = [u \in Terminals |-> IF num_on_terminal[u] = 0 THEN NoLocal
                                       ELSE local[u]]
        /\ UNCHANGED <<counts, links, content>>
  BY DEF SwitchTo, Tick, ProcessMap, SetEsp0
<1>2. t = n
  <2> SUFFICES ASSUME t # n PROVE FALSE
    OBVIOUS
  <2>1. Launching(n)'
    BY <1>1, WaitingLaunchNext
  <2> QED
    BY <2>1, <1>1 DEF Launching, counts
<1>3. pc'[n] # "fault"
  BY DEF ShapeOK
<1>4. pc'[n] = pc[n] /\ vir_page' = active_pcb[n] /\ esp0' = active_pcb[n]
  BY <1>1, <1>3
<1>5. /\ pc[n] \in PreemptNested /\ num_on_terminal[n] \in Nat
      /\ num_on_terminal[n] = 1 => pc[n] \notin {"map", "enter"}
  BY <1>1 DEF ThreadsInv, ShapeOK
<1>6. /\ num_on_terminal'[n] = num_on_terminal[n]
      /\ active_pcb'[n] = active_pcb[n]
  BY <1>1 DEF counts, links
<1>7. pc[n] \in SafeNested
  BY <1>5 DEF SafePreemption
<1>8. PageOK(n)' /\ Esp0OK(n)' /\ ParsedOK(n)' /\ HaltOK(n)' /\ pc'[n] # "none"
  BY <1>4, <1>6, <1>7 DEF PageOK, Esp0OK, ParsedOK, HaltOK, SafeNested
<1>9. RoomOK(n)'
  <2>1. /\ num_on_terminal'[n] # 0
        /\ NoGap' => pc[n] \notin {"parse", "lookup", "alloc", "mark"}
    BY <1>1, <1>5, <1>6, <1>7 DEF NoGap, SafeNested
  <2> QED
    BY <2>1, <1>4 DEF RoomOK
<1>10. SlotOK(n)'
  BY <1>4, <1>7, <1>5 DEF SlotOK, SafeNested, NoGap
<1> QED
  BY <1>2, <1>8, <1>9, <1>10 DEF ReadyOK

\* Whoever runs, now or when launches fail, is ready to go on.
LEMMA StepAlive ==
  ASSUME NEW ch, SafePreemption, SoundWith(ch), ~hist.overrun, TypeInv',
         [Next]_vars, \A u \in Terminals : ShapeOK(u)'
  PROVE  AliveInv'
<1> SUFFICES ASSUME NEW t \in Terminals, Alive(t)' PROVE ReadyOK(t)'
  BY DEF AliveInv
<1>1. CASE ExecuteStep \/ HaltStep \/ UserStep \/ ReadReturns
  <2>1. CASE t # run
    BY <1>1, <2>1, WaitersKept, KeptReady
  <2>2. CASE t = run
    <3>1. executing_terminal' = executing_terminal
      <4> SUFFICES ASSUME executing_terminal' # executing_terminal PROVE FALSE
        OBVIOUS
      <4>1. Fail /\ LocalOK(run) /\ pc[run] \in Choosing
        BY <1>1 DEF ExecuteStep, HaltStep, UserStep, ReadReturns, Execute,
           CheckLimit, ParseCommand, LookUp, LoadRefused, StoreRefused,
           SearchSlot, MarkSlot, LoadCount, StoreCount, LoadCounter,
           CountTerminal, MapPage, LoadImage, SetPcb, SaveFrame, EnterUser,
           PickCurrent, LoadUncount, StoreUncount, UncountTerminal, FreeSlot,
           Unwind, RestoreParent, Halt, Read, GetArgs, terminal, At, Choosing,
           SoundWith, ThreadsInv, TypeInv, TypeOK, run
      <4>2. executing_terminal' = local[run].caller
        BY <4>1 DEF Fail
      <4>3. /\ executing_terminal' \in Terminals
            /\ executing_terminal \in Terminals
        BY DEF SoundWith, TypeInv, TypeOK
      <4>4. executing_terminal' = executing_terminal - 1
        BY <4>1, <4>2, <4>3 DEF LocalOK, run
      <4>5. t < executing_terminal'
        BY <4>3, <2>2, WaitingLaunchNext DEF run
      <4> QED
        BY <4>3, <4>4, <4>5, <2>2 DEF Terminals, run
    <3> QED
      BY <1>1, <2>2, <3>1, RunReady DEF run
  <2> QED
    BY <2>1, <2>2
<1>2. CASE LaunchShell
  BY <1>2, LaunchReady
<1>3. CASE SwitchTo
  BY <1>3, SwitchReady
<1>4. CASE UNCHANGED <<executing_terminal, counts, links, mmu, content,
                       thread, hist>>
  <2>1. Alive(t) /\ (ReadyOK(t) => ReadyOK(t)')
    BY <1>4 DEF Alive, Waiting, Launching, run, ReadyOK, PageOK, Esp0OK,
       ParsedOK, HaltOK, SlotOK, RoomOK, Nested, Restarting, NoGap, counts,
       links, mmu,
       content, thread
  <2> QED
    BY <2>1 DEF SoundWith, AliveInv
<1> QED
  BY <1>1, <1>2, <1>3, <1>4 DEF Next, TimerStep, SwitchDisplay, vars, counts,
     links, mmu, content, thread

(***************************************************************************)
(* The chains.                                                             *)
(***************************************************************************)
\* Steps that start and end no process leave the chains as they are.
SameSlot(t) ==
  /\ Depth(t)' = Depth(t)
  /\ (pc'[t] \in Holding) = (pc[t] \in Holding)
  /\ pc[t] \in Holding => local'[t].slot = local[t].slot
SameSlots == processes' = processes /\ \A t \in Terminals : SameSlot(t)

SameChain(ch, t) ==
  /\ Depth(t) > 0 => /\ Top(t)' = Top(t)
                     /\ pc[t] = "frame" => pc'[t] = "frame"
  /\ \A k \in 1 .. Depth(t) :
       /\ pcb'[ch[t][k]] = pcb[ch[t][k]]
       /\ image'[ch[t][k]] = image[ch[t][k]]
       /\ hist'.asked[ch[t][k]] = hist.asked[ch[t][k]]

\* Chains of the same slots still share none.
LEMMA SlotsFrame ==
  ASSUME NEW ch, ForestInv(ch), SameSlots
  PROVE  /\ Distinct(ch)' /\ Busy(ch)'
         /\ \A t \in Terminals : Apart(ch, t)'
<1>1. Distinct(ch)'
  BY DEF ForestInv, SameSlots, SameSlot, Distinct
<1>2. ASSUME NEW t \in Terminals PROVE Apart(ch, t)'
  BY DEF ForestInv, SameSlots, SameSlot, Apart
<1>3. Busy(ch)'
  <2>1. \A s \in Slots : InChain(ch, s)' <=> InChain(ch, s)
    BY DEF SameSlots, SameSlot, InChain
  <2>2. \A s \in Slots : InHolding(s)' <=> InHolding(s)
    BY DEF SameSlots, SameSlot, InHolding
  <2> QED
    BY <2>1, <2>2 DEF ForestInv, SameSlots, SameSlot, Busy
<1> QED
  BY <1>1, <1>2, <1>3

\* A chain whose PCBs and pages stay is still one.
LEMMA ChainFrame ==
  ASSUME NEW ch, NEW t \in Terminals, ForestInv(ch), SameChain(ch, t),
         Depth(t)' = Depth(t)
  PROVE  Linked(ch, t)' /\ Loaded(ch, t)'
<1>1. Linked(ch, t) /\ Loaded(ch, t)
  BY DEF ForestInv
<1>2. Loaded(ch, t)'
  BY <1>1 DEF SameChain, Loaded
<1>3. Depth(t) \in Nat
  BY <1>1 DEF Linked
<1>4. Depth(t) > 0 => 1 \in 1 .. Depth(t)
  BY <1>3
<1>5. \A k \in 1 .. Depth(t) - 1 : k + 1 \in 1 .. Depth(t)
  BY <1>3
<1>6. \A k \in 1 .. Depth(t) - 1 : Depth(t) > 0
  BY <1>3
<1> QED
  BY <1>1, <1>2, <1>3, <1>4, <1>5, <1>6 DEF SameChain, Linked

\* Together: steps that start and end no process keep the forest.
LEMMA ForestFrame ==
  ASSUME NEW ch, ForestInv(ch), SameSlots,
         \A t \in Terminals : SameChain(ch, t)
  PROVE  ForestInv(ch)'
<1>1. \A t \in Terminals : Linked(ch, t)' /\ Loaded(ch, t)'
  BY ChainFrame DEF SameSlots, SameSlot
<1> QED
  BY <1>1, SlotsFrame DEF ForestInv, Chains

\* The processes of a terminal are those of a chain of slots.
LEMMA ChainSlots ==
  ASSUME NEW ch, ForestInv(ch), NEW t \in Terminals, NEW k \in 1 .. Depth(t)
  PROVE  /\ ch[t][k] \in Slots /\ Depth(t) \in Nat /\ Depth(t) > 0
         /\ ch[t][k] \in processes
<1>1. Depth(t) \in Nat
  BY DEF ForestInv, Linked
<1>2. ch[t][k] \in Slots
  BY <1>1 DEF ForestInv, Chains
<1>3. ch[t][k] \in processes
  BY <1>2 DEF ForestInv, Busy, InChain
<1> QED
  BY <1>1, <1>2, <1>3

\* Only MarkSlot, SetPcb, UncountTerminal and FreeSlot move slots.
LEMMA QuietSlots ==
  ASSUME NEW ch, SafePreemption, SoundWith(ch), ~hist.overrun, TypeInv',
         ~hist'.overrun, [Next]_vars, ~MarkSlot, ~SetPcb,
         ~UncountTerminal, ~FreeSlot
  PROVE  SameSlots
<1> SUFFICES ASSUME NEW t \in Terminals
             PROVE  processes' = processes /\ SameSlot(t)
  BY DEF SameSlots, SoundWith, TypeInv, TypeOK
<1> USE DEF SameSlot, Depth, Holding, Filling, Linking
<1> USE DEF TypeInv, TypeOK, run, At, Goto, SetLocal
<1> USE DEF terminal, counts, links, mmu, content, thread
<1>a. TypeInv /\ \A u \in Terminals : ShapeOK(u)
  BY DEF SoundWith, ThreadsInv
<1>l. ASSUME NEW n \in Terminals, num_on_terminal[n] = 0, n # run
      PROVE  pc[n] \notin Holding
  BY <1>a, <1>l DEF ShapeOK, SafeRoot
<1>r. ASSUME Preemptible, num_on_terminal[run] = 0
      PROVE  pc[run] \notin Holding
  BY <1>a, <1>r DEF ShapeOK, Preemptible, CreatesRoot, SafeRoot, SafePreemption
<1>1. ASSUME NEW c \in Commands, Execute(c)
      PROVE processes' = processes /\ SameSlot(t)
  BY <1>1, <1>a DEF Execute, Trap
<1>2. CASE CheckLimit
  BY <1>2, <1>a DEF CheckLimit, Fail
<1>3. CASE ParseCommand
  BY <1>3, <1>a DEF ParseCommand
<1>4. CASE LookUp
  <2>1. /\ pc[run] = "lookup" /\ UNCHANGED <<processes, num_on_terminal>>
        /\ \A u \in Terminals \ {run} : local'[u] = local[u]
        /\ \/ Fail
           \/ \E p \in {"refuse", "alloc"} : pc' = [pc EXCEPT ![run] = p]
    BY <1>4 DEF LookUp, Fail
  <2> QED
    BY <2>1, <1>a DEF Fail
<1>5. CASE LoadRefused
  <2>1. /\ pc[run] = "refuse" /\ UNCHANGED <<processes, num_on_terminal>>
        /\ \A u \in Terminals \ {run} : local'[u] = local[u]
        /\ pc' = [pc EXCEPT ![run] = "lower"]
    BY <1>5 DEF LoadRefused, LoadCounter
  <2> QED
    BY <2>1, <1>a
<1>6. CASE StoreRefused
  BY <1>6, <1>a DEF StoreRefused, Fail
<1>7. CASE SearchSlot
  <2>1. /\ pc[run] = "alloc" /\ UNCHANGED <<processes, num_on_terminal>>
        /\ \A u \in Terminals \ {run} : local'[u] = local[u]
        /\ \E p \in {"alloc", "mark"} : pc' = [pc EXCEPT ![run] = p]
    BY <1>7, <1>a DEF SearchSlot, History
  <2> QED
    BY <2>1, <1>a
<1>8. CASE LoadCount
  <2>1. /\ pc[run] = "count" /\ UNCHANGED <<processes, num_on_terminal>>
        /\ local'[run].slot = local[run].slot
        /\ \A u \in Terminals \ {run} : local'[u] = local[u]
        /\ pc' = [pc EXCEPT ![run] = "add"]
    BY <1>8, <1>a DEF LoadCount, LoadCounter, Local
  <2> QED
    BY <2>1, <1>a
<1>9. CASE StoreCount
  <2>1. /\ pc[run] = "add" /\ UNCHANGED <<processes, num_on_terminal>>
        /\ local'[run].slot = local[run].slot
        /\ \A u \in Terminals \ {run} : local'[u] = local[u]
        /\ pc' = [pc EXCEPT ![run] = "join"]
    BY <1>9, <1>a DEF StoreCount, Local
  <2> QED
    BY <2>1, <1>a
<1>10. CASE CountTerminal
  BY <1>10, <1>a DEF CountTerminal
<1>11. CASE MapPage
  BY <1>11, <1>a DEF MapPage
<1>12. CASE LoadImage
  BY <1>12, <1>a DEF LoadImage
<1>13. CASE SaveFrame
  BY <1>13, <1>a DEF SaveFrame
<1>14. CASE EnterUser
  BY <1>14, <1>a DEF EnterUser, LeaveKernel
<1>15. CASE PickCurrent
  BY <1>15, <1>a DEF PickCurrent
<1>16. CASE LoadUncount
  <2>1. /\ pc[run] = "uncount" /\ UNCHANGED <<processes, num_on_terminal>>
        /\ local'[run].slot = local[run].slot
        /\ \A u \in Terminals \ {run} : local'[u] = local[u]
        /\ pc' = [pc EXCEPT ![run] = "subtract"]
    BY <1>16, <1>a DEF LoadUncount, LoadCounter, Local
  <2> QED
    BY <2>1, <1>a
<1>17. CASE StoreUncount
  <2>1. /\ pc[run] = "subtract" /\ UNCHANGED <<processes, num_on_terminal>>
        /\ local'[run].slot = local[run].slot
        /\ \A u \in Terminals \ {run} : local'[u] = local[u]
        /\ pc' = [pc EXCEPT ![run] = "leave"]
    BY <1>17, <1>a DEF StoreUncount, Local
  <2> QED
    BY <2>1, <1>a
<1>18. CASE Unwind
  BY <1>18, <1>a DEF Unwind, RelaunchShell
<1>19. CASE RestoreParent
  BY <1>19, <1>a DEF RestoreParent, LeaveKernel
<1>20. CASE Halt
  BY <1>20, <1>a DEF Halt, Trap
<1>21. CASE Read
  BY <1>21, <1>a DEF Read, Trap
<1>22. CASE GetArgs
  BY <1>22, <1>a DEF GetArgs, Trap
<1>23. CASE ReadReturns
  BY <1>23, <1>a DEF ReadReturns, LeaveKernel
<1>24. CASE LaunchShell
  <2>1. PICK n \in Terminals :
          /\ Tick(n) /\ num_on_terminal[n] = 0
          /\ pc' = [pc EXCEPT ![n] = "exec"]
          /\ local' = [local EXCEPT ![n] = [NoLocal EXCEPT !.caller = run]]
          /\ UNCHANGED <<counts>>
    BY <1>24 DEF LaunchShell
  <2>2. n # run
    BY <2>1 DEF Tick
  <2> QED
    BY <2>1, <2>2, <1>l, <1>a
<1>25. CASE SwitchTo
  <2>1. PICK n \in Terminals :
          /\ Tick(n) /\ num_on_terminal[n] # 0
          /\ pc' = [u \in Terminals |->
                      IF num_on_terminal[u] = 0 THEN "none"
                      ELSE IF u = n /\ active_pcb[n] = NULL THEN "fault"
                      ELSE pc[u]]
          /\ local' = [u \in Terminals |-> IF num_on_terminal[u] = 0
                                          THEN NoLocal ELSE local[u]]
          /\ UNCHANGED <<counts>>
    BY <1>25 DEF SwitchTo
  <2>2. pc'[n] # "fault"
    BY StepShape, <2>1 DEF ShapeOK
  <2>3. pc'[t] = pc[t] \/ num_on_terminal[t] = 0
    BY <2>1, <2>2
  <2>4. Preemptible
    BY <2>1 DEF Tick
  <2>5. num_on_terminal[t] = 0 =>
          /\ pc[t] \notin Holding
          /\ pc'[t] = "none"
    BY <2>1, <2>4, <1>l, <1>r
  <2> QED
    BY <2>1, <2>3, <2>5, <1>a
<1>26. ASSUME NEW n \in Terminals, SwitchDisplay(n)
      PROVE processes' = processes /\ SameSlot(t)
  BY <1>26, <1>a DEF SwitchDisplay
<1>27. CASE UNCHANGED vars
  BY <1>27, <1>a DEF vars
<1> HIDE DEF SameSlot, Depth, run, At, Goto
<1> QED
  BY <1>1, <1>2, <1>3, <1>4, <1>5, <1>6, <1>7, <1>8, <1>9, <1>10, <1>11, <1>12,
     <1>13, <1>14, <1>15, <1>16, <1>17, <1>18, <1>19, <1>20, <1>21, <1>22,
     <1>23, <1>24, <1>25, <1>26, <1>27 DEF Next, ExecuteStep, HaltStep,
     UserStep, TimerStep

\* Only these and SaveFrame change a PCB, a page or a count of a process that
\* exists: LoadImage fills the page of a slot that is in no chain.
LEMMA QuietChain ==
  ASSUME NEW ch, SafePreemption, SoundWith(ch), ~hist.overrun, TypeInv',
         [Next]_vars, ~SetPcb, ~SaveFrame, ~UncountTerminal, ~FreeSlot,
         NEW t \in Terminals
  PROVE  SameChain(ch, t)
<1> USE DEF run, At, Goto, SetLocal
<1> USE DEF terminal, counts, links, mmu, content, thread
<1>a. TypeInv /\ TypeOK /\ \A u \in Terminals : ShapeOK(u)
  BY DEF SoundWith, ThreadsInv, TypeInv
<1>b. pcb' = pcb /\ hist'.asked = hist.asked
  <2>1. UNCHANGED hist \/ SearchSlot \/ StoreRefused
    BY HistoryFrame
  <2>2. hist'.asked = hist.asked
    BY <2>1, <1>a DEF SearchSlot, StoreRefused, TypeOK, History
  <2>3. pcb' = pcb
    BY DEF Next, ExecuteStep, HaltStep, UserStep, TimerStep, vars, Execute,
       CheckLimit, ParseCommand, LookUp, LoadRefused, LoadCounter,
       StoreRefused, SearchSlot, MarkSlot, LoadCount, StoreCount,
       CountTerminal, MapPage, LoadImage, EnterUser, PickCurrent, LoadUncount,
       StoreUncount, Unwind, RestoreParent, Halt, Read, GetArgs, ReadReturns,
       LaunchShell, SwitchTo, SwitchDisplay
  <2> QED
    BY <2>2, <2>3
<1>c. \A k \in 1 .. Depth(t) : image'[ch[t][k]] = image[ch[t][k]]
  <2>1. CASE LoadImage
    <3>1. /\ pc[run] = "load"
          /\ image' = [image EXCEPT ![vir_page] = local[run].file]
      BY <2>1 DEF LoadImage
    <3>2. vir_page = local[run].slot
      BY <3>1, <1>a DEF SoundWith, AliveInv, Alive, ReadyOK, PageOK, TypeOK
    <3>3. \A k \in 1 .. Depth(t) : ch[t][k] # local[run].slot
      BY <3>1, <1>a DEF SoundWith, ForestInv, Apart, Holding, Filling,
         Linking, TypeOK
    <3>4. \A k \in 1 .. Depth(t) : ch[t][k] \in Slots
      BY ChainSlots DEF SoundWith
    <3> QED
      BY <3>1, <3>2, <3>3, <3>4, <1>a DEF TypeOK
  <2>2. CASE ~LoadImage
    <3>1. image' = image
      BY <2>2 DEF Next, ExecuteStep, HaltStep, UserStep, TimerStep, vars,
         Execute, CheckLimit, ParseCommand, LookUp, LoadRefused, LoadCounter,
         StoreRefused, SearchSlot, MarkSlot, LoadCount, StoreCount,
         CountTerminal, MapPage, SetPcb, SaveFrame, EnterUser, PickCurrent,
         LoadUncount, StoreUncount, UncountTerminal, FreeSlot, Unwind,
         RestoreParent, Halt, Read, GetArgs, ReadReturns, LaunchShell,
         SwitchTo, SwitchDisplay
    <3> QED
      BY <3>1
  <2> QED
    BY <2>1, <2>2
<1>d. Depth(t) > 0 => num_on_terminal[t] > 0
  BY <1>a DEF Depth, TypeOK
<1>e. ASSUME num_on_terminal[t] > 0
      PROVE  Top(t)' = Top(t) /\ (pc[t] = "frame" => pc'[t] = "frame")
  <2> DEFINE G == Top(t)' = Top(t) /\ (pc[t] = "frame" => pc'[t] = "frame")
  <2> USE <1>e, <1>a, <1>b DEF Top, TypeOK
  <2>1. ASSUME NEW c \in Commands, Execute(c) PROVE G
    BY <2>1 DEF Execute, Trap
  <2>2. CASE CheckLimit
    BY <2>2 DEF CheckLimit, Fail
  <2>3. CASE ParseCommand
    BY <2>3 DEF ParseCommand
  <2>4. CASE LookUp
    <3>1. /\ pc[run] = "lookup" /\ active_pcb' = active_pcb
          /\ \A u \in Terminals \ {run} : local'[u] = local[u]
          /\ \/ Fail
             \/ \E p \in {"refuse", "alloc"} : pc' = [pc EXCEPT ![run] = p]
      BY <2>4 DEF LookUp, Fail
    <3> QED
      BY <3>1 DEF Fail
  <2>24. CASE LoadRefused
    <3>1. /\ pc[run] = "refuse" /\ active_pcb' = active_pcb
          /\ \A u \in Terminals \ {run} : local'[u] = local[u]
          /\ pc' = [pc EXCEPT ![run] = "lower"]
      BY <2>24 DEF LoadRefused, LoadCounter
    <3> QED
      BY <3>1
  <2>25. CASE StoreRefused
    BY <2>25 DEF StoreRefused, Fail
  <2>5. CASE SearchSlot
    <3>1. /\ pc[run] = "alloc" /\ active_pcb' = active_pcb
          /\ \A u \in Terminals \ {run} : local'[u] = local[u]
          /\ \E p \in {"alloc", "mark", "count"} : pc' = [pc EXCEPT ![run] = p]
      BY <2>5 DEF SearchSlot
    <3> QED
      BY <3>1
  <2>26. CASE MarkSlot
    BY <2>26 DEF MarkSlot
  <2>27. CASE LoadCount
    <3>1. /\ pc[run] = "count" /\ active_pcb' = active_pcb
          /\ \A u \in Terminals \ {run} : local'[u] = local[u]
          /\ pc' = [pc EXCEPT ![run] = "add"]
      BY <2>27 DEF LoadCount, LoadCounter
    <3> QED
      BY <3>1
  <2>6. CASE StoreCount
    <3>1. /\ pc[run] = "add" /\ active_pcb' = active_pcb
          /\ \A u \in Terminals \ {run} : local'[u] = local[u]
          /\ pc' = [pc EXCEPT ![run] = "join"]
      BY <2>6 DEF StoreCount
    <3> QED
      BY <3>1
  <2>28. CASE CountTerminal
    BY <2>28 DEF CountTerminal
  <2>7. CASE MapPage
    BY <2>7 DEF MapPage
  <2>8. CASE LoadImage
    BY <2>8 DEF LoadImage
  <2>11. CASE EnterUser
    BY <2>11 DEF EnterUser, LeaveKernel
  <2>12. CASE PickCurrent
    BY <2>12 DEF PickCurrent
  <2>29. CASE LoadUncount
    <3>1. /\ pc[run] = "uncount" /\ active_pcb' = active_pcb
          /\ \A u \in Terminals \ {run} : local'[u] = local[u]
          /\ pc' = [pc EXCEPT ![run] = "subtract"]
      BY <2>29 DEF LoadUncount, LoadCounter
    <3> QED
      BY <3>1
  <2>13. CASE StoreUncount
    <3>1. /\ pc[run] = "subtract" /\ active_pcb' = active_pcb
          /\ \A u \in Terminals \ {run} : local'[u] = local[u]
          /\ pc' = [pc EXCEPT ![run] = "leave"]
      BY <2>13 DEF StoreUncount
    <3> QED
      BY <3>1
  <2>14. CASE Unwind
    <3>1. pc[run] = "unwind" /\ HaltOK(run) /\ pcb[local[run].slot] \in Pcb
      BY <2>14 DEF Unwind, SoundWith, AliveInv, Alive, ReadyOK, TypeInv,
         ThreadOK
    <3>2. t = run => pcb[local[run].slot].parent # NULL
      BY <3>1, NullNotASlot DEF HaltOK, Pcb
    <3> QED
      BY <2>14, <3>1, <3>2 DEF Unwind, RelaunchShell
  <2>15. CASE RestoreParent
    BY <2>15 DEF RestoreParent, LeaveKernel
  <2>16. CASE Halt
    BY <2>16 DEF Halt, Trap
  <2>17. CASE Read
    BY <2>17 DEF Read, Trap
  <2>18. CASE GetArgs
    BY <2>18 DEF GetArgs, Trap
  <2>19. CASE ReadReturns
    BY <2>19 DEF ReadReturns, LeaveKernel
  <2>20. CASE LaunchShell
    <3>1. \E n \in Terminals :
            /\ num_on_terminal[n] = 0
            /\ pc' = [pc EXCEPT ![n] = "exec"]
            /\ local' = [local EXCEPT ![n] = [NoLocal EXCEPT !.caller = run]]
            /\ UNCHANGED <<links>>
      BY <2>20 DEF LaunchShell
    <3> QED
      BY <3>1
  <2>21. CASE SwitchTo
    <3>1. /\ pc'[t] \in {pc[t], "fault"} /\ local'[t] = local[t]
          /\ active_pcb' = active_pcb
      BY <2>21 DEF SwitchTo
    <3>2. pc'[t] # "fault"
      BY StepShape DEF ShapeOK
    <3> QED
      BY <3>1, <3>2
  <2>22. ASSUME NEW n \in Terminals, SwitchDisplay(n) PROVE G
    BY <2>22 DEF SwitchDisplay
  <2>23. CASE UNCHANGED vars
    BY <2>23 DEF vars
  <2> HIDE DEF run, At, Goto, Top
  <2> QED
    BY <2>1, <2>2, <2>3, <2>4, <2>24, <2>25, <2>5, <2>26, <2>27, <2>6, <2>28,
       <2>7, <2>8, <2>11, <2>12, <2>29, <2>13, <2>14, <2>15, <2>16, <2>17,
       <2>18, <2>19, <2>20, <2>21, <2>22, <2>23 DEF Next, ExecuteStep,
       HaltStep, UserStep, TimerStep
<1> QED
  BY <1>b, <1>c, <1>d, <1>e DEF SameChain

\* sys_execute completes the PCB of the process it links: its esp and
\* curr_esp0 lead back to the parent.
LEMMA SaveFrameForest ==
  ASSUME NEW ch, SafePreemption, SoundWith(ch), ~hist.overrun, TypeInv',
         ~hist'.overrun, SaveFrame
  PROVE  ForestInv(ch)'
<1>0. PICK r \in Terminals : r = executing_terminal
  BY DEF SoundWith, TypeInv, TypeOK
<1> DEFINE top == active_pcb[r]
<1>1. /\ pc[r] = "frame" /\ pc' = [pc EXCEPT ![r] = "enter"]
      /\ pcb' = [pcb EXCEPT ![top].esp = kstack[r], ![top].curr_esp0 = esp0]
      /\ UNCHANGED <<num_on_terminal, active_pcb, image, hist, local>>
  BY <1>0 DEF SaveFrame, At, Goto, run, counts, content
<1>2. /\ r \in Terminals /\ top \in Slots /\ kstack[r] \in Slots
      /\ TypeOK /\ TypeInv
  BY <1>1 DEF SoundWith, TypeInv, TypeOK, ThreadOK, InKernel, Points
<1>3. /\ \A s \in Slots : pcb'[s].parent = pcb[s].parent
      /\ \A s \in Slots \ {top} : pcb'[s] = pcb[s]
      /\ pcb'[top].esp = kstack[r] /\ pcb'[top].curr_esp0 = esp0
  BY <1>1, <1>2 DEF TypeOK, Pcb
<1>4. SameSlots
  <2>1. ~MarkSlot /\ ~SetPcb /\ ~UncountTerminal /\ ~FreeSlot
    BY <1>0, <1>1 DEF MarkSlot, SetPcb, UncountTerminal, FreeSlot, At, run
  <2> QED
    BY <2>1, QuietSlots DEF Next, ExecuteStep
<1>5. ForestInv(ch)
  BY DEF SoundWith
<1>6. ASSUME NEW t \in Terminals PROVE Loaded(ch, t)'
  BY <1>1, <1>4, <1>5 DEF SameSlots, SameSlot, ForestInv, Loaded
<1>7. /\ Depth(r) = num_on_terminal[r] /\ Depth(r) \in Nat /\ Depth(r) > 0
      /\ Top(r) = top /\ ch[r][Depth(r)] = top
  <2>1. ShapeOK(r) /\ Linked(ch, r)
    BY <1>2, <1>5 DEF SoundWith, ThreadsInv, ForestInv
  <2>2. Depth(r) = num_on_terminal[r] /\ Depth(r) > 0 /\ Top(r) = top
    BY <1>1, <1>2, <2>1 DEF ShapeOK, SafeRoot, Depth, Top
  <2> QED
    BY <2>1, <2>2 DEF Linked
<1>8. ASSUME NEW t \in Terminals PROVE Linked(ch, t)'
  <2>1. Linked(ch, t) /\ Depth(t)' = Depth(t) /\ Depth(t) \in Nat
    BY <1>4, <1>5 DEF SameSlots, SameSlot, ForestInv, Linked
  <2>2. \A k \in 1 .. Depth(t) : ch[t][k] \in Slots
    BY <1>5, ChainSlots
  <2>3. \A k \in 1 .. Depth(t) : pcb'[ch[t][k]].parent = pcb[ch[t][k]].parent
    BY <2>2, <1>3
  <2>4. CASE t # r
    <3>1. \A k \in 1 .. Depth(t) : ch[t][k] # top
      <4>1. Depth(r) \in 1 .. Depth(r)
        BY <1>7
      <4> QED
        BY <1>2, <1>5, <1>7, <4>1, <2>4 DEF ForestInv, Distinct
    <3>2. \A k \in 1 .. Depth(t) : pcb'[ch[t][k]] = pcb[ch[t][k]]
      BY <3>1, <2>2, <1>3
    <3>3. SameChain(ch, t)
      <4>1. Top(t)' = Top(t)
        BY <2>4, <1>1, <1>2, <1>3 DEF Top, TypeInv, ThreadOK, TypeOK
      <4> QED
        BY <4>1, <3>2, <2>4, <1>1, <1>2 DEF SameChain, TypeOK
    <3> QED
      BY <3>3, <2>1, <1>5, ChainFrame
  <2>5. CASE t = r
    <3>1. \A k \in 1 .. Depth(r) - 1 : k \in 1 .. Depth(r) /\ k # Depth(r)
                                    /\ k + 1 \in 1 .. Depth(r)
      BY <1>7
    <3>2. \A k \in 1 .. Depth(r) - 1 : ch[r][k] # top
      <4>1. Depth(r) \in 1 .. Depth(r)
        BY <1>7
      <4> QED
        BY <1>2, <1>5, <1>7, <3>1, <4>1 DEF ForestInv, Distinct
    <3>3. \A k \in 1 .. Depth(r) - 1 : k + 1 # Depth(r) =>
            pcb'[ch[r][k + 1]] = pcb[ch[r][k + 1]]
      <4>1. \A k \in 1 .. Depth(r) - 1 : k + 1 # Depth(r) =>
              k + 1 \in 1 .. Depth(r) - 1
        BY <1>7
      <4> QED
        BY <4>1, <3>1, <3>2, <2>2, <2>5, <1>3
    <3>4. \A k \in 1 .. Depth(r) - 1 : k + 1 = Depth(r) =>
            /\ pcb'[top].curr_esp0 = ch[r][k] /\ pcb'[top].esp = ch[r][k]
      <4> SUFFICES ASSUME NEW k \in 1 .. Depth(r) - 1, k + 1 = Depth(r)
                   PROVE  /\ pcb'[top].curr_esp0 = ch[r][k]
                          /\ pcb'[top].esp = ch[r][k]
        OBVIOUS
      <4>1. pcb[top].parent = ch[r][k]
        BY <2>1, <2>5, <1>7 DEF Linked
      <4>2. Nested(r)
        BY <1>1, <1>2, <1>7 DEF Nested, Entering, TypeOK
      <4>3. StackOK(r) /\ Esp0OK(r)
        BY <1>0, <1>2 DEF SoundWith, ThreadsInv, AliveInv, Alive, ReadyOK, run
      <4>4. kstack[r] = pcb[top].parent /\ esp0 = pcb[top].parent
        BY <4>2, <4>3, <1>1 DEF StackOK, Esp0OK, Entering
      <4> QED
        BY <4>1, <4>4, <1>3
    <3>5. Top(r)' = Top(r)
      BY <1>1, <1>2 DEF Top, TypeOK
    <3>6. pcb'[ch[r][1]].parent = pcb[ch[r][1]].parent
      BY <2>3, <2>5, <1>7
    <3>7. /\ Depth(r)' \in Nat /\ Depth(r)' = Depth(r)
          /\ ch[r][Depth(r)] = Top(r)' /\ pcb'[ch[r][1]].parent = NULL
      BY <3>5, <3>6, <2>1, <2>5, <1>7 DEF Linked
    <3>8. \A k \in 1 .. Depth(r) - 1 :
            /\ pcb'[ch[r][k + 1]].parent = ch[r][k]
            /\ pcb'[ch[r][k + 1]].curr_esp0 = ch[r][k]
            /\ pcb'[ch[r][k + 1]].esp = ch[r][k]
      BY <3>1, <3>3, <3>4, <2>1, <2>3, <2>5, <1>7 DEF Linked
    <3> QED
      BY <3>7, <3>8, <2>5 DEF Linked
  <2> QED
    BY <2>4, <2>5
<1> QED
  BY <1>4, <1>5, <1>6, <1>8, SlotsFrame DEF ForestInv, Chains

\* The slot marked is in no chain and no other call has it.
LEMMA MarkForest ==
  ASSUME NEW ch, SafePreemption, SoundWith(ch), ~hist.overrun, TypeInv',
         MarkSlot
  PROVE  ForestInv(ch)'
<1>0. PICK r \in Terminals : r = executing_terminal
  BY DEF SoundWith, TypeInv, TypeOK
<1>1. PICK s \in Slots : s = local[r].slot
  BY <1>0 DEF MarkSlot, At, run, SoundWith, TypeInv, ThreadOK
<1>2. r \in Terminals /\ TypeOK /\ ForestInv(ch)
  BY DEF SoundWith, TypeInv, TypeOK
<1>3. s \notin processes /\ processes' = processes \cup {s}
  <2>1. SlotOK(r)
    BY <1>0 DEF SoundWith, AliveInv, Alive, ReadyOK, run
  <2> QED
    BY <2>1, <1>0, <1>1 DEF MarkSlot, At, run, SlotOK
<1>4. /\ pc[r] = "mark" /\ pc' = [pc EXCEPT ![r] = "count"]
      /\ num_on_terminal' = num_on_terminal
  BY <1>0 DEF MarkSlot, At, Goto, run
<1>5. local'[r].slot = s /\ \A t \in Terminals \ {r} : local'[t] = local[t]
  BY <1>0, <1>1 DEF MarkSlot
<1>6. \A t \in Terminals :
        /\ Depth(t)' = Depth(t)
        /\ pc'[t] \in Holding <=> t = r \/ pc[t] \in Holding
        /\ pc[t] \in Holding => t # r
  BY <1>2, <1>4 DEF Depth, Holding, Filling, Linking, TypeOK
<1>7. \A t \in Terminals : SameChain(ch, t)
  <2>1. ~SetPcb /\ ~SaveFrame /\ ~UncountTerminal /\ ~FreeSlot
    BY <1>0, <1>4 DEF SetPcb, SaveFrame, UncountTerminal, FreeSlot, At, run
  <2> QED
    BY <2>1, QuietChain DEF Next, ExecuteStep
<1>8. \A t \in Terminals : Linked(ch, t)' /\ Loaded(ch, t)'
  BY <1>2, <1>6, <1>7, ChainFrame
<1>9. Distinct(ch)'
  BY <1>2, <1>6 DEF ForestInv, Distinct
<1>10. \A u \in Terminals :
         /\ \A k \in 1 .. Depth(u) : ch[u][k] # s
         /\ pc[u] \in Holding => local[u].slot # s
  <2>1. ~InChain(ch, s) /\ ~InHolding(s)
    BY <1>1, <1>2, <1>3 DEF ForestInv, Busy
  <2> QED
    BY <2>1 DEF InChain, InHolding
<1>11. \A t \in Terminals : Apart(ch, t)'
  BY <1>2, <1>5, <1>6, <1>10 DEF ForestInv, Apart
<1>12. Busy(ch)'
  <2>1. \A x \in Slots : InChain(ch, x)' <=> InChain(ch, x)
    BY <1>6 DEF InChain
  <2>2. \A x \in Slots : InHolding(x)' <=> InHolding(x) \/ x = s
    BY <1>2, <1>5, <1>6 DEF InHolding
  <2> QED
    BY <2>1, <2>2, <1>2, <1>3 DEF ForestInv, Busy
<1> QED
  BY <1>2, <1>8, <1>9, <1>11, <1>12 DEF ForestInv, Chains

\* The new PCB is put on the chain of its terminal.
LEMMA SetPcbForest ==
  ASSUME NEW ch, SafePreemption, SoundWith(ch), ~hist.overrun, TypeInv',
         SetPcb
  PROVE  \E d : /\ ForestInv(d)'
               /\ d[run][Depth(run) + 1] = local[run].slot
               /\ \A t \in Terminals : \A k \in 1 .. Depth(t) :
                    d[t][k] = ch[t][k]
<1>0. PICK r \in Terminals : r = executing_terminal
  BY DEF SoundWith, TypeInv, TypeOK
<1>s. PICK s \in Slots : s = local[r].slot
  BY <1>0 DEF SetPcb, At, run, SoundWith, TypeInv, ThreadOK
<1>n. PICK n \in Nat : n = num_on_terminal[r] /\ n > 0
  BY <1>0 DEF SetPcb, At, run, SoundWith, ThreadsInv, ShapeOK, SafeRoot
<1>1. /\ pc[r] = "pcb" /\ pc' = [pc EXCEPT ![r] = "frame"]
      /\ pcb' = [pcb EXCEPT ![s].parent =
                               IF n <= 1 THEN NULL ELSE active_pcb[r]]
      /\ active_pcb' = [active_pcb EXCEPT ![r] = s]
      /\ hist' = [hist EXCEPT !.asked[s] = local[r].command]
      /\ UNCHANGED <<num_on_terminal, image, local, processes>>
  BY <1>0, <1>s, <1>n DEF SetPcb, At, Goto, run, counts, ParentOfNew
<1>2. TypeOK /\ TypeInv /\ ForestInv(ch)
  BY DEF SoundWith, TypeInv
<1>3. /\ \A t \in Terminals : Depth(t)' = IF t = r THEN n ELSE Depth(t)
      /\ Depth(r) = n - 1
      /\ \A t \in Terminals \ {r} : Top(t)' = Top(t) \/ Depth(t) = 0
      /\ Top(r)' = s
  <2>1. \A t \in Terminals : Depth(t)' = IF t = r THEN n ELSE Depth(t)
    BY <1>1, <1>2, <1>n DEF Depth, TypeOK
  <2>2. Depth(r) = n - 1 /\ Top(r)' = s
    BY <1>1, <1>2, <1>n DEF Depth, TypeOK, Top
  <2>3. \A t \in Terminals \ {r} : pc[t] = "unwind" => Depth(t) = 0
    BY <1>0 DEF SoundWith, ThreadsInv, ShapeOK, SafePreemption, SafeNested,
       Depth, run
  <2>4. \A t \in Terminals \ {r} : pc[t] = "free" => local[t].slot # s
    <3>1. pc[r] \in Holding
      BY <1>1 DEF Holding, Filling, Linking
    <3> QED
      BY <3>1, <1>2, <1>s, ApartOf DEF Holding
  <2>5. \A t \in Terminals \ {r} :
          Top(t)' = Top(t) \/ Depth(t) = 0
    BY <2>3, <2>4, <1>1, <1>2 DEF Top, TypeInv, TypeOK, ThreadOK
  <2> QED
    BY <2>1, <2>2, <2>5
<1>4. \A t \in Terminals : \A k \in 1 .. Depth(t) : ch[t][k] # s
  BY <1>1, <1>2, <1>s DEF ForestInv, Apart, Holding, Filling,
     Linking
<1>5. \A t \in Terminals : \A k \in 1 .. Depth(t) : ch[t][k] \in Slots
  BY <1>2, ChainSlots
<1>6. /\ \A x \in Slots \ {s} : /\ pcb'[x] = pcb[x]
                               /\ hist'.asked[x] = hist.asked[x]
      /\ pcb'[s].parent = IF n <= 1 THEN NULL ELSE active_pcb[r]
      /\ hist'.asked[s] = local[r].command
  BY <1>1, <1>2, <1>s DEF TypeOK, Pcb, History
<1>7. image[s] = local[r].command
  <2>1. PageOK(r) /\ LocalOK(r)
    BY <1>0 DEF SoundWith, AliveInv, Alive, ReadyOK, ThreadsInv, run
  <2> QED
    BY <2>1, <1>1, <1>s DEF PageOK, LocalOK, Filling, Linking
<1> DEFINE d == [ch EXCEPT ![r] = [ch[r] EXCEPT ![n] = s]]
<1>8. /\ d \in Chains /\ d[r][n] = s
      /\ \A t \in Terminals \ {r} : d[t] = ch[t]
      /\ \A k \in Nat \ {n} : d[r][k] = ch[r][k]
  BY <1>2, <1>s, <1>n DEF ForestInv, Chains
<1> HIDE DEF d
<1>9. \A t \in Terminals : Depth(t) \in Nat
  BY <1>2 DEF ForestInv, Linked
<1>10. ASSUME NEW t \in Terminals, t # r
       PROVE  Linked(d, t)' /\ Loaded(d, t)'
  <2>1. SameChain(ch, t) /\ Depth(t)' = Depth(t)
    <3>1. \A k \in 1 .. Depth(t) : ch[t][k] \in Slots \ {s}
      BY <1>4, <1>5
    <3>2. Depth(t) > 0 => Top(t)' = Top(t)
      BY <1>3, <1>10
    <3>3. pc[t] = "frame" => pc'[t] = "frame"
      BY <1>1, <1>2 DEF TypeOK
    <3> QED
      BY <3>1, <3>2, <3>3, <1>1, <1>3, <1>6, <1>10 DEF SameChain
  <2>2. Linked(ch, t)' /\ Loaded(ch, t)'
    BY <2>1, <1>2, ChainFrame
  <2> QED
    BY <2>2, <1>8, <1>10 DEF Linked, Loaded
<1>11. Linked(d, r)'
  <2>1. Linked(ch, r)
    BY <1>2 DEF ForestInv
  <2>2. pcb'[d[r][1]].parent = NULL
    <3>1. CASE n = 1
      BY <3>1, <1>6, <1>8
    <3>2. CASE n # 1
      <4>1. 1 \in 1 .. Depth(r) /\ Depth(r) > 0
        BY <3>2, <1>3, <1>n
      <4>2. d[r][1] = ch[r][1] /\ ch[r][1] \in Slots \ {s}
        BY <4>1, <3>2, <1>4, <1>5, <1>8
      <4> QED
        BY <4>1, <4>2, <2>1, <1>6 DEF Linked
    <3> QED
      BY <3>1, <3>2
  <2>3. ASSUME NEW k \in 1 .. n - 1
        PROVE  /\ pcb'[d[r][k + 1]].parent = d[r][k]
               /\ k + 1 # n => /\ pcb'[d[r][k + 1]].curr_esp0 = d[r][k]
                               /\ pcb'[d[r][k + 1]].esp = d[r][k]
    <3>1. d[r][k] = ch[r][k] /\ k \in 1 .. Depth(r) /\ n > 1 /\ Depth(r) > 0
      BY <1>3, <1>8, <1>n
    <3>2. CASE k + 1 = n
      <4>1. ch[r][k] = active_pcb[r]
        BY <3>1, <3>2, <2>1, <1>1, <1>3 DEF Linked, Top
      <4> QED
        BY <4>1, <3>1, <3>2, <1>6, <1>8
    <3>3. CASE k + 1 # n
      <4>1. /\ k \in 1 .. Depth(r) - 1 /\ k + 1 \in 1 .. Depth(r)
            /\ k + 1 \in Nat \ {n}
        BY <3>3, <1>3, <1>n
      <4>2. d[r][k + 1] = ch[r][k + 1] /\ ch[r][k + 1] \in Slots \ {s}
        BY <4>1, <1>4, <1>5, <1>8
      <4> QED
        BY <4>1, <4>2, <3>1, <2>1, <1>1, <1>6 DEF Linked
    <3> QED
      BY <3>2, <3>3
  <2>4. Depth(r)' = n /\ Top(r)' = d[r][n]
    BY <1>3, <1>8
  <2> QED
    BY <2>2, <2>3, <2>4, <1>n, <1>1, <1>2 DEF Linked, TypeOK
<1>12. Loaded(d, r)'
  <2> SUFFICES ASSUME NEW k \in 1 .. n
               PROVE  image'[d[r][k]] = hist'.asked[d[r][k]]
    BY <1>3 DEF Loaded
  <2>1. CASE k = n
    BY <2>1, <1>1, <1>6, <1>7, <1>8
  <2>2. CASE k # n
    <3>1. k \in 1 .. Depth(r) /\ d[r][k] = ch[r][k] /\ ch[r][k] \in Slots \ {s}
      BY <2>2, <1>3, <1>4, <1>5, <1>8, <1>n
    <3> QED
      BY <3>1, <1>1, <1>2, <1>6 DEF ForestInv, Loaded
  <2> QED
    BY <2>1, <2>2
<1>13. \A t \in Terminals : \A k \in 1 .. Depth(t)' :
         \/ t = r /\ k = n /\ d[t][k] = s
         \/ k \in 1 .. Depth(t) /\ d[t][k] = ch[t][k] /\ ch[t][k] # s
  <2> SUFFICES ASSUME NEW t \in Terminals, NEW k \in 1 .. Depth(t)',
                      ~(t = r /\ k = n)
               PROVE  /\ k \in 1 .. Depth(t) /\ d[t][k] = ch[t][k]
                      /\ ch[t][k] # s
    BY <1>8
  <2>1. k \in 1 .. Depth(t)
    BY <1>3, <1>9, <1>n
  <2>2. d[t][k] = ch[t][k]
    BY <1>3, <1>8
  <2> QED
    BY <2>1, <2>2, <1>4
<1>14. Distinct(d)'
  BY <1>2, <1>13 DEF ForestInv, Distinct
<1>15. \A t \in Terminals :
         /\ pc'[t] \in Holding <=> t # r /\ pc[t] \in Holding
         /\ local'[t] = local[t]
  BY <1>1, <1>2 DEF Holding, Filling, Linking, TypeOK
<1>16. \A t \in Terminals \ {r} : pc[t] \in Holding => local[t].slot # s
  BY <1>1, <1>2, <1>s DEF ForestInv, Apart, Holding, Filling,
     Linking
<1>17. \A t \in Terminals : Apart(d, t)'
  <2> SUFFICES ASSUME NEW t \in Terminals, t # r, pc[t] \in Holding
               PROVE  /\ \A u \in Terminals : \A k \in 1 .. Depth(u)' :
                           d[u][k] # local[t].slot
                      /\ \A u \in Terminals \ {t} :
                           pc[u] \in Holding => local[u].slot # local[t].slot
    BY <1>15 DEF Apart
  <2>1. Apart(ch, t)
    BY <1>2 DEF ForestInv
  <2> QED
    BY <2>1, <1>13, <1>16 DEF Apart
<1>18. Busy(d)'
  <2>1. ASSUME NEW x \in Slots
        PROVE  InChain(d, x)' <=> InChain(ch, x) \/ x = s
    <3>1. InChain(d, x)' => InChain(ch, x) \/ x = s
      BY <1>13 DEF InChain
    <3>2. InChain(ch, x) => InChain(d, x)'
      <4>1. \A t \in Terminals : \A k \in 1 .. Depth(t) :
              k \in 1 .. Depth(t)' /\ d[t][k] = ch[t][k]
        BY <1>3, <1>8, <1>9, <1>n
      <4> QED
        BY <4>1 DEF InChain
    <3>3. x = s => InChain(d, x)'
      <4>1. n \in 1 .. Depth(r)'
        BY <1>3, <1>n
      <4> QED
        BY <4>1, <1>8 DEF InChain
    <3> QED
      BY <3>1, <3>2, <3>3
  <2>2. ASSUME NEW x \in Slots
        PROVE  InHolding(x) <=> InHolding(x)' \/ x = s
    <3>1. pc[r] \in Holding
      BY <1>1 DEF Holding, Filling, Linking
    <3> QED
      BY <3>1, <1>15, <1>s DEF InHolding
  <2> QED
    BY <2>1, <2>2, <1>1, <1>2 DEF ForestInv, Busy
<1> QED
  <2>1. \A t \in Terminals : Linked(d, t)' /\ Loaded(d, t)'
    BY <1>10, <1>11, <1>12
  <2>2. ForestInv(d)'
    BY <2>1, <1>8, <1>14, <1>17, <1>18 DEF ForestInv, Chains
  <2>3. \A t \in Terminals : \A k \in 1 .. Depth(t) : d[t][k] = ch[t][k]
    BY <1>3, <1>8, <1>9, <1>n
  <2>4. d[run][Depth(run) + 1] = local[run].slot
    BY <1>0, <1>s, <1>n, <1>3, <1>8 DEF run
  <2> QED
    BY <2>2, <2>3, <2>4

\* sys_halt takes the slot of the last process off the chain.
LEMMA LeaveForest ==
  ASSUME NEW ch, SafePreemption, SoundWith(ch), ~hist.overrun, TypeInv',
         UncountTerminal
  PROVE  ForestInv(ch)'
<1>0. PICK r \in Terminals : r = executing_terminal
  BY DEF SoundWith, TypeInv, TypeOK
<1>s. PICK s \in Slots : s = local[r].slot /\ s = active_pcb[r]
  BY <1>0 DEF UncountTerminal, At, run, SoundWith, TypeInv, ThreadOK,
     ThreadsInv, LocalOK, Leaving
<1>n. PICK n \in Nat : n = num_on_terminal[r] /\ n > 0
  BY <1>0 DEF UncountTerminal, At, run, SoundWith, ThreadsInv, ShapeOK,
     SafeRoot
<1>1. /\ pc[r] = "leave" /\ pc' = [pc EXCEPT ![r] = "free"]
      /\ num_on_terminal' = [num_on_terminal EXCEPT ![r] = n - 1]
      /\ UNCHANGED <<processes, hist, pcb, active_pcb, image, local>>
  BY <1>0, <1>s, <1>n DEF UncountTerminal, At, Goto, run, links, content
<1>2. TypeOK /\ ForestInv(ch)
  BY DEF SoundWith, TypeInv
<1>3. /\ \A t \in Terminals : Depth(t)' = IF t = r THEN n - 1 ELSE Depth(t)
      /\ Depth(r) = n
      /\ \A t \in Terminals \ {r} : Top(t)' = Top(t)
      /\ Top(r)' = pcb[s].parent
      /\ Top(r) = s
  BY <1>1, <1>2, <1>n, <1>s DEF Depth, Top, TypeOK
<1>4. /\ ch[r][n] = s
      /\ \A t \in Terminals : \A k \in 1 .. Depth(t) :
           ch[t][k] = s => t = r /\ k = n
  <2>1. n \in 1 .. Depth(r) /\ ch[r][n] = s
    BY <1>2, <1>3, <1>n DEF ForestInv, Linked
  <2> QED
    BY <2>1, <1>2 DEF ForestInv, Distinct
<1>5. \A t \in Terminals : \A k \in 1 .. Depth(t) : ch[t][k] \in Slots
  BY <1>2, ChainSlots
<1>6. \A t \in Terminals : Depth(t) \in Nat
  BY <1>2 DEF ForestInv, Linked
<1>7. \A t \in Terminals : \A k \in 1 .. Depth(t)' :
         k \in 1 .. Depth(t) /\ ~(t = r /\ k = n)
  BY <1>3, <1>6, <1>n
<1>8. \A t \in Terminals : \A k \in 1 .. Depth(t)' : ch[t][k] \in Slots \ {s}
  BY <1>4, <1>5, <1>7
<1>9. ASSUME NEW t \in Terminals PROVE Loaded(ch, t)'
  BY <1>1, <1>2, <1>7 DEF ForestInv, Loaded
<1>10. ASSUME NEW t \in Terminals PROVE Linked(ch, t)'
  <2>1. Linked(ch, t)
    BY <1>2 DEF ForestInv
  <2>2. CASE t = r
    <3>1. n - 1 > 0 => /\ ch[r][n - 1] = pcb[s].parent
                       /\ pcb[ch[r][1]].parent = NULL
      <4>1. n - 1 > 0 => n - 1 \in 1 .. n - 1 /\ n - 1 + 1 = n /\ n > 0
        BY <1>n
      <4> QED
        BY <4>1, <2>1, <2>2, <1>3, <1>4 DEF Linked
    <3>2. \A k \in 1 .. (n - 1) - 1 :
            /\ pcb[ch[r][k + 1]].parent = ch[r][k]
            /\ pcb[ch[r][k + 1]].curr_esp0 = ch[r][k]
            /\ pcb[ch[r][k + 1]].esp = ch[r][k]
      <4>1. \A k \in 1 .. (n - 1) - 1 : k \in 1 .. n - 1 /\ k + 1 # n
        BY <1>n
      <4> QED
        BY <4>1, <2>1, <2>2, <1>1, <1>3 DEF Linked
    <3>3. Depth(r)' = n - 1 /\ n - 1 \in Nat
      BY <1>3, <1>n
    <3> QED
      BY <2>2, <3>1, <3>2, <3>3, <1>1, <1>3 DEF Linked
  <2>3. CASE t # r
    BY <2>1, <2>3, <1>1, <1>2, <1>3 DEF Linked, TypeOK
  <2> QED
    BY <2>2, <2>3
<1>11. Distinct(ch)'
  BY <1>2, <1>7 DEF ForestInv, Distinct
<1>12. \A t \in Terminals : pc'[t] \in Holding <=> t = r \/ pc[t] \in Holding
  BY <1>1, <1>2 DEF Holding, Filling, Linking, TypeOK
<1>13. \A t \in Terminals : pc[t] \in Holding => local[t].slot # s
  <2>1. n \in 1 .. Depth(r)
    BY <1>3, <1>n
  <2> QED
    BY <2>1, <1>2, <1>4 DEF ForestInv, Apart
<1>14. pc[r] \notin Holding
  BY <1>1 DEF Holding, Filling, Linking
<1>15. ASSUME NEW t \in Terminals PROVE Apart(ch, t)'
  <2>1. CASE t = r
    BY <2>1, <1>1, <1>8, <1>12, <1>13, <1>s DEF Apart
  <2>2. CASE t # r
    BY <2>2, <1>1, <1>2, <1>7, <1>12, <1>13, <1>s DEF ForestInv, Apart
  <2> QED
    BY <2>1, <2>2
<1>16. Busy(ch)'
  <2>1. ASSUME NEW x \in Slots
        PROVE  InChain(ch, x) <=> InChain(ch, x)' \/ x = s
    <3>1. InChain(ch, x)' => InChain(ch, x)
      BY <1>7 DEF InChain
    <3>2. InChain(ch, x) => InChain(ch, x)' \/ x = s
      <4>1. \A t \in Terminals : \A k \in 1 .. Depth(t) :
              ch[t][k] # s => k \in 1 .. Depth(t)'
        BY <1>3, <1>4, <1>6, <1>n
      <4> QED
        BY <4>1 DEF InChain
    <3>3. x = s => InChain(ch, x)
      <4>1. n \in 1 .. Depth(r)
        BY <1>3, <1>n
      <4> QED
        BY <4>1, <1>4 DEF InChain
    <3> QED
      BY <3>1, <3>2, <3>3
  <2>2. ASSUME NEW x \in Slots
        PROVE  InHolding(x)' <=> InHolding(x) \/ x = s
    BY <1>1, <1>12, <1>14, <1>s DEF InHolding
  <2> QED
    BY <2>1, <2>2, <1>1, <1>2 DEF ForestInv, Busy
<1> QED
  BY <1>2, <1>9, <1>10, <1>11, <1>15, <1>16 DEF ForestInv, Chains

\* Then it frees that slot, which no other call has.
LEMMA FreeForest ==
  ASSUME NEW ch, SafePreemption, SoundWith(ch), ~hist.overrun, TypeInv',
         FreeSlot
  PROVE  ForestInv(ch)'
<1>0. PICK r \in Terminals : r = executing_terminal
  BY DEF SoundWith, TypeInv, TypeOK
<1>s. PICK s \in Slots : s = local[r].slot
  BY <1>0 DEF FreeSlot, At, run, SoundWith, TypeInv, ThreadOK
<1>1. /\ pc[r] = "free" /\ pc' = [pc EXCEPT ![r] = "unwind"]
      /\ processes' = processes \ {s}
      /\ hist' = [hist EXCEPT !.asked[s] = Shell]
      /\ UNCHANGED <<num_on_terminal, pcb, active_pcb, image, local>>
  BY <1>0, <1>s DEF FreeSlot, At, Goto, run, links, content, SlotsAfterHalt
<1>2. TypeOK /\ ForestInv(ch)
  BY DEF SoundWith, TypeInv
<1>3. /\ \A t \in Terminals : \A k \in 1 .. Depth(t) : ch[t][k] # s
      /\ \A t \in Terminals \ {r} : pc[t] \in Holding => local[t].slot # s
  BY <1>1, <1>2, <1>s DEF ForestInv, Apart, Holding
<1>4. \A t \in Terminals :
        /\ Depth(t)' = Depth(t) /\ Top(t)' = Top(t)
        /\ pc[t] = "frame" => pc'[t] = "frame"
        /\ pc'[t] \in Holding <=> pc[t] \in Holding /\ t # r
  BY <1>1, <1>2 DEF Depth, Top, Holding, Filling, Linking, TypeOK
<1>5. \A x \in Slots \ {s} : hist'.asked[x] = hist.asked[x]
  BY <1>1, <1>2 DEF TypeOK, History
<1>6. ASSUME NEW t \in Terminals PROVE Linked(ch, t)' /\ Loaded(ch, t)'
  <2>1. \A k \in 1 .. Depth(t) : ch[t][k] \in Slots \ {s}
    BY <1>2, <1>3, ChainSlots
  <2>2. SameChain(ch, t)
    BY <2>1, <1>1, <1>4, <1>5 DEF SameChain
  <2> QED
    BY <2>2, <1>2, <1>4, ChainFrame
<1>7. Distinct(ch)'
  BY <1>2, <1>4 DEF ForestInv, Distinct
<1>8. \A t \in Terminals : Apart(ch, t)'
  BY <1>1, <1>2, <1>4 DEF ForestInv, Apart
<1>9. Busy(ch)'
  <2>1. \A x \in Slots :
          /\ InChain(ch, x)' <=> InChain(ch, x)
          /\ InChain(ch, x) => x # s
    BY <1>3, <1>4 DEF InChain
  <2>2. \A x \in Slots : InHolding(x)' <=> InHolding(x) /\ x # s
    BY <1>1, <1>3, <1>4, <1>s DEF InHolding
  <2>3. \A x \in Slots : x \in processes <=> InChain(ch, x) \/ InHolding(x)
    BY <1>2 DEF ForestInv, Busy
  <2>4. \A x \in Slots : x \in processes' <=> x \in processes /\ x # s
    BY <1>1
  <2> QED
    BY <2>1, <2>2, <2>3, <2>4 DEF Busy
<1> QED
  BY <1>2, <1>6, <1>7, <1>8, <1>9 DEF ForestInv, Chains

\* Every step but the linking of a PCB keeps the chains as they are.
LEMMA QuietForest ==
  ASSUME NEW ch, SafePreemption, SoundWith(ch), ~hist.overrun, TypeInv',
         [Next]_vars, ~hist'.overrun, ~SetPcb
  PROVE  ForestInv(ch)'
<1>1. CASE SaveFrame \/ MarkSlot \/ UncountTerminal \/ FreeSlot
  BY <1>1, SaveFrameForest, MarkForest, LeaveForest, FreeForest
<1>2. CASE ~SaveFrame /\ ~MarkSlot /\ ~UncountTerminal /\ ~FreeSlot
  BY <1>2, QuietSlots, QuietChain, ForestFrame DEF SoundWith
<1> QED
  BY <1>1, <1>2

\* The linking of a PCB extends one of them.
LEMMA StepForest ==
  ASSUME NEW ch, SafePreemption, SoundWith(ch), ~hist.overrun, TypeInv',
         [Next]_vars, ~hist'.overrun
  PROVE  \E d : ForestInv(d)'
BY SetPcbForest, QuietForest

(***************************************************************************)
(* The counter, and the invariant as a whole.                              *)
(***************************************************************************)
\* Only four steps move a thread between the two sides of the count.
LEMMA UncountedKept ==
  ASSUME NEW ch, SafePreemption, SoundWith(ch), ~hist.overrun, TypeInv',
         ~hist'.overrun, [Next]_vars, ~MarkSlot, ~StoreCount, ~StoreUncount,
         ~FreeSlot
  PROVE  Uncounted' = Uncounted
<1> DEFINE U == {"count", "add", "leave", "free"}
<1> SUFFICES ASSUME NEW t \in Terminals
             PROVE  (pc'[t] \in U) = (pc[t] \in U)
  BY DEF Uncounted
<1> USE DEF TypeInv, TypeOK, run, At, Goto
<1> USE DEF thread
<1>a. TypeInv /\ \A u \in Terminals : ShapeOK(u)
  BY DEF SoundWith, ThreadsInv
<1>l. ASSUME NEW n \in Terminals, num_on_terminal[n] = 0, n # run
      PROVE  pc[n] \notin U
  BY <1>a, <1>l DEF ShapeOK, SafeRoot
<1>r. ASSUME Preemptible, num_on_terminal[run] = 0
      PROVE  pc[run] \notin U
  BY <1>a, <1>r DEF ShapeOK, Preemptible, CreatesRoot, SafeRoot, SafePreemption
<1>1. ASSUME NEW c \in Commands, Execute(c)
      PROVE (pc'[t] \in U) = (pc[t] \in U)
  BY <1>1, <1>a DEF Execute, Trap
<1>2. CASE CheckLimit
  BY <1>2, <1>a DEF CheckLimit, Fail
<1>3. CASE ParseCommand
  BY <1>3, <1>a DEF ParseCommand
<1>4. CASE LookUp
  <2>1. /\ pc[run] = "lookup"
        /\ \/ Fail
           \/ \E p \in {"refuse", "alloc"} : pc' = [pc EXCEPT ![run] = p]
    BY <1>4 DEF LookUp
  <2> QED
    BY <2>1, <1>a DEF Fail
<1>5. CASE LoadRefused
  BY <1>5, <1>a DEF LoadRefused, LoadCounter
<1>6. CASE StoreRefused
  BY <1>6, <1>a DEF StoreRefused, Fail
<1>7. CASE SearchSlot
  <2>1. /\ pc[run] = "alloc"
        /\ \E p \in {"alloc", "mark"} : pc' = [pc EXCEPT ![run] = p]
    BY <1>7, <1>a DEF SearchSlot, History
  <2> QED
    BY <2>1, <1>a
<1>8. CASE LoadCount
  BY <1>8, <1>a DEF LoadCount, LoadCounter
<1>9. CASE CountTerminal
  BY <1>9, <1>a DEF CountTerminal
<1>10. CASE MapPage
  BY <1>10, <1>a DEF MapPage
<1>11. CASE LoadImage
  BY <1>11, <1>a DEF LoadImage
<1>12. CASE SetPcb
  BY <1>12, <1>a DEF SetPcb
<1>13. CASE SaveFrame
  BY <1>13, <1>a DEF SaveFrame
<1>14. CASE EnterUser
  BY <1>14, <1>a DEF EnterUser, LeaveKernel
<1>15. CASE PickCurrent
  BY <1>15, <1>a DEF PickCurrent
<1>16. CASE LoadUncount
  BY <1>16, <1>a DEF LoadUncount, LoadCounter
<1>17. CASE UncountTerminal
  BY <1>17, <1>a DEF UncountTerminal
<1>18. CASE Unwind
  BY <1>18, <1>a DEF Unwind, RelaunchShell
<1>19. CASE RestoreParent
  BY <1>19, <1>a DEF RestoreParent, LeaveKernel
<1>20. CASE Halt
  BY <1>20, <1>a DEF Halt, Trap
<1>21. CASE Read
  BY <1>21, <1>a DEF Read, Trap
<1>22. CASE GetArgs
  BY <1>22, <1>a DEF GetArgs, Trap
<1>23. CASE ReadReturns
  BY <1>23, <1>a DEF ReadReturns, LeaveKernel
<1>24. CASE LaunchShell
  <2>1. PICK n \in Terminals :
          /\ n # run /\ num_on_terminal[n] = 0
          /\ pc' = [pc EXCEPT ![n] = "exec"]
    BY <1>24 DEF LaunchShell, Tick
  <2> QED
    BY <2>1, <1>l, <1>a
<1>25. CASE SwitchTo
  <2>1. /\ Preemptible
        /\ pc' = [u \in Terminals |->
                    IF num_on_terminal[u] = 0 THEN "none"
                    ELSE IF u = executing_terminal' /\ active_pcb[u] = NULL
                         THEN "fault" ELSE pc[u]]
    BY <1>25 DEF SwitchTo, Tick
  <2>2. pc'[t] # "fault"
    BY StepShape DEF ShapeOK
  <2> QED
    BY <2>1, <2>2, <1>l, <1>r, <1>a
<1>26. ASSUME NEW n \in Terminals, SwitchDisplay(n)
      PROVE (pc'[t] \in U) = (pc[t] \in U)
  BY <1>26, <1>a DEF SwitchDisplay
<1>27. CASE UNCHANGED vars
  BY <1>27, <1>a DEF vars
<1> HIDE DEF run, At, Goto, U
<1> QED
  BY <1>1, <1>2, <1>3, <1>4, <1>5, <1>6, <1>7, <1>8, <1>9, <1>10, <1>11,
     <1>12, <1>13, <1>14, <1>15, <1>16, <1>17, <1>18, <1>19, <1>20, <1>21,
     <1>22, <1>23, <1>24, <1>25, <1>26, <1>27
     DEF Next, ExecuteStep, HaltStep, UserStep, TimerStep

\* num_process_executing follows the busy slots, one behind in the middle of
\* sys_execute and of sys_halt and one more behind for each text file.
LEMMA StepCounted ==
  ASSUME NEW ch, SafePreemption, SoundWith(ch), ~hist.overrun, TypeInv',
         [Next]_vars, ~hist'.overrun
  PROVE  Counted'
<1>0. PICK r \in Terminals : r = executing_terminal
  BY DEF SoundWith, TypeInv, TypeOK
<1>1. /\ TypeOK /\ Counted /\ TypeOK'
      /\ num_process_executing \in Int /\ hist.drift \in Nat
  BY DEF SoundWith, TypeInv, TypeOK, History
<1>2. /\ IsFiniteSet(processes) /\ IsFiniteSet(Uncounted)
      /\ Cardinality(processes) \in Nat /\ Cardinality(Uncounted) \in Nat
  BY <1>1, CounterBound, FS_CardinalityType
<1>a. SlotOK(r) /\ LocalOK(r) /\ ThreadOK(r) /\ ForestInv(ch)
  BY <1>0 DEF SoundWith, AliveInv, Alive, ReadyOK, ThreadsInv, TypeInv, run
<1>3. CASE MarkSlot
  <2>1. /\ pc[r] = "mark" /\ pc' = [pc EXCEPT ![r] = "count"]
        /\ processes' = processes \cup {local[r].slot}
        /\ UNCHANGED <<num_process_executing, hist>>
    BY <1>0, <1>3 DEF MarkSlot, At, Goto, run
  <2>2. local[r].slot \notin processes
    BY <2>1, <1>a DEF SlotOK
  <2>3. Uncounted' = Uncounted \cup {r} /\ r \notin Uncounted
    BY <2>1, <1>1 DEF Uncounted, TypeOK
  <2>4. /\ Cardinality(processes') = Cardinality(processes) + 1
        /\ Cardinality(Uncounted') = Cardinality(Uncounted) + 1
    BY <2>1, <2>2, <2>3, <1>2, FS_AddElement
  <2> QED
    BY <2>1, <2>4, <1>1, <1>2 DEF Counted
<1>4. CASE StoreCount
  <2>1. /\ pc[r] = "add" /\ pc' = [pc EXCEPT ![r] = "join"]
        /\ num_process_executing' = local[r].count + 1
        /\ UNCHANGED <<hist, processes>>
    BY <1>0, <1>4 DEF StoreCount, At, Goto, run
  <2>2. local[r].count = num_process_executing
    BY <2>1, <1>a DEF SlotOK
  <2>3. Uncounted' = Uncounted \ {r} /\ r \in Uncounted
    BY <2>1, <1>1 DEF Uncounted, TypeOK
  <2>4. Cardinality(Uncounted') = Cardinality(Uncounted) - 1
    BY <2>3, <1>2, FS_RemoveElement
  <2> QED
    BY <2>1, <2>2, <2>4, <1>1, <1>2 DEF Counted
<1>5. CASE StoreUncount
  <2>1. /\ pc[r] = "subtract" /\ pc' = [pc EXCEPT ![r] = "leave"]
        /\ num_process_executing' = local[r].count - 1
        /\ UNCHANGED <<hist, processes>>
    BY <1>0, <1>5 DEF StoreUncount, CountAfterHalt, At, Goto, run
  <2>2. local[r].count = num_process_executing
    BY <2>1, <1>a DEF SlotOK
  <2>3. Uncounted' = Uncounted \cup {r} /\ r \notin Uncounted
    BY <2>1, <1>1 DEF Uncounted, TypeOK
  <2>4. Cardinality(Uncounted') = Cardinality(Uncounted) + 1
    BY <2>3, <1>2, FS_AddElement
  <2> QED
    BY <2>1, <2>2, <2>4, <1>1, <1>2 DEF Counted
<1>6. CASE FreeSlot
  <2>1. PICK s \in Slots : s = local[r].slot
    BY <1>0, <1>6, <1>a DEF FreeSlot, At, run, ThreadOK
  <2>2. /\ pc[r] = "free" /\ pc' = [pc EXCEPT ![r] = "unwind"]
        /\ processes' = processes \ {s}
        /\ num_process_executing' = num_process_executing
        /\ hist'.drift = hist.drift
    BY <1>0, <1>1, <1>6, <2>1 DEF FreeSlot, SlotsAfterHalt, At, Goto, run,
       TypeOK, History
  <2>3. s \in processes
    BY <2>1, <2>2, <1>a DEF ForestInv, Busy, InHolding, Holding
  <2>4. Uncounted' = Uncounted \ {r} /\ r \in Uncounted
    BY <2>2, <1>1 DEF Uncounted, TypeOK
  <2>5. /\ Cardinality(processes') = Cardinality(processes) - 1
        /\ Cardinality(Uncounted') = Cardinality(Uncounted) - 1
    BY <2>2, <2>3, <2>4, <1>2, FS_RemoveElement
  <2> QED
    BY <2>2, <2>5, <1>1, <1>2 DEF Counted
<1>7. CASE ~MarkSlot /\ ~StoreCount /\ ~StoreUncount /\ ~FreeSlot
  <2>1. Uncounted' = Uncounted
    BY <1>7, UncountedKept
  <2>2. processes' = processes
    <3>1. CASE SetPcb
      BY <3>1 DEF SetPcb, counts
    <3>2. CASE UncountTerminal
      BY <3>2 DEF UncountTerminal
    <3>3. CASE ~SetPcb /\ ~UncountTerminal
      BY <1>7, <3>3, QuietSlots DEF SameSlots
    <3> QED
      BY <3>1, <3>2, <3>3
  <2>3. num_process_executing' + hist'.drift =
          num_process_executing + hist.drift
    <3>1. CASE StoreRefused
      <4>1. /\ pc[r] = "lower" /\ num_process_executing' = local[r].count - 1
            /\ hist' = [hist EXCEPT !.drift = @ + 1]
        BY <1>0, <3>1 DEF StoreRefused, Refuse, At, run
      <4>2. local[r].count = num_process_executing
        BY <4>1, <1>a DEF SlotOK
      <4> QED
        BY <4>1, <4>2, <1>1 DEF TypeOK, History
    <3>2. CASE ~StoreRefused
      <4>1. num_process_executing' = num_process_executing
        BY <1>7, <3>2 DEF Next, ExecuteStep, HaltStep, UserStep, TimerStep,
           vars, Execute, CheckLimit, ParseCommand, LookUp, LoadRefused,
           LoadCounter, SearchSlot, LoadCount, CountTerminal, MapPage,
           LoadImage, SetPcb, SaveFrame, EnterUser, PickCurrent, LoadUncount,
           UncountTerminal, Unwind, RestoreParent, Halt, Read, GetArgs,
           ReadReturns, LaunchShell, SwitchTo, SwitchDisplay, counts
      <4>2. hist'.drift = hist.drift
        <5>1. UNCHANGED hist \/ SearchSlot \/ SetPcb
          BY <1>7, <3>2, HistoryFrame
        <5> QED
          BY <5>1, <1>1 DEF SearchSlot, SetPcb, TypeOK, History
      <4> QED
        BY <4>1, <4>2
    <3> QED
      BY <3>1, <3>2
  <2> QED
    BY <2>1, <2>2, <2>3, <1>1, <1>2 DEF Counted, TypeOK, History
<1> QED
  BY <1>3, <1>4, <1>5, <1>6, <1>7

\* The kernel starts with empty chains.
LEMMA InitSound == Init => \E ch : SoundWith(ch)
<1> SUFFICES ASSUME Init PROVE \E ch : SoundWith(ch)
  OBVIOUS
<1> USE DEF Init
<1>1. TypeInv /\ TypeOK /\ 0 \in Terminals /\ 0 \in Slots
  BY InitTypeInv DEF TypeInv, Terminals, Slots
<1>2. \A t \in Terminals :
        /\ num_on_terminal[t] = 0 /\ pc[t] \in {"none", "exec"}
        /\ pc[t] = "exec" => t = 0
        /\ local[t].command = Shell /\ local[t].caller = 0
        /\ Depth(t) = 0 /\ pc[t] \notin Holding
  BY DEF Depth, Holding, Filling, Linking, NoLocal
<1>3. ThreadsInv
  BY <1>2 DEF ThreadsInv, ShapeOK, LocalOK, StackOK, FreeOK, Nested, SafeRoot,
     run, Choosing, Filling, Linking, Entering, Leaving
<1>4. AliveInv
  <2>1. \A t \in Terminals : Alive(t) => t = 0
    BY DEF Alive, Waiting, run, Terminals
  <2> QED
    BY <1>1, <1>2, <2>1 DEF AliveInv, ReadyOK, PageOK, Esp0OK, ParsedOK,
       HaltOK, SlotOK, RoomOK, Nested, Restarting, Choosing, Filling, Linking,
       Entering
<1>5. Counted
  <2>1. Uncounted = {} /\ processes = {}
    BY <1>2 DEF Uncounted
  <2>2. Cardinality({}) = 0
    BY FS_EmptySet
  <2> QED
    BY <2>1, <2>2 DEF Counted
<1> DEFINE ch == [t \in Terminals |-> [k \in Nat |-> 0]]
<1>6. ForestInv(ch)
  <2>1. ch \in Chains
    BY <1>1 DEF Chains
  <2>2. \A t \in Terminals : Linked(ch, t) /\ Loaded(ch, t) /\ Apart(ch, t)
    BY <1>2 DEF Linked, Loaded, Apart
  <2>3. Distinct(ch) /\ Busy(ch)
    BY <1>2 DEF Distinct, Busy, InChain, InHolding
  <2> QED
    BY <2>1, <2>2, <2>3 DEF ForestInv
<1> QED
  BY <1>1, <1>3, <1>4, <1>5, <1>6 DEF SoundWith

\* The invariant is inductive.
LEMMA StepSound ==
  ASSUME SafePreemption, IInv, [Next]_vars
  PROVE  IInv'
<1>1. TypeInv'
  BY StepTypeInv DEF IInv
<1> SUFFICES ASSUME ~hist'.overrun PROVE \E d : SoundWith(d)'
  BY <1>1 DEF IInv
<1>2. ~hist.overrun
  BY OverrunStays DEF IInv
<1>3. PICK ch : SoundWith(ch)
  BY <1>2 DEF IInv
<1>4. (\A t \in Terminals : ShapeOK(t)')
  BY <1>1, <1>2, <1>3, StepShape
<1>5. ThreadsInv'
  BY <1>1, <1>2, <1>3, <1>4, StepLocal, StepStack, StepFree DEF ThreadsInv
<1>6. AliveInv'
  BY <1>1, <1>2, <1>3, <1>4, StepAlive
<1>7. PICK d : ForestInv(d)'
  BY <1>1, <1>2, <1>3, StepForest
<1>8. Counted'
  BY <1>1, <1>2, <1>3, StepCounted
<1>9. SoundWith(d)'
  BY <1>1, <1>5, <1>6, <1>7, <1>8 DEF SoundWith
<1> QED
  BY <1>9

\* In every reachable state, as long as a free slot was always found, the
\* PCBs, slots, pages, stacks and counters that sys_execute, sys_halt and
\* context_switch share fit together (IInv), wherever the timer strikes among
\* the points of SafeNested and SafeRoot.
THEOREM Sound == ASSUME SafePreemption PROVE Spec => []IInv
<1>1. Init => IInv
  BY InitSound, InitTypeInv DEF IInv
<1>2. IInv /\ [Next]_vars => IInv'
  BY StepSound
<1> QED
  BY <1>1, <1>2, PTL DEF Spec

(***************************************************************************)
(* What follows from it.                                                   *)
(***************************************************************************)
\* A set of naturals has a least element: what the inductions below rest on.
LEMMA LeastNatural ==
  ASSUME NEW T, T \subseteq Nat, T # {}
  PROVE  \E x \in T : \A y \in T : x <= y
<1>1. PICK x \in T : \A y \in T : ~ (<<y, x>> \in OpToRel(<, Nat))
  BY NatLessThanWellFounded, WFMin, Zenon
<1>2. \A y \in T : ~(y < x)
  BY <1>1 DEF OpToRel
<1> QED
  BY <1>2

\* Ancestor, unfolded once; g shows that its recursion has a solution.
LEMMA AncestorDef ==
  ASSUME NEW t, NEW g,
         g = [k \in 0 .. MAX_NUM_PROCESS |->
               IF k = 0 THEN IF Depth(t) = 0 THEN NULL ELSE Top(t)
               ELSE IF g[k - 1] = NULL THEN NULL ELSE pcb[g[k - 1]].parent]
  PROVE  Ancestor(t) =
          [k \in 0 .. MAX_NUM_PROCESS |->
            IF k = 0 THEN IF Depth(t) = 0 THEN NULL ELSE Top(t)
            ELSE IF Ancestor(t)[k - 1] = NULL THEN NULL
            ELSE pcb[Ancestor(t)[k - 1]].parent]
<1> DEFINE F == CHOOSE f : f = [k \in 0 .. MAX_NUM_PROCESS |->
               IF k = 0 THEN IF Depth(t) = 0 THEN NULL ELSE Top(t)
               ELSE IF f[k - 1] = NULL THEN NULL ELSE pcb[f[k - 1]].parent]
<1>1. Ancestor(t) = F
  BY DEF Ancestor
<1>2. F = [k \in 0 .. MAX_NUM_PROCESS |->
            IF k = 0 THEN IF Depth(t) = 0 THEN NULL ELSE Top(t)
            ELSE IF F[k - 1] = NULL THEN NULL ELSE pcb[F[k - 1]].parent]
  BY Zenon
<1> QED
  BY <1>1, <1>2, Zenon

\* k steps of parent_pcb above the last process is the process that the chain
\* has there: otherwise there were a least k for which it is not.
LEMMA AncestorIsChain ==
  ASSUME NEW ch, ForestInv(ch), NEW t \in Terminals
  PROVE  \A k \in 0 .. MAX_NUM_PROCESS :
           Ancestor(t)[k] = IF k < Depth(t) THEN ch[t][Depth(t) - k] ELSE NULL
<1> DEFINE D == Depth(t)
           g == [k \in 0 .. MAX_NUM_PROCESS |->
                  IF k < D THEN ch[t][D - k] ELSE NULL]
<1>1. /\ D \in Nat
      /\ D > 0 => ch[t][D] = Top(t) /\ pcb[ch[t][1]].parent = NULL
      /\ \A k \in 1 .. D - 1 : pcb[ch[t][k + 1]].parent = ch[t][k]
  BY DEF ForestInv, Linked
<1>2. \A k \in 1 .. D : ch[t][k] \in Slots /\ ch[t][k] # NULL
  BY <1>1, ChainSlots, NullNotASlot
<1> HIDE DEF D
<1>3. ASSUME NEW k \in 0 .. MAX_NUM_PROCESS, k # 0
      PROVE  (IF k < D THEN ch[t][D - k] ELSE NULL) =
              IF (IF k - 1 < D THEN ch[t][D - (k - 1)] ELSE NULL) = NULL
                THEN NULL
                ELSE pcb[IF k - 1 < D THEN ch[t][D - (k - 1)] ELSE NULL].parent
  <2>1. CASE k < D
    <3>1. /\ k - 1 < D /\ D - (k - 1) \in 1 .. D /\ D - k \in 1 .. D - 1
          /\ (D - k) + 1 = D - (k - 1)
      BY <2>1, <1>1, <1>3
    <3>2. pcb[ch[t][(D - k) + 1]].parent = ch[t][D - k]
      BY <3>1, <1>1
    <3> QED
      BY <3>1, <3>2, <2>1, <1>2
  <2>2. CASE k = D
    <3>1. k - 1 < D /\ D - (k - 1) = 1 /\ D > 0 /\ 1 \in 1 .. D
      BY <2>2, <1>1, <1>3
    <3> QED
      BY <3>1, <2>2, <1>1, <1>2
  <2>3. CASE k > D
    BY <2>3, <1>1, <1>3
  <2> QED
    BY <2>1, <2>2, <2>3, <1>1, <1>3
<1>4. g = [k \in 0 .. MAX_NUM_PROCESS |->
            IF k = 0 THEN IF D = 0 THEN NULL ELSE Top(t)
            ELSE IF g[k - 1] = NULL THEN NULL ELSE pcb[g[k - 1]].parent]
  <2> SUFFICES ASSUME NEW k \in 0 .. MAX_NUM_PROCESS
               PROVE  (IF k < D THEN ch[t][D - k] ELSE NULL) =
                      IF k = 0 THEN IF D = 0 THEN NULL ELSE Top(t)
                      ELSE IF g[k - 1] = NULL THEN NULL
                      ELSE pcb[g[k - 1]].parent
    OBVIOUS
  <2>1. CASE k = 0
    BY <2>1, <1>1
  <2>2. CASE k # 0
    <3>1. g[k - 1] = IF k - 1 < D THEN ch[t][D - (k - 1)] ELSE NULL
      BY <2>2
    <3> HIDE DEF g
    <3> QED
      BY <3>1, <2>2, <1>3
  <2> QED
    BY <2>1, <2>2
<1> HIDE DEF g
<1>5. Ancestor(t) =
        [k \in 0 .. MAX_NUM_PROCESS |->
          IF k = 0 THEN IF D = 0 THEN NULL ELSE Top(t)
          ELSE IF Ancestor(t)[k - 1] = NULL THEN NULL
          ELSE pcb[Ancestor(t)[k - 1]].parent]
  BY <1>4, AncestorDef DEF D
<1> DEFINE T == {k \in 0 .. MAX_NUM_PROCESS : Ancestor(t)[k] # g[k]}
<1>6. T = {}
  <2> SUFFICES ASSUME T # {} PROVE FALSE
    OBVIOUS
  <2>1. PICK k \in T : \A y \in T : k <= y
    <3>1. T \subseteq Nat
      OBVIOUS
    <3> HIDE DEF T
    <3> QED
      BY <3>1, LeastNatural
  <2>2. CASE k = 0
    BY <2>1, <2>2, <1>4, <1>5
  <2>3. CASE k # 0
    <3>1. k - 1 \in 0 .. MAX_NUM_PROCESS /\ k - 1 \notin T
      BY <2>1, <2>3
    <3>2. Ancestor(t)[k - 1] = g[k - 1]
      BY <3>1
    <3>3. Ancestor(t)[k] = IF Ancestor(t)[k - 1] = NULL THEN NULL
                         ELSE pcb[Ancestor(t)[k - 1]].parent
      BY <2>3, <1>5
    <3>4. g[k] = IF g[k - 1] = NULL THEN NULL ELSE pcb[g[k - 1]].parent
      BY <2>3, <1>4
    <3> QED
      BY <2>1, <3>2, <3>3, <3>4
  <2> QED
    BY <2>2, <2>3
<1>7. \A k \in 0 .. MAX_NUM_PROCESS : Ancestor(t)[k] = g[k]
  BY <1>6
<1> QED
  BY <1>7 DEF g, D

\* The processes of a terminal are those of its chain, all different.
LEMMA ChainMembers ==
  ASSUME NEW ch, ForestInv(ch), NEW t \in Terminals
  PROVE  /\ Depth(t) \in 0 .. MAX_NUM_PROCESS
         /\ Members(t) = {ch[t][k] : k \in 1 .. Depth(t)}
         /\ Cardinality(Members(t)) = Depth(t)
<1> DEFINE D == Depth(t)
           f == [k \in 1 .. D |-> ch[t][k]]
           M == {ch[t][k] : k \in 1 .. D}
<1>1. /\ D \in Nat
      /\ \A k \in 1 .. D : ch[t][k] \in Slots
  BY ChainSlots DEF ForestInv, Linked
<1>2. \A j, k \in 1 .. D : ch[t][j] = ch[t][k] => j = k
  BY DEF ForestInv, Distinct
<1> HIDE DEF D
<1>3. f \in Injection(1 .. D, Slots) /\ f \in Bijection(1 .. D, M)
  BY <1>1, <1>2 DEF Injection, Bijection, Surjection, IsInjective
<1>4. /\ IsFiniteSet(1 .. D) /\ Cardinality(1 .. D) = D
      /\ IsFiniteSet(Slots) /\ Cardinality(Slots) = MAX_NUM_PROCESS
  BY <1>1, FS_Interval DEF Slots
<1>5. D <= MAX_NUM_PROCESS
  BY <1>3, <1>4, FS_Injection
<1>6. Cardinality(M) = D
  <2>1. ExistsBijection(1 .. D, M)
    BY <1>3 DEF ExistsBijection
  <2> QED
    BY <2>1, <1>4, FS_Bijection
<1>7. Members(t) = M
  <2>1. \A k \in 0 .. MAX_NUM_PROCESS :
          Ancestor(t)[k] = IF k < D THEN ch[t][D - k] ELSE NULL
    BY AncestorIsChain DEF D
  <2>2. ASSUME NEW s \in Members(t) PROVE s \in M
    <3>1. PICK k \in 0 .. MAX_NUM_PROCESS : s = Ancestor(t)[k] /\ s # NULL
      BY <2>2 DEF Members
    <3>2. k < D /\ s = ch[t][D - k] /\ D - k \in 1 .. D
      BY <3>1, <2>1, <1>1
    <3> QED
      BY <3>2
  <2>3. ASSUME NEW k \in 1 .. D PROVE ch[t][k] \in Members(t)
    <3>1. /\ D - k \in 0 .. MAX_NUM_PROCESS /\ D - k < D /\ D - (D - k) = k
      BY <1>1, <1>5
    <3>2. Ancestor(t)[D - k] = ch[t][k]
      BY <3>1, <2>1
    <3>3. ch[t][k] # NULL
      BY <1>1, NullNotASlot
    <3> QED
      BY <3>1, <3>2, <3>3 DEF Members
  <2> QED
    BY <2>2, <2>3
<1> QED
  BY <1>1, <1>5, <1>6, <1>7 DEF D

\* What the invariant says of the processes of all terminals.
LEMMA SoundForest ==
  ASSUME NEW ch, SoundWith(ch)
  PROVE  ProcessForest
<1>1. ForestInv(ch) /\ TypeOK /\ TypeInv
  BY DEF SoundWith, TypeInv
<1>2. \A t \in Terminals : Members(t) = {ch[t][k] : k \in 1 .. Depth(t)}
  BY <1>1, ChainMembers
<1>3. \A t \in Terminals : Cardinality(Members(t)) = Depth(t)
  BY <1>1, ChainMembers
<1>4. ASSUME NEW t \in Terminals, NEW u \in Terminals, t # u
      PROVE  Members(t) \cap Members(u) = {}
  BY <1>1, <1>2, <1>4 DEF ForestInv, Distinct
<1>5. \A s : InChain(ch, s) <=> s \in UNION {Members(t) : t \in Terminals}
  BY <1>2 DEF InChain
<1>6. \A s : InHolding(s) <=> s \in Pending
  BY DEF InHolding, Pending, Holding, Filling, Linking
<1>7. UNION {Members(t) : t \in Terminals} \subseteq Slots
  BY <1>1, <1>2, ChainSlots
<1>8. Pending \subseteq Slots
  BY <1>1 DEF Pending, TypeInv, ThreadOK
<1>9. processes = (UNION {Members(t) : t \in Terminals}) \cup Pending
  <2> DEFINE U == UNION {Members(t) : t \in Terminals}
  <2> HIDE DEF U
  <2>1. \A s \in Slots : s \in processes <=> s \in U \/ s \in Pending
    BY <1>1, <1>5, <1>6 DEF ForestInv, Busy, U
  <2>2. U \subseteq Slots /\ processes \subseteq Slots
    BY <1>1, <1>7 DEF TypeOK, U
  <2>3. processes = U \cup Pending
    BY <2>1, <2>2, <1>8
  <2> QED
    BY <2>3 DEF U
<1> QED
  BY <1>3, <1>4, <1>9 DEF ProcessForest

\* What it says of the page and the stack of a program that runs.
LEMMA SoundContext ==
  ASSUME NEW ch, SoundWith(ch)
  PROVE  UserContext
<1>1. /\ executing_terminal \in Terminals /\ TypeOK
      /\ ShapeOK(executing_terminal)
      /\ PageOK(executing_terminal) /\ Esp0OK(executing_terminal)
  BY DEF SoundWith, TypeInv, TypeOK, ThreadsInv, AliveInv, Alive, ReadyOK, run
<1> QED
  BY <1>1 DEF UserContext, ShapeOK, PageOK, Esp0OK, Nested, SafeRoot, Linking,
     Entering, TypeOK

\* What it says of the pages of all processes.
LEMMA SoundImages ==
  ASSUME NEW ch, SoundWith(ch)
  PROVE  ImageAsAsked
<1>1. ForestInv(ch)
  BY DEF SoundWith
<1>2. \A t \in Terminals : Members(t) = {ch[t][k] : k \in 1 .. Depth(t)}
  BY <1>1, ChainMembers
<1> QED
  BY <1>1, <1>2 DEF ImageAsAsked, ForestInv, Loaded

\* What it says of the stack that the next trap uses.
LEMMA SoundStacks ==
  ASSUME NEW ch, SafePreemption, SoundWith(ch)
  PROVE  TrapStackFree
<1> SUFFICES ASSUME pc[executing_terminal] = "user" PROVE TrapStackFree
  BY DEF TrapStackFree
<1>0. PICK r \in Terminals : r = executing_terminal
  BY DEF SoundWith, TypeInv, TypeOK
<1>1. ForestInv(ch) /\ TypeOK /\ TypeInv
  BY DEF SoundWith, TypeInv
<1>2. esp0 = active_pcb[r] /\ esp0 \in Slots
  BY <1>0, <1>1, SoundContext DEF UserContext, TypeOK
<1>3. ch[r][Depth(r)] = esp0 /\ Depth(r) \in Nat \ {0}
  <2>1. ShapeOK(r) /\ Linked(ch, r)
    BY <1>1 DEF SoundWith, ThreadsInv, ForestInv
  <2>2. Depth(r) = num_on_terminal[r] /\ Depth(r) > 0 /\ Top(r) = active_pcb[r]
    BY <2>1, <1>0 DEF ShapeOK, SafeRoot, Depth, Top
  <2> QED
    BY <2>1, <2>2, <1>2 DEF Linked
<1>4. \A t \in Terminals : \A k \in 1 .. Depth(t) :
        ch[t][k] = esp0 => t = r /\ k = Depth(r)
  <2>1. Depth(r) \in 1 .. Depth(r)
    BY <1>3
  <2> QED
    BY <2>1, <1>1, <1>3 DEF ForestInv, Distinct
<1>5. ASSUME NEW t \in Terminals \ {r}, num_on_terminal[t] # 0
      PROVE  kstack[t] # esp0
  <2>1. /\ ShapeOK(t) /\ StackOK(t) /\ Linked(ch, t)
        /\ pc[t] \in SafeNested
    BY <1>0, <1>1, <1>5 DEF SoundWith, ThreadsInv, ForestInv, ShapeOK, run,
       SafePreemption
  <2>2. Nested(t)
    BY <2>1, <1>0, <1>5 DEF ShapeOK, Nested, SafeNested, Linking, Entering, run
  <2>3. CASE pc[t] = "free"
    <3>1. kstack[t] = active_pcb[t] /\ local[t].slot = active_pcb[t]
      BY <2>1, <2>2, <2>3, <1>1 DEF StackOK, LocalOK, Leaving, SoundWith,
         ThreadsInv
    <3>2. Depth(r) \in 1 .. Depth(r)
      BY <1>3
    <3>3. ch[r][Depth(r)] # local[t].slot
      BY <3>2, <2>3, <1>1 DEF ForestInv, Apart, Holding
    <3> QED
      BY <3>1, <3>3, <1>3
  <2>4. CASE pc[t] # "free"
    <3>1. /\ Depth(t) \in Nat \ {0}
          /\ Top(t) = active_pcb[t]
          /\ pc[t] = "enter" => Depth(t) > 1
      BY <2>1, <2>4, <1>0, <1>5 DEF ShapeOK, Depth, Top, SafeNested, run
    <3>2. ch[t][Depth(t)] = active_pcb[t] /\ Depth(t) \in 1 .. Depth(t)
      BY <2>1, <3>1 DEF Linked
    <3>3. active_pcb[t] # esp0
      BY <3>2, <1>4, <1>5
    <3>4. CASE pc[t] = "enter"
      <4>1. /\ Depth(t) - 1 \in 1 .. Depth(t) - 1
            /\ Depth(t) - 1 \in 1 .. Depth(t)
            /\ Depth(t) - 1 + 1 = Depth(t)
        BY <3>1, <3>4
      <4>2. pcb[active_pcb[t]].parent = ch[t][Depth(t) - 1]
        BY <4>1, <2>1, <3>2 DEF Linked
      <4>3. kstack[t] = pcb[active_pcb[t]].parent
        BY <2>1, <2>2, <3>4 DEF StackOK, Entering
      <4> QED
        BY <4>1, <4>2, <4>3, <1>4, <1>5
    <3>5. CASE pc[t] # "enter"
      <4>1. kstack[t] \in {NULL, active_pcb[t]}
        BY <2>1, <2>2, <3>5 DEF StackOK, SafeNested, Choosing, Filling,
           Linking, Leaving
      <4> QED
        BY <4>1, <3>3, <1>2, NullNotASlot
    <3> QED
      BY <3>4, <3>5
  <2> QED
    BY <2>3, <2>4
<1>6. ASSUME NEW t \in Terminals, NEW s \in Members(t), pcb[s].parent # NULL
      PROVE  pcb[s].esp # esp0
  <2>1. PICK k \in 1 .. Depth(t) : s = ch[t][k]
    BY <1>1, ChainMembers
  <2>2. Linked(ch, t) /\ Depth(t) \in Nat /\ Depth(t) > 0
    BY <1>1, <2>1, ChainSlots DEF ForestInv
  <2>3. k # 1
    BY <2>1, <2>2, <1>6 DEF Linked
  <2>4. /\ k - 1 \in 1 .. Depth(t) - 1 /\ k - 1 \in 1 .. Depth(t)
        /\ k - 1 + 1 = k /\ k - 1 # Depth(t)
    BY <2>2, <2>3
  <2>5. pc[t] # "frame"
    BY <2>2, <1>0 DEF SoundWith, ThreadsInv, ShapeOK, SafePreemption,
       SafeNested, SafeRoot, run, Depth
  <2>6. pcb[s].esp = ch[t][k - 1]
    BY <2>1, <2>2, <2>4, <2>5 DEF Linked
  <2> QED
    BY <2>4, <2>6, <1>4
<1> QED
  BY <1>0, <1>5, <1>6 DEF TrapStackFree

\* What it says of the null PCB.
LEMMA SoundNoFault ==
  ASSUME NEW ch, SoundWith(ch)
  PROVE  NoFault
BY DEF SoundWith, ThreadsInv, ShapeOK, NoFault

\* The timer at the points of SafeNested and SafeRoot makes sys_execute and
\* sys_halt neither leak a slot nor give it twice: as long as each search found
\* one, the busy slots are those of the chains of parent_pcb, as long as the
\* counts say, and of the calls about to fill or to free one.
THEOREM ForestCorrect == ASSUME SafePreemption PROVE Spec => []ProcessForest
<1>1. IInv => ProcessForest
  BY SoundForest DEF IInv, ProcessForest
<1> QED
  BY <1>1, Sound, PTL

\* num_process_executing is the number of busy slots less the text files that
\* executable_check refused and the calls between slot and counter: no store
\* of a preempted call overwrites another's, when the timer strikes only at
\* those points and as long as each search found a slot.
THEOREM CounterCorrect == ASSUME SafePreemption PROVE Spec => []CounterAgrees
<1>1. IInv => CounterAgrees
  BY DEF IInv, SoundWith, CounterAgrees, Counted
<1> QED
  BY <1>1, Sound, PTL

\* Neither context_switch nor sys_halt ever uses a null PCB.
THEOREM NeverFaults ==
  ASSUME SafePreemption PROVE Spec => [](~hist.overrun => NoFault)
<1>1. IInv => (~hist.overrun => NoFault)
  BY SoundNoFault DEF IInv
<1> QED
  BY <1>1, Sound, PTL

\* A program runs in its own page and traps to its own stack, whoever put it
\* there: sys_execute, sys_halt or context_switch.
THEOREM ContextCorrect ==
  ASSUME SafePreemption PROVE Spec => [](~hist.overrun => UserContext)
<1>1. IInv => (~hist.overrun => UserContext)
  BY SoundContext DEF IInv
<1> QED
  BY <1>1, Sound, PTL

\* The trap of a running program overwrites no frame that a preempted terminal
\* or a parent in sys_execute will return to.
THEOREM StacksDisjoint ==
  ASSUME SafePreemption PROVE Spec => [](~hist.overrun => TrapStackFree)
<1>1. SafePreemption /\ IInv => (~hist.overrun => TrapStackFree)
  BY SoundStacks DEF IInv
<1>2. IInv => (~hist.overrun => TrapStackFree)
  BY <1>1
<1> QED
  BY <1>2, Sound, PTL

\* Each process has in its page the program that its execute asked for.
THEOREM ImagesCorrect ==
  ASSUME SafePreemption PROVE Spec => [](~hist.overrun => ImageAsAsked)
<1>1. IInv => (~hist.overrun => ImageAsAsked)
  BY SoundImages DEF IInv
<1> QED
  BY <1>1, Sound, PTL

\* The search for a slot does not fail, when no text file was executed and the
\* timer strikes at no point of NoGap.
LEMMA SoundLimit ==
  ASSUME NEW ch, SafePreemption, NoGap, SoundWith(ch), hist.drift = 0,
         pc[run] = "alloc", local[run].slot \in processes,
         local[run].slot + 1 \notin Slots
  PROVE  FALSE
<1>0. PICK r \in Terminals : r = executing_terminal
  BY DEF SoundWith, TypeInv, TypeOK
<1>1. num_process_executing < MAX_NUM_PROCESS /\ SlotOK(r)
  BY <1>0 DEF SoundWith, AliveInv, Alive, ReadyOK, RoomOK, run
<1>2. Uncounted = {}
  BY <1>0 DEF Uncounted, SoundWith, ThreadsInv, ShapeOK, NoGap, SafeRoot, run,
     SafePreemption, SafeNested
<1>3. PICK s \in Slots : s = local[r].slot
  BY <1>0 DEF SoundWith, TypeInv, TypeOK, run
<1>4. /\ \A x \in 0 .. s - 1 : x \in processes
      /\ s \in processes /\ s + 1 \notin Slots
  BY <1>0, <1>1, <1>3 DEF SlotOK, run
<1>5. processes = Slots
  <2>1. processes \subseteq Slots
    BY DEF SoundWith, TypeInv, TypeOK
  <2>2. MAX_NUM_PROCESS \in Nat
    BY SizesAssumption
  <2>3. s \in Int /\ 0 <= s /\ s + 1 = MAX_NUM_PROCESS
    BY <2>2, <1>4 DEF Slots
  <2>4. ASSUME NEW x \in Slots PROVE x \in processes
    <3>1. x = s \/ x \in 0 .. s - 1
      BY <2>2, <2>3 DEF Slots
    <3> QED
      BY <3>1, <1>4
  <2> QED
    BY <2>1, <2>4
<1>6. Cardinality({}) = 0
  BY FS_EmptySet
<1>7. Cardinality(Slots) = MAX_NUM_PROCESS
  <2>1. MAX_NUM_PROCESS \in Nat
    BY SizesAssumption
  <2> QED
    BY <2>1, FS_Interval DEF Slots
<1> QED
  BY <1>1, <1>2, <1>5, <1>6, <1>7 DEF SoundWith, Counted, TypeInv,
     TypeOK, History

\* executable_check counts text files, and nothing gives them back.
LEMMA DriftGrows ==
  [Next]_vars /\ TypeOK => hist'.drift >= hist.drift
<1> SUFFICES ASSUME [Next]_vars, TypeOK PROVE hist'.drift >= hist.drift
  OBVIOUS
<1>1. UNCHANGED hist \/ SearchSlot \/ StoreRefused \/ SetPcb \/ FreeSlot
  BY HistoryFrame
<1> QED
  BY <1>1 DEF SearchSlot, StoreRefused, SetPcb, FreeSlot, TypeOK, History

\* "If there are already 6 processes running, return error" keeps the search
\* for a slot from failing, as long as no text file was executed and the timer
\* strikes nobody between the test of the limit and the count, nor between the
\* uncount and the release of the slot (NoGap).
THEOREM LimitCorrect ==
  ASSUME SafePreemption, NoGap
  PROVE  Spec => [](hist.drift = 0 => LimitHolds)
<1> DEFINE Guard == hist.overrun => hist.drift > 0
<1>1. Init => Guard
  BY DEF Init
<1>2. Guard /\ IInv /\ [Next]_vars => Guard'
  <2> SUFFICES ASSUME Guard, IInv, [Next]_vars, hist'.overrun
               PROVE  hist'.drift > 0
    OBVIOUS
  <2>1. /\ TypeOK /\ hist.drift \in Nat /\ hist'.drift \in Nat
        /\ hist'.drift >= hist.drift
    BY DriftGrows, StepTypeInv DEF IInv, TypeInv, TypeOK, History
  <2>2. CASE hist.overrun
    BY <2>1, <2>2
  <2>3. CASE ~hist.overrun
    <3>1. SearchSlot
      <4>1. UNCHANGED hist \/ SearchSlot \/ StoreRefused \/ SetPcb \/ FreeSlot
        BY HistoryFrame
      <4> QED
        BY <4>1, <2>1, <2>3 DEF StoreRefused, SetPcb, FreeSlot, TypeOK, History
    <3>2. /\ pc[run] = "alloc" /\ local[run].slot \in processes
          /\ local[run].slot + 1 \notin Slots
      BY <3>1, <2>3 DEF SearchSlot, At
    <3>3. \E ch : SoundWith(ch)
      BY <2>3 DEF IInv
    <3>4. hist.drift # 0
      BY <3>2, <3>3, SoundLimit
    <3> QED
      BY <3>4, <2>1
  <2> QED
    BY <2>2, <2>3
<1>3. Spec => []Guard
  BY <1>1, <1>2, Sound, PTL DEF Spec
<1>4. Guard => (hist.drift = 0 => LimitHolds)
  BY DEF LimitHolds
<1> QED
  BY <1>3, <1>4, PTL

(***************************************************************************)
(* Processes implements Jobs.                                              *)
(***************************************************************************)
\* The variables of Jobs, in terms of those of Processes.
jobsOf == [t \in Terminals |-> Chain(t)]
askedOf == [t \in Terminals |-> InProgress(t)]
seenOf == IF pc[executing_terminal] = "user" THEN image[vir_page] ELSE NULL

\* The constants of Jobs are those of Processes.
LEMMA JobsTerminals == Jobs!Terminals = Terminals /\ Jobs!NONE = NULL
BY DEF Jobs!Terminals, Terminals, Jobs!NONE, NULL

\* The kernel starts without programs, asking for the shell of terminal 0.
LEMMA JobsInit == Init => Jobs!Init
<1> SUFFICES ASSUME Init PROVE Jobs!Init
  OBVIOUS
<1>1. ASSUME NEW t \in Terminals
      PROVE  Chain(t) = <<>> /\ InProgress(t) = IF t = 0 THEN Shell ELSE NULL
  BY DEF Init, Chain, Depth, InProgress, NoLocal
<1>2. executing_terminal = 0 /\ pc[executing_terminal] # "user"
  BY DEF Init, Terminals
<1>3. jobsOf = [t \in Terminals |-> <<>>]
  BY <1>1 DEF jobsOf
<1>4. askedOf = [t \in Terminals |-> IF t = 0 THEN Shell ELSE NULL]
  BY <1>1 DEF askedOf
<1> QED
  BY <1>2, <1>3, <1>4, JobsTerminals DEF Jobs!Init, jobsOf, askedOf

\* The job of a terminal is the programs in the pages of its chain.
ProgramsOf(ch, t) == [k \in 1 .. Depth(t) |-> image[ch[t][k]]]

\* They are those that Chain reads along parent_pcb.
LEMMA ChainIs ==
  \A c, u : ForestInv(c) /\ u \in Terminals =>
    /\ Depth(u) \in Nat
    /\ Chain(u) = ProgramsOf(c, u)
<1> SUFFICES ASSUME NEW ch, NEW t \in Terminals, ForestInv(ch)
             PROVE  /\ Depth(t) \in Nat
                    /\ Chain(t) = ProgramsOf(ch, t)
  OBVIOUS
<1>1. Depth(t) \in 0 .. MAX_NUM_PROCESS
  BY ChainMembers
<1>2. ASSUME NEW k \in 1 .. Depth(t)
      PROVE  Ancestor(t)[Depth(t) - k] = ch[t][k]
  <2>1. /\ Depth(t) - k \in 0 .. MAX_NUM_PROCESS /\ Depth(t) - k < Depth(t)
        /\ Depth(t) - (Depth(t) - k) = k
    BY <1>1
  <2> QED
    BY <2>1, AncestorIsChain
<1> QED
  BY <1>1, <1>2 DEF Chain, ProgramsOf

\* The same, written out.
LEMMA ChainsOf ==
  ASSUME NEW ch, ForestInv(ch)
  PROVE  \A t \in Terminals :
           /\ Depth(t) \in Nat
           /\ Chain(t) = [k \in 1 .. Depth(t) |-> image[ch[t][k]]]
<1> SUFFICES ASSUME NEW t \in Terminals
             PROVE  Depth(t) \in Nat /\ Chain(t) = ProgramsOf(ch, t)
  BY DEF ProgramsOf
<1> QED
  BY ChainIs

\* They are so in the next state.
LEMMA NextChains ==
  \A c, u : ForestInv(c)' /\ u \in Terminals =>
    /\ Depth(u)' \in Nat
    /\ Chain(u)' = ProgramsOf(c, u)'
<1>1. (\A c, u : ForestInv(c) /\ u \in Terminals =>
         /\ Depth(u) \in Nat
         /\ Chain(u) = ProgramsOf(c, u))'
  BY ChainIs, PTL
<1> QED
  BY <1>1

\* The same, written out.
LEMMA NextChainsOf ==
  ASSUME NEW ch, ForestInv(ch)'
  PROVE  \A t \in Terminals :
           /\ Depth(t)' \in Nat
           /\ Chain(t)' = [k \in 1 .. Depth(t)' |-> image'[ch[t][k]]]
<1> SUFFICES ASSUME NEW t \in Terminals
             PROVE  Depth(t)' \in Nat /\ Chain(t)' = ProgramsOf(ch, t)'
  BY DEF ProgramsOf
<1> QED
  BY NextChains

\* What the CPU executes in user mode is the last job of its terminal.
TopRuns ==
  seenOf # NULL =>
    /\ jobsOf[executing_terminal] # <<>>
    /\ askedOf[executing_terminal] = NULL
    /\ seenOf = jobsOf[executing_terminal][Len(jobsOf[executing_terminal])]

\* That is so because the page and active_pcb are those of the terminal.
LEMMA SoundTop == \A ch : SoundWith(ch) => TopRuns
<1> SUFFICES ASSUME NEW ch, SoundWith(ch), seenOf # NULL
             PROVE  /\ jobsOf[executing_terminal] # <<>>
                    /\ askedOf[executing_terminal] = NULL
                    /\ seenOf = jobsOf[executing_terminal]
                                     [Len(jobsOf[executing_terminal])]
  BY DEF TopRuns
<1>0. PICK r \in Terminals : r = executing_terminal
  BY DEF SoundWith, TypeInv, TypeOK
<1>1. pc[r] = "user" /\ seenOf = image[vir_page] /\ vir_page = active_pcb[r]
  BY <1>0, SoundContext DEF seenOf, UserContext
<1>2. ShapeOK(r) /\ Linked(ch, r) /\ ForestInv(ch)
  BY DEF SoundWith, ThreadsInv, ForestInv
<1>3. Depth(r) \in Nat \ {0} /\ Top(r) = active_pcb[r]
  BY <1>1, <1>2 DEF ShapeOK, SafeRoot, Depth, Top
<1>4. Chain(r) = [k \in 1 .. Depth(r) |-> image[ch[r][k]]]
  BY <1>2, ChainsOf
<1>5. Len(Chain(r)) = Depth(r) /\ Chain(r) # <<>>
  <2>1. Chain(r) \in Seq({image[ch[r][k]] : k \in 1 .. Depth(r)})
    BY <1>3, <1>4
  <2>2. DOMAIN Chain(r) = 1 .. Depth(r)
    BY <1>4
  <2> QED
    BY <2>1, <2>2, <1>3
<1>6. Chain(r)[Depth(r)] = image[active_pcb[r]]
  BY <1>2, <1>3, <1>4 DEF Linked
<1>7. jobsOf[r] = Chain(r) /\ askedOf[r] = NULL
  BY <1>1 DEF jobsOf, askedOf, InProgress
<1> QED
  BY <1>0, <1>1, <1>5, <1>6, <1>7

\* The same of the next state.
LEMMA NextTop == \A ch : SoundWith(ch)' => TopRuns'
<1>1. (\A ch : SoundWith(ch) => TopRuns)'
  BY SoundTop, PTL
<1> QED
  BY <1>1

\* No step but the linking of a PCB and the uncount of sys_halt changes the
\* programs of any terminal.
LEMMA JobsKept ==
  ASSUME NEW ch, SafePreemption, SoundWith(ch), ~hist.overrun, TypeInv',
         [Next]_vars, ~hist'.overrun, ~SetPcb,
         ~UncountTerminal
  PROVE  jobsOf' = jobsOf
<1>1. ForestInv(ch) /\ ForestInv(ch)'
  BY QuietForest DEF SoundWith
<1>2. \A t \in Terminals :
        /\ Depth(t)' = Depth(t)
        /\ \A k \in 1 .. Depth(t) : image'[ch[t][k]] = image[ch[t][k]]
  <2>1. CASE SaveFrame \/ MarkSlot \/ FreeSlot
    <3>1. image' = image /\ \A t \in Terminals : Depth(t)' = Depth(t)
      BY <2>1 DEF SaveFrame, MarkSlot, FreeSlot, content, counts, At, Goto,
         Depth, SoundWith, TypeInv, TypeOK, run
    <3> QED
      BY <3>1
  <2>2. CASE ~SaveFrame /\ ~MarkSlot /\ ~FreeSlot
    BY <2>2, QuietSlots, QuietChain DEF SameSlots, SameSlot, SameChain
  <2> QED
    BY <2>1, <2>2
<1>3. ASSUME NEW t \in Terminals PROVE Chain(t)' = Chain(t)
  <2>1. Chain(t) = [k \in 1 .. Depth(t) |-> image[ch[t][k]]]
    BY <1>1, ChainsOf
  <2>2. Chain(t)' = [k \in 1 .. Depth(t)' |-> image'[ch[t][k]]]
    BY <1>1, NextChainsOf
  <2> QED
    BY <2>1, <2>2, <1>2
<1> QED
  BY <1>3 DEF jobsOf

\* Steps of the program on top that start and end none.
LEMMA JobsOther ==
  ASSUME NEW ch, SafePreemption, SoundWith(ch), ~hist.overrun, TypeInv',
         [Next]_vars, ~hist'.overrun, ~SetPcb,
         ~UncountTerminal,
         executing_terminal' = executing_terminal,
         \A t \in Terminals : InProgress(t)' = InProgress(t)
  PROVE  Jobs!Other
<1>1. jobsOf' = jobsOf
  BY JobsKept
<1>2. askedOf' = askedOf
  BY DEF askedOf
<1> QED
  BY <1>1, <1>2 DEF Jobs!Other, jobsOf, askedOf

\* A program's execute.
LEMMA JobsAsk ==
  ASSUME NEW ch, SafePreemption, SoundWith(ch), ~hist.overrun, TypeInv',
         [Next]_vars, ~hist'.overrun, NEW c \in Commands, Execute(c)
  PROVE  Jobs!Ask(c)
<1>0. PICK r \in Terminals : r = executing_terminal
  BY DEF SoundWith, TypeInv, TypeOK
<1>1. /\ pc[r] = "user" /\ pc' = [pc EXCEPT ![r] = "exec"]
      /\ local' = [local EXCEPT ![r] =
                     [NoLocal EXCEPT !.command = c, !.caller = r]]
      /\ executing_terminal' = executing_terminal
  BY <1>0 DEF Execute, Trap, At, Goto, SetLocal, run, terminal
<1>2. TypeOK /\ TypeInv
  BY DEF SoundWith, TypeInv
<1>3. jobsOf' = jobsOf
  <2>1. ~SetPcb /\ ~UncountTerminal
    BY <1>0, <1>1 DEF SetPcb, UncountTerminal, At, run
  <2> QED
    BY <2>1, JobsKept
<1>4. seenOf # NULL
  <2>0. UserContext
    BY SoundContext
  <2>1. vir_page = active_pcb[r] /\ active_pcb[r] \in Slots
    BY <2>0, <1>0, <1>1, <1>2 DEF UserContext, TypeInv, ThreadOK
  <2> QED
    BY <2>1, <1>0, <1>1, <1>2 DEF seenOf, TypeOK
<1>5. \A t \in Terminals : InProgress(t)' = IF t = r THEN c ELSE InProgress(t)
  BY <1>1, <1>2 DEF InProgress, TypeOK, NoLocal
<1>6. askedOf' = [askedOf EXCEPT ![executing_terminal] = c]
  BY <1>0, <1>5 DEF askedOf
<1> QED
  BY <1>1, <1>3, <1>4, <1>6, JobsTerminals
     DEF Jobs!Ask, jobsOf, askedOf, seenOf

\* A terminal without processes has no jobs.
LEMMA EmptyChain ==
  ASSUME NEW t \in Terminals, num_on_terminal[t] = 0, pc[t] \notin Linking
  PROVE  Depth(t) = 0 /\ Chain(t) = <<>>
<1>1. pc[t] \notin {"map", "load", "pcb"}
  BY DEF Linking
<1>2. Depth(t) = 0 - 0
  BY <1>1 DEF Depth
<1>3. Depth(t) = 0
  BY <1>2
<1> QED
  BY <1>3 DEF Chain

\* The first shell of a terminal, started by context_switch or again by
\* sys_halt.
LEMMA JobsAskShell ==
  ASSUME NEW ch, SafePreemption, SoundWith(ch), ~hist.overrun, TypeInv',
         [Next]_vars, ~hist'.overrun,
         LaunchShell \/ (Unwind /\ pcb[local[run].slot].parent = NULL)
  PROVE  \E t \in Terminals : Jobs!AskShell(t)
<1>0. PICK r \in Terminals : r = executing_terminal
  BY DEF SoundWith, TypeInv, TypeOK
<1>1. TypeOK /\ TypeInv /\ ForestInv(ch)
  BY DEF SoundWith, TypeInv
<1>2. PICK q \in Terminals :
        /\ num_on_terminal[q] = 0 /\ pc[q] \notin Linking
        /\ pc' = [pc EXCEPT ![q] = "exec"]
        /\ local'[q].command = Shell
        /\ \A t \in Terminals \ {q} : local'[t] = local[t]
        /\ executing_terminal' = q
  <2>1. CASE LaunchShell
    <3>1. PICK q \in Terminals :
            /\ num_on_terminal[q] = 0 /\ q # run
            /\ pc' = [pc EXCEPT ![q] = "exec"]
            /\ local' = [local EXCEPT ![q] = [NoLocal EXCEPT !.caller = run]]
            /\ executing_terminal' = q
      BY <2>1 DEF LaunchShell, Tick, run
    <3>2. pc[q] \notin Linking
      BY <3>1 DEF SoundWith, ThreadsInv, ShapeOK, SafeRoot, Linking
    <3> QED
      BY <3>1, <3>2, <1>1 DEF NoLocal, TypeOK
  <2>2. CASE Unwind /\ pcb[local[run].slot].parent = NULL
    <3>1. /\ pc[r] = "unwind" /\ pc' = [pc EXCEPT ![r] = "exec"]
          /\ local' = [local EXCEPT ![r] = [NoLocal EXCEPT !.caller = r]]
          /\ executing_terminal' = r /\ pcb[local[r].slot].parent = NULL
      BY <2>2, <1>0 DEF Unwind, RelaunchShell, At, Goto, SetLocal, run,
         terminal
    <3>2. HaltOK(r) /\ pcb[local[r].slot] \in Pcb
      BY <1>0, <1>1, <3>1 DEF SoundWith, AliveInv, Alive, ReadyOK, run,
         TypeInv, TypeOK, ThreadOK
    <3>3. num_on_terminal[r] = 0
      BY <3>1, <3>2, NullNotASlot DEF HaltOK, Pcb
    <3> QED
      BY <3>1, <3>3, <1>1 DEF NoLocal, Linking, TypeOK
  <2> QED
    BY <2>1, <2>2
<1>3. jobsOf' = jobsOf
  <2>1. ~SetPcb /\ ~UncountTerminal
    BY DEF SetPcb, UncountTerminal, LaunchShell, Tick, Preemptible, Unwind, At,
       Goto,
       run, CreatesRoot, terminal, SoundWith, TypeInv, TypeOK
  <2> QED
    BY <2>1, JobsKept
<1>4. jobsOf[q] = <<>>
  BY <1>1, <1>2, EmptyChain DEF jobsOf
<1>5. \A t \in Terminals :
        InProgress(t)' = IF t = q THEN Shell ELSE InProgress(t)
  BY <1>1, <1>2 DEF InProgress, TypeOK
<1>6. askedOf' = [askedOf EXCEPT ![q] = Shell]
  BY <1>5 DEF askedOf
<1>7. Jobs!AskShell(q)
  BY <1>2, <1>3, <1>4, <1>6 DEF Jobs!AskShell, jobsOf, askedOf
<1> QED
  BY <1>7

\* Jobs counts as Processes does.
LEMMA JobsCardinality == \A S : Jobs!Cardinality(S) = Cardinality(S)
BY DEF Jobs!Cardinality, Cardinality, Jobs!IsFiniteSet, IsFiniteSet

\* When the slots are all busy, so are the places that Jobs speaks of.
LEMMA PlacesTaken ==
  ASSUME NEW ch, TypeInv, ForestInv(ch), processes = Slots,
         NEW r \in Terminals, r = executing_terminal, pc[r] \notin Holding,
         Uncounted = {}
  PROVE  Cardinality(Jobs!Taken) + Cardinality(Jobs!Starting)
           >= MAX_NUM_PROCESS
<1> DEFINE places == Terminals \X (1 .. MAX_NUM_PROCESS)
           T == {p \in places : p[2] \in 1 .. Depth(p[1])}
           S == {t \in Terminals \ {r} : askedOf[t] # NULL}
           A == {ch[p[1]][p[2]] : p \in T}
           B == {local[t].slot : t \in S}
<1>1. Jobs!Taken = T
  <2>1. \A t \in Terminals : DOMAIN Chain(t) = 1 .. Depth(t)
    BY ChainsOf
  <2> QED
    BY <2>1, JobsTerminals DEF Jobs!Taken
<1>2. Jobs!Starting = S
  BY JobsTerminals DEF Jobs!Starting, askedOf
<1>3. IsFiniteSet(T) /\ IsFiniteSet(S)
  <2>1. IsFiniteSet(Terminals) /\ IsFiniteSet(1 .. MAX_NUM_PROCESS)
    BY FS_Interval DEF Terminals
  <2>2. IsFiniteSet(places)
    BY <2>1, FS_Product
  <2> QED
    BY <2>1, <2>2, FS_Subset
<1>4. IsFiniteSet(A) /\ Cardinality(A) <= Cardinality(T)
  <2>1. [p \in T |-> ch[p[1]][p[2]]] \in Surjection(T, A)
    BY DEF Surjection
  <2> HIDE DEF T, A
  <2> QED
    BY <1>3, <2>1, FS_Surjection
<1>5. IsFiniteSet(B) /\ Cardinality(B) <= Cardinality(S)
  <2>1. [t \in S |-> local[t].slot] \in Surjection(S, B)
    BY DEF Surjection
  <2> HIDE DEF S, B
  <2> QED
    BY <1>3, <2>1, FS_Surjection
<1>6. Slots \subseteq A \cup B
  <2> SUFFICES ASSUME NEW s \in Slots PROVE s \in A \/ s \in B
    OBVIOUS
  <2>1. InChain(ch, s) \/ InHolding(s)
    BY DEF ForestInv, Busy
  <2>2. ASSUME NEW t \in Terminals, NEW k \in 1 .. Depth(t), s = ch[t][k]
        PROVE  s \in A
    <3>1. Depth(t) <= MAX_NUM_PROCESS /\ Depth(t) \in Nat
      BY ChainMembers
    <3>2. <<t, k>> \in T
      BY <3>1
    <3> QED
      BY <2>2, <3>2
  <2>3. ASSUME NEW t \in Terminals, pc[t] \in Holding, s = local[t].slot
        PROVE  s \in B
    <3>1. pc[t] \in Filling
      BY <2>3 DEF Holding, Uncounted
    <3>2. askedOf[t] \in Commands
      BY <3>1 DEF askedOf, InProgress, Filling, Linking, TypeInv, TypeOK, Local
    <3> QED
      BY <2>3, <3>2
  <2> QED
    BY <2>1, <2>2, <2>3 DEF InChain, InHolding
<1>7. Cardinality(Slots) = MAX_NUM_PROCESS
  BY FS_Interval DEF Slots
<1> HIDE DEF T, S, A, B
<1>8. /\ IsFiniteSet(A \cup B)
      /\ Cardinality(A \cup B)
           = Cardinality(A) + Cardinality(B) - Cardinality(A \cap B)
  BY <1>4, <1>5, FS_Union
<1>9. Cardinality(Slots) <= Cardinality(A \cup B)
  BY <1>6, <1>8, FS_Subset
<1>10. Cardinality(A \cap B) \in Nat
  <2>1. IsFiniteSet(A \cap B)
    BY <1>4, FS_Subset
  <2> QED
    BY <2>1, FS_CardinalityType
<1> QED
  <2>1. /\ Cardinality(A) \in Nat /\ Cardinality(B) \in Nat
        /\ Cardinality(T) \in Nat /\ Cardinality(S) \in Nat
    BY <1>3, <1>4, <1>5, FS_CardinalityType
  <2> QED
    BY <2>1, <1>1, <1>2, <1>4, <1>5, <1>7, <1>8, <1>9, <1>10

\* The counter at its limit: no slot is free, and none is about to be.
LEMMA LimitFills ==
  ASSUME TypeInv, Counted, AtLimit
  PROVE  processes = Slots /\ Uncounted = {}
<1>1. /\ num_process_executing = MAX_NUM_PROCESS /\ hist.drift \in Nat
      /\ processes \in SUBSET Slots
  BY DEF AtLimit, TypeInv, TypeOK, History
<1>2. IsFiniteSet(Slots) /\ Cardinality(Slots) = MAX_NUM_PROCESS
  BY FS_Interval DEF Slots
<1>3. Cardinality(processes) <= Cardinality(Slots)
  BY <1>1, <1>2, FS_Subset
<1>4. Cardinality(Uncounted) \in Nat
  <2>1. IsFiniteSet(Terminals)
    BY FS_Interval DEF Terminals
  <2>2. IsFiniteSet(Uncounted)
    BY <2>1, FS_Subset DEF Uncounted
  <2> QED
    BY <2>2, FS_CardinalityType
<1>5. /\ Cardinality(processes) = Cardinality(Slots)
      /\ Cardinality(Uncounted) = 0
  BY <1>1, <1>2, <1>3, <1>4, SizesAssumption DEF Counted
<1>6. IsFiniteSet(Uncounted)
  <2>1. IsFiniteSet(Terminals)
    BY FS_Interval, SizesAssumption DEF Terminals
  <2> QED
    BY <2>1, FS_Subset DEF Uncounted
<1> QED
  BY <1>1, <1>2, <1>5, <1>6, FS_Subset, FS_EmptySet

\* execute returns -1 only for a good reason.
LEMMA JobsRefuse ==
  ASSUME NEW ch, SafePreemption, SoundWith(ch), ~hist.overrun, TypeInv',
         [Next]_vars, ~hist'.overrun,
         \/ CheckLimit /\ AtLimit
         \/ LookUp /\ parsed \in Absent
         \/ StoreRefused
  PROVE  Jobs!Refuse
<1>0. PICK r \in Terminals : r = executing_terminal
  BY DEF SoundWith, TypeInv, TypeOK
<1>1. TypeOK /\ TypeInv /\ ForestInv(ch) /\ Counted
  BY DEF SoundWith, TypeInv
<1>2. /\ pc[r] \in {"exec", "lookup", "lower"} /\ Fail
      /\ pc[r] = "lookup" => parsed \notin Executables
      /\ pc[r] = "exec" => AtLimit
  BY <1>0, CommandsAssumption DEF CheckLimit, LookUp, StoreRefused, At, run
<1>3. PICK p \in {"none", "fault", "user"} : pc' = [pc EXCEPT ![r] = p]
  BY <1>0, <1>2 DEF Fail, Goto, run
<1>4. /\ executing_terminal' = local[r].caller
      /\ local' = [local EXCEPT ![r] = NoLocal]
      /\ local[r].caller \in Terminals /\ local[r].command \in Commands
  BY <1>0, <1>1, <1>2 DEF Fail, SetLocal, run, TypeOK, Local
<1>5. jobsOf' = jobsOf
  <2>1. ~SetPcb /\ ~UncountTerminal
    BY <1>0, <1>2 DEF SetPcb, UncountTerminal, At, run
  <2> QED
    BY <2>1, JobsKept
<1>6. askedOf[r] = local[r].command /\ askedOf[r] # NULL
  BY <1>2, <1>4 DEF askedOf, InProgress
<1>7. askedOf' = [askedOf EXCEPT ![r] = NULL]
  <2>1. \A t \in Terminals :
          InProgress(t)' = IF t = r THEN NULL ELSE InProgress(t)
    BY <1>1, <1>3, <1>4 DEF InProgress, TypeOK
  <2> QED
    BY <2>1 DEF askedOf
<1>8. jobsOf[r] # <<>> => executing_terminal' = executing_terminal
  <2>1. LocalOK(r)
    BY DEF SoundWith, ThreadsInv
  <2>2. num_on_terminal[r] = 0 => jobsOf[r] = <<>>
    BY <1>2, EmptyChain DEF jobsOf, Linking
  <2> QED
    BY <2>1, <2>2, <1>0, <1>2, <1>4 DEF LocalOK, Choosing
<1>9. \/ askedOf[r] \notin Executables
      \/ Cardinality(Jobs!Taken) + Cardinality(Jobs!Starting)
           >= MAX_NUM_PROCESS
  <2>1. CASE pc[r] = "lookup"
    <3>1. ParsedOK(r)
      BY <1>0 DEF SoundWith, AliveInv, Alive, ReadyOK, run
    <3> QED
      BY <2>1, <3>1, <1>2, <1>6 DEF ParsedOK
  <2>2. CASE pc[r] = "exec"
    <3>1. processes = Slots /\ Uncounted = {}
      BY <2>2, <1>1, <1>2, LimitFills
    <3>2. pc[r] \notin Holding
      BY <2>2 DEF Holding, Filling, Linking
    <3> QED
      BY <3>1, <3>2, <1>0, <1>1, PlacesTaken
  <2>3. CASE pc[r] = "lower"
    <3>1. LocalOK(r)
      BY DEF SoundWith, ThreadsInv
    <3> QED
      BY <2>3, <3>1, <1>6 DEF LocalOK
  <2> QED
    BY <2>1, <2>2, <2>3, <1>2
<1> HIDE DEF jobsOf, askedOf
<1>10. /\ askedOf[executing_terminal] # NULL
       /\ \/ askedOf[executing_terminal] \notin Executables
          \/ Cardinality(Jobs!Taken) + Cardinality(Jobs!Starting)
               >= MAX_NUM_PROCESS
       /\ askedOf' = [askedOf EXCEPT ![executing_terminal] = NULL]
       /\ jobsOf[executing_terminal] # <<>> =>
            executing_terminal' = executing_terminal
       /\ executing_terminal' \in Terminals
       /\ jobsOf' = jobsOf
  BY <1>0, <1>4, <1>5, <1>6, <1>7, <1>8, <1>9
<1> QED
  BY <1>10, JobsTerminals, JobsCardinality DEF Jobs!Refuse, jobsOf, askedOf

\* The PCB that sys_execute links puts its program on top.
LEMMA JobsStart ==
  ASSUME NEW ch, SafePreemption, SoundWith(ch), ~hist.overrun, TypeInv', SetPcb
  PROVE  Jobs!Start
<1>0. PICK r \in Terminals : r = executing_terminal
  BY DEF SoundWith, TypeInv, TypeOK
<1>1. TypeOK /\ TypeInv /\ ForestInv(ch) /\ PageOK(r) /\ LocalOK(r)
  BY <1>0 DEF SoundWith, TypeInv, ThreadsInv, AliveInv, Alive, ReadyOK, run
<1>2. PICK s \in Slots : s = local[r].slot
  BY <1>0, <1>1 DEF SetPcb, At, run, TypeInv, ThreadOK
<1>3. PICK c \in Executables : c = local[r].command /\ c = image[s]
  BY <1>0, <1>1, <1>2 DEF SetPcb, At, run, PageOK, LocalOK, Filling, Linking
<1>4. /\ pc[r] = "pcb" /\ pc' = [pc EXCEPT ![r] = "frame"]
      /\ UNCHANGED <<num_on_terminal, image, local, executing_terminal>>
  BY <1>0 DEF SetPcb, At, Goto, run, terminal, counts
<1>5. PICK d : /\ ForestInv(d)'
               /\ d[r][Depth(r) + 1] = s
               /\ \A t \in Terminals : \A k \in 1 .. Depth(t) :
                    d[t][k] = ch[t][k]
  BY <1>0, <1>2, SetPcbForest DEF run
<1>6. \A t \in Terminals : Depth(t) \in Nat
  BY <1>1, ChainsOf
<1>7. \A t \in Terminals :
        Depth(t)' = IF t = r THEN Depth(t) + 1 ELSE Depth(t)
  BY <1>1, <1>4 DEF Depth, TypeOK
<1>8. ASSUME NEW t \in Terminals, t # r PROVE Chain(t)' = Chain(t)
  <2>1. Chain(t) = [k \in 1 .. Depth(t) |-> image[ch[t][k]]]
    BY <1>1, ChainsOf
  <2>2. Chain(t)' = [k \in 1 .. Depth(t) |-> image[d[t][k]]]
    <3>1. Chain(t)' = [k \in 1 .. Depth(t)' |-> image'[d[t][k]]]
      BY <1>5, NextChainsOf
    <3> QED
      BY <3>1, <1>4, <1>7, <1>8
  <2> QED
    BY <2>1, <2>2, <1>5
<1>9. Chain(r)' = Append(Chain(r), c)
  <2>1. PICK n \in Nat : n = Depth(r)
    BY <1>6
  <2>2. Chain(r) = [k \in 1 .. n |-> image[ch[r][k]]]
    BY <2>1, <1>1, ChainsOf
  <2>3. Chain(r)' = [k \in 1 .. n + 1 |-> image[d[r][k]]]
    <3>1. Chain(r)' = [k \in 1 .. Depth(r)' |-> image'[d[r][k]]]
      BY <1>5, NextChainsOf
    <3> QED
      BY <3>1, <2>1, <1>4, <1>7
  <2>4. /\ \A k \in 1 .. n : image[d[r][k]] = image[ch[r][k]]
        /\ image[d[r][n + 1]] = c
    BY <2>1, <1>3, <1>5
  <2>5. Chain(r) \in Seq({image[ch[r][k]] : k \in 1 .. n})
    BY <2>2
  <2> QED
    BY <2>2, <2>3, <2>4, <2>5
<1>10. /\ askedOf[r] = c
       /\ askedOf' = [askedOf EXCEPT ![r] = NULL]
  <2>1. InProgress(r) = c
    BY <1>3, <1>4 DEF InProgress
  <2>2. \A t \in Terminals :
          InProgress(t)' = IF t = r THEN NULL ELSE InProgress(t)
    BY <1>1, <1>4 DEF InProgress, TypeOK
  <2> QED
    BY <2>1, <2>2 DEF askedOf
<1>11. jobsOf' = [jobsOf EXCEPT ![r] = Append(jobsOf[r], askedOf[r])]
  BY <1>8, <1>9, <1>10 DEF jobsOf
<1> HIDE DEF jobsOf, askedOf
<1>12. /\ askedOf[executing_terminal] \in Executables
       /\ askedOf' = [askedOf EXCEPT ![executing_terminal] = NULL]
       /\ jobsOf' = [jobsOf EXCEPT ![executing_terminal] =
                       Append(jobsOf[executing_terminal],
                              askedOf[executing_terminal])]
       /\ executing_terminal' = executing_terminal
  BY <1>0, <1>4, <1>10, <1>11
<1> QED
  BY <1>12, JobsTerminals DEF Jobs!Start, jobsOf, askedOf

\* sys_halt takes the program that calls it off the top.
LEMMA JobsEnd ==
  ASSUME NEW ch, SafePreemption, SoundWith(ch), ~hist.overrun, TypeInv',
         UncountTerminal
  PROVE  Jobs!End
<1>0. PICK r \in Terminals : r = executing_terminal
  BY DEF SoundWith, TypeInv, TypeOK
<1>1. TypeOK /\ ForestInv(ch) /\ ShapeOK(r) /\ ForestInv(ch)'
  BY LeaveForest DEF SoundWith, TypeInv, ThreadsInv
<1>2. /\ pc[r] = "leave" /\ pc' = [pc EXCEPT ![r] = "free"]
      /\ num_on_terminal' =
           [num_on_terminal EXCEPT ![r] = num_on_terminal[r] - 1]
      /\ UNCHANGED <<image, local, executing_terminal>>
  BY <1>0 DEF UncountTerminal, At, Goto, run, terminal, content
<1>3. \A t \in Terminals : Depth(t) \in Nat
  BY <1>1, ChainsOf
<1>4. \A t \in Terminals :
        Depth(t)' = IF t = r THEN Depth(t) - 1 ELSE Depth(t)
  BY <1>1, <1>2 DEF Depth, TypeOK
<1>5. PICK n \in Nat : n = Depth(r) /\ n > 0
  BY <1>1, <1>2, <1>3 DEF ShapeOK, SafeRoot, Depth
<1>6. ASSUME NEW t \in Terminals, t # r PROVE Chain(t)' = Chain(t)
  <2>1. Chain(t) = [k \in 1 .. Depth(t) |-> image[ch[t][k]]]
    BY <1>1, ChainsOf
  <2>2. Chain(t)' = [k \in 1 .. Depth(t) |-> image[ch[t][k]]]
    <3>1. Chain(t)' = [k \in 1 .. Depth(t)' |-> image'[ch[t][k]]]
      BY <1>1, NextChainsOf
    <3> QED
      BY <3>1, <1>2, <1>4, <1>6
  <2> QED
    BY <2>1, <2>2
<1>7. /\ Chain(r)' = SubSeq(Chain(r), 1, Len(Chain(r)) - 1)
      /\ Chain(r) # <<>>
  <2>2. Chain(r) = [k \in 1 .. n |-> image[ch[r][k]]]
    <3>1. Chain(r) = [k \in 1 .. Depth(r) |-> image[ch[r][k]]]
      BY <1>1, ChainsOf
    <3> QED
      BY <3>1, <1>5
  <2>3. Chain(r)' = [k \in 1 .. n - 1 |-> image[ch[r][k]]]
    <3>1. Chain(r)' = [k \in 1 .. Depth(r)' |-> image'[ch[r][k]]]
      BY <1>1, NextChainsOf
    <3> QED
      BY <3>1, <1>2, <1>4, <1>5
  <2>4. Chain(r) \in Seq({image[ch[r][k]] : k \in 1 .. n})
    BY <2>2
  <2>5. Len(Chain(r)) = n
    <3>1. DOMAIN Chain(r) = 1 .. n
      BY <2>2
    <3> QED
      BY <3>1, <2>4, <1>5
  <2>6. Chain(r)' \in Seq({image[ch[r][k]] : k \in 1 .. n})
    BY <2>3, <1>5
  <2>7. SubSeq(Chain(r), 1, n - 1) = [k \in 1 .. n - 1 |-> Chain(r)[k]]
    BY <2>4, <2>5, <1>5
  <2>8. \A k \in 1 .. n - 1 : Chain(r)[k] = image[ch[r][k]]
    BY <2>2, <1>5
  <2> QED
    BY <2>3, <2>5, <2>7, <2>8, <1>5
<1>8. askedOf[r] = NULL /\ askedOf' = askedOf
  <2>1. \A t \in Terminals : InProgress(t)' = InProgress(t)
    BY <1>1, <1>2 DEF InProgress, TypeOK
  <2> QED
    BY <2>1, <1>2 DEF askedOf, InProgress
<1>9. /\ jobsOf[r] # <<>>
      /\ jobsOf' = [jobsOf EXCEPT ![r] =
                      SubSeq(jobsOf[r], 1, Len(jobsOf[r]) - 1)]
  BY <1>6, <1>7 DEF jobsOf
<1> HIDE DEF jobsOf, askedOf
<1>10. /\ jobsOf[executing_terminal] # <<>>
       /\ askedOf[executing_terminal] = NULL /\ askedOf' = askedOf
       /\ jobsOf' = [jobsOf EXCEPT ![executing_terminal] =
                       SubSeq(jobsOf[executing_terminal], 1,
                              Len(jobsOf[executing_terminal]) - 1)]
       /\ executing_terminal' = executing_terminal
  BY <1>0, <1>2, <1>8, <1>9
<1> QED
  BY <1>10, JobsTerminals DEF Jobs!End, jobsOf, askedOf

\* context_switch changes neither the programs of a terminal nor what a
\* process asked for; it forgets shells that were not started yet.
LEMMA JobsSwitch ==
  ASSUME NEW ch, NEW d, SafePreemption, SoundWith(ch), ~hist.overrun,
         [Next]_vars, ~hist'.overrun, SoundWith(d)', TypeInv', SwitchTo
  PROVE  Jobs!Switch
<1>0. PICK r \in Terminals : r = executing_terminal
  BY DEF SoundWith, TypeInv, TypeOK
<1>1. TypeOK /\ ForestInv(ch) /\ \A t \in Terminals : ShapeOK(t)
  BY DEF SoundWith, TypeInv, ThreadsInv
<1>2. /\ executing_terminal' \in Terminals \ {executing_terminal}
      /\ \A t \in Terminals :
           IF num_on_terminal[t] = 0
             THEN pc'[t] = "none"
             ELSE local'[t] = local[t] /\ pc'[t] \in {pc[t], "fault"}
  BY DEF SwitchTo, Tick
<1>3. \A t \in Terminals : pc'[t] # "fault"
  BY DEF SoundWith, ThreadsInv, ShapeOK
<1>4. jobsOf' = jobsOf
  <2>1. ~SetPcb /\ ~UncountTerminal
    <3>1. executing_terminal' # executing_terminal
      BY <1>2
    <3> QED
      BY <3>1 DEF SetPcb, UncountTerminal, terminal
  <2> QED
    BY <2>1, JobsKept
<1>5. ASSUME NEW t \in Terminals
      PROVE  \/ askedOf'[t] = askedOf[t]
             \/ jobsOf[t] = <<>> /\ askedOf'[t] = NULL
  <2>1. CASE num_on_terminal[t] = 0
    <3>1. pc[t] \notin Linking
      BY <2>1, <1>1 DEF ShapeOK, SafeRoot, Linking
    <3> QED
      BY <3>1, <2>1, <1>2, EmptyChain DEF jobsOf, askedOf, InProgress
  <2>2. CASE num_on_terminal[t] # 0
    BY <2>2, <1>2, <1>3 DEF askedOf, InProgress
  <2> QED
    BY <2>1, <2>2
<1> QED
  BY <1>2, <1>4, <1>5, JobsTerminals DEF Jobs!Switch, jobsOf, askedOf

\* The other steps neither move the CPU nor begin or end a call of execute.
LEMMA StepsAside ==
  ASSUME NEW ch, SoundWith(ch), TypeInv',
         \/ CheckLimit /\ ~AtLimit
         \/ LookUp /\ parsed \notin Absent
         \/ Unwind /\ pcb[local[run].slot].parent # NULL
         \/ ParseCommand \/ LoadRefused \/ SearchSlot \/ MarkSlot
         \/ LoadCount \/ StoreCount \/ CountTerminal \/ MapPage \/ LoadImage
         \/ SaveFrame \/ EnterUser \/ PickCurrent \/ LoadUncount
         \/ StoreUncount \/ FreeSlot \/ RestoreParent
         \/ Halt \/ Read \/ GetArgs \/ ReadReturns
         \/ (\E n \in Terminals : SwitchDisplay(n))
         \/ UNCHANGED vars
  PROVE  /\ executing_terminal' = executing_terminal
         /\ \A t \in Terminals : InProgress(t)' = InProgress(t)
<1>0. PICK r \in Terminals : r = executing_terminal
  BY DEF SoundWith, TypeInv, TypeOK
<1>1. TypeOK
  BY DEF SoundWith, TypeInv
<1>2. executing_terminal' = executing_terminal
  BY DEF CheckLimit, LookUp, Unwind, ParseCommand, LoadRefused, SearchSlot,
     MarkSlot, LoadCount, StoreCount, LoadCounter, CountTerminal, MapPage,
     LoadImage, SaveFrame, EnterUser, PickCurrent, LoadUncount, StoreUncount,
     FreeSlot, RestoreParent, Halt, Read, GetArgs, ReadReturns, SwitchDisplay,
     vars, terminal
<1>3. ASSUME NEW t \in Terminals, t # r PROVE InProgress(t)' = InProgress(t)
  <2>1. pc'[t] = pc[t] /\ local'[t] = local[t]
    BY <1>0, <1>1, <1>3 DEF CheckLimit, LookUp, Unwind, RelaunchShell,
       ParseCommand, LoadRefused, SearchSlot, MarkSlot, LoadCount, StoreCount,
       LoadCounter, CountTerminal, MapPage, LoadImage, SaveFrame, EnterUser,
       PickCurrent, LoadUncount, StoreUncount, FreeSlot, RestoreParent, Halt,
       Read, GetArgs, ReadReturns, SwitchDisplay, vars, Goto, SetLocal,
       LeaveKernel, TypeOK, run, thread
  <2> QED
    BY <2>1 DEF InProgress
<1>4. InProgress(r)' = InProgress(r)
  <2> DEFINE E == {"exec", "parse", "lookup", "refuse", "alloc", "mark",
                   "count", "add", "join", "map", "load"}
  <2>1. CASE \/ CheckLimit /\ ~AtLimit
             \/ LookUp /\ parsed \notin Absent
             \/ ParseCommand \/ LoadRefused \/ SearchSlot \/ MarkSlot
             \/ LoadCount \/ StoreCount \/ CountTerminal \/ MapPage
             \/ LoadImage
    <3>1. /\ local'[r].command = local[r].command
          /\ pc[r] \in E /\ pc'[r] \in E \cup {"lower", "pcb"}
      <4>1. CASE CheckLimit /\ ~AtLimit
        BY <4>1, <1>0, <1>1 DEF CheckLimit, At, Goto, TypeOK, run
      <4>2. CASE LookUp /\ parsed \notin Absent
        <5>1. /\ pc[r] = "lookup"
              /\ \E p \in {"refuse", "alloc"} : pc' = [pc EXCEPT ![r] = p]
          BY <4>2, <1>0 DEF LookUp, At, Goto, run
        <5>2. \/ local' = local
              \/ local' = [local EXCEPT ![r] =
                             [local[r] EXCEPT !.file = parsed, !.slot = 0]]
          BY <4>2, <1>0 DEF LookUp, SetLocal, run
        <5>3. local'[r] \in
                {local[r], [local[r] EXCEPT !.file = parsed, !.slot = 0]}
          BY <5>2, <1>1 DEF TypeOK
        <5>4. local'[r].command = local[r].command
          <6>1. local[r] \in Local
            BY <1>1 DEF TypeOK
          <6>2. CASE local'[r] = local[r]
            BY <6>2
          <6>3. CASE local'[r] = [local[r] EXCEPT !.file = parsed, !.slot = 0]
            BY <6>1, <6>3 DEF Local
          <6> QED
            BY <5>3, <6>2, <6>3
        <5> QED
          BY <5>1, <5>4, <1>1 DEF TypeOK
      <4>3. CASE ParseCommand
        BY <4>3, <1>0, <1>1 DEF ParseCommand, At, Goto, TypeOK, run
      <4>4. CASE LoadRefused \/ LoadCount
        BY <4>4, <1>0, <1>1 DEF LoadRefused, LoadCount, LoadCounter, At, Goto,
           SetLocal, TypeOK, Local, run
      <4>5. CASE SearchSlot
        BY <4>5, <1>0, <1>1 DEF SearchSlot, At, Goto, SetLocal, TypeOK, Local,
           run
      <4>6. CASE MarkSlot \/ CountTerminal
        BY <4>6, <1>0, <1>1 DEF MarkSlot, CountTerminal, At, Goto, TypeOK, run
      <4>7. CASE StoreCount
        BY <4>7, <1>0, <1>1 DEF StoreCount, At, Goto, SetLocal, TypeOK, Local,
           run
      <4>8. CASE MapPage \/ LoadImage
        BY <4>8, <1>0, <1>1 DEF MapPage, LoadImage, At, Goto, TypeOK, run
      <4> QED
        BY <2>1, <4>1, <4>2, <4>3, <4>4, <4>5, <4>6, <4>7, <4>8
    <3> QED
      BY <3>1 DEF InProgress
  <2>2. CASE \/ Unwind /\ pcb[local[run].slot].parent # NULL
             \/ SaveFrame \/ EnterUser \/ PickCurrent \/ LoadUncount
             \/ StoreUncount \/ FreeSlot \/ RestoreParent
             \/ Halt \/ Read \/ GetArgs \/ ReadReturns
    <3>1. /\ pc[r] \in {"unwind", "frame", "enter", "halt", "uncount",
                       "subtract", "free", "restore", "user", "wait"}
          /\ pc'[r] \in {"restore", "enter", "user", "uncount", "subtract",
                        "leave", "unwind", "halt", "wait"}
      BY <2>2, <1>0, <1>1 DEF Unwind, SaveFrame, EnterUser, PickCurrent,
         LoadUncount, LoadCounter, StoreUncount, FreeSlot, RestoreParent, Halt,
         Read, GetArgs, ReadReturns, At, Goto, LeaveKernel, Trap, TypeOK, run
    <3> QED
      BY <3>1 DEF InProgress
  <2>3. CASE (\E n \in Terminals : SwitchDisplay(n)) \/ UNCHANGED vars
    BY <2>3 DEF SwitchDisplay, vars, thread, InProgress
  <2> QED
    BY <2>1, <2>2, <2>3
<1> QED
  BY <1>0, <1>2, <1>3, <1>4

\* Every step is one of Jobs.
LEMMA StepJobs ==
  ASSUME NEW ch, NEW d, SafePreemption, SoundWith(ch), ~hist.overrun,
         [Next]_vars, SoundWith(d)', ~hist'.overrun
  PROVE  Jobs!Next
<1>1. TypeInv'
  BY DEF SoundWith
<1>2. Jobs!OnlyTopRuns
  <2>1. TopRuns'
    BY NextTop
  <2> QED
    BY <2>1, JobsTerminals
       DEF TopRuns, Jobs!OnlyTopRuns, Jobs!Top, jobsOf, askedOf, seenOf
<1>3. ASSUME NEW c \in Commands, Execute(c) PROVE Jobs!Ask(c)
  BY <1>1, <1>3, JobsAsk
<1>4. ASSUME LaunchShell \/ (Unwind /\ pcb[local[run].slot].parent = NULL)
      PROVE  \E t \in Terminals : Jobs!AskShell(t)
  BY <1>1, <1>4, JobsAskShell
<1>5. ASSUME \/ CheckLimit /\ AtLimit
             \/ LookUp /\ parsed \in Absent
             \/ StoreRefused
      PROVE  Jobs!Refuse
  BY <1>1, <1>5, JobsRefuse
<1>6. ASSUME SetPcb PROVE Jobs!Start
  BY <1>1, <1>6, JobsStart
<1>7. ASSUME UncountTerminal PROVE Jobs!End
  BY <1>1, <1>7, JobsEnd
<1>8. ASSUME SwitchTo PROVE Jobs!Switch
  BY <1>1, <1>8, JobsSwitch
<1>9. ASSUME
         \/ CheckLimit /\ ~AtLimit
         \/ LookUp /\ parsed \notin Absent
         \/ Unwind /\ pcb[local[run].slot].parent # NULL
         \/ ParseCommand \/ LoadRefused \/ SearchSlot \/ MarkSlot
         \/ LoadCount \/ StoreCount \/ CountTerminal \/ MapPage \/ LoadImage
         \/ SaveFrame \/ EnterUser \/ PickCurrent \/ LoadUncount
         \/ StoreUncount \/ FreeSlot \/ RestoreParent
         \/ Halt \/ Read \/ GetArgs \/ ReadReturns
         \/ (\E n \in Terminals : SwitchDisplay(n))
         \/ UNCHANGED vars
      PROVE Jobs!Start \/ Jobs!End \/ Jobs!Other
  <2>1. CASE SetPcb \/ UncountTerminal
    BY <2>1, <1>6, <1>7
  <2>2. CASE ~SetPcb /\ ~UncountTerminal
    BY <2>2, <1>1, <1>9, StepsAside, JobsOther
  <2> QED
    BY <2>1, <2>2
<1> QED
  BY <1>2, <1>3, <1>4, <1>5, <1>6, <1>7, <1>8, <1>9, JobsTerminals
     DEF Next, ExecuteStep, HaltStep, UserStep, TimerStep, Jobs!Next

\* sys_execute, sys_halt and context_switch implement Jobs.
THEOREM JobsImplemented ==
  ASSUME SafePreemption
  PROVE  Spec /\ [](~hist.overrun) => KeepsJobs
<1>1. Init => Jobs!Init
  BY JobsInit
<1>2. IInv /\ IInv' /\ ~hist.overrun /\ (~hist.overrun)' /\ [Next]_vars
        => [Jobs!Next]_(Jobs!vars)
  BY StepJobs DEF IInv
<1> QED
  BY <1>1, <1>2, Sound, PTL DEF Spec, KeepsJobs, Jobs!Spec

\* Without text files executable_check never counts a process less: no thread
\* gets there.
LEMMA NoTextNoDrift ==
  ASSUME TextFiles = {}
  PROVE  Spec => [](hist.drift = 0)
<1> DEFINE NoText == /\ hist.drift = 0
                     /\ \A t \in Terminals : pc[t] \notin {"refuse", "lower"}
<1>1. Init => NoText
  BY DEF Init
<1>2. TypeOK /\ NoText /\ [Next]_vars => NoText'
  <2> SUFFICES ASSUME TypeOK, [Next]_vars, NoText
               PROVE  NoText'
    OBVIOUS
  <2>1. ~StoreRefused /\ ~LoadRefused
    BY DEF StoreRefused, LoadRefused, LoadCounter, At, run, TypeOK
  <2>2. hist'.drift = 0
    <3>1. UNCHANGED hist \/ SearchSlot \/ SetPcb \/ FreeSlot
      BY <2>1, HistoryFrame
    <3> QED
      BY <3>1 DEF SearchSlot, SetPcb, FreeSlot, TypeOK, History
  <2>3. ASSUME NEW t \in Terminals PROVE pc'[t] \notin {"refuse", "lower"}
    <3> USE DEF At, Goto, run
    <3> HIDE DEF NoText
    <3>0. pc[t] \notin {"refuse", "lower"} /\ pc \in [Terminals -> Points]
      BY DEF NoText, TypeOK
    <3>1. CASE ExecuteStep
      BY <3>0, <3>1, <2>1 DEF ExecuteStep, CheckLimit, ParseCommand, LookUp,
         SearchSlot, MarkSlot, LoadCount, StoreCount, LoadCounter,
         CountTerminal, MapPage, LoadImage, SetPcb, SaveFrame, EnterUser,
         LeaveKernel, Fail
    <3>2. CASE HaltStep
      BY <3>0, <3>2 DEF HaltStep, PickCurrent, LoadUncount, StoreUncount,
         LoadCounter, UncountTerminal, FreeSlot, Unwind, RelaunchShell,
         RestoreParent, LeaveKernel
    <3>3. CASE UserStep \/ ReadReturns
      BY <3>0, <3>3 DEF UserStep, Execute, Halt, Read, GetArgs, ReadReturns,
         LeaveKernel
    <3>4. CASE TimerStep
      BY <3>0, <3>4 DEF TimerStep, LaunchShell, SwitchTo
    <3>5. CASE (\E n \in Terminals : SwitchDisplay(n)) \/ UNCHANGED vars
      BY <3>0, <3>5 DEF SwitchDisplay, thread, vars
    <3> HIDE DEF At, Goto, run
    <3> QED
      BY <3>1, <3>2, <3>3, <3>4, <3>5 DEF Next
  <2> QED
    BY <2>2, <2>3
<1>3. NoText => hist.drift = 0
  OBVIOUS
<1> QED
  BY <1>1, <1>2, <1>3, TypeCorrect, PTL DEF Spec

\* Without text files, and with the timer kept away also from the points of
\* NoGap, each search for a slot succeeds and all of this holds outright.
THEOREM AllCorrect ==
  ASSUME SafePreemption, NoGap, TextFiles = {}
  PROVE  Spec => /\ [](ProcessForest /\ UserContext /\ TrapStackFree)
                 /\ [](ImageAsAsked /\ NoFault /\ LimitHolds)
                 /\ KeepsJobs
<1>1. Spec => []LimitHolds
  <2>1. Spec => [](hist.drift = 0)
    BY NoTextNoDrift
  <2> QED
    BY <2>1, LimitCorrect, PTL
<1>2. LimitHolds => ~hist.overrun
  BY DEF LimitHolds
<1> QED
  BY <1>1, <1>2, JobsImplemented, ForestCorrect, NeverFaults, ContextCorrect,
     StacksDisjoint, ImagesCorrect, PTL
=============================================================================
