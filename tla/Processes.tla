----------------------------- MODULE Processes -----------------------------
(***************************************************************************)
(* Processes, terminals and the scheduler: sys_execute and sys_halt        *)
(* (syscall.c), pit_interrupt and context_switch (scheduling.c), the       *)
(* start of the first shell (kernel.c) and process_map (paging.c).         *)
(*                                                                         *)
(* Each terminal carries one thread of control: the top of its chain of    *)
(* processes.  The kernel has one CPU, and the thread of                   *)
(* executing_terminal is on it.  System calls run with interrupts enabled  *)
(* (syscall_wrapper does sti before the call), so a timer interrupt may    *)
(* take the CPU away in the middle of one; pc[t] is where the thread of t  *)
(* goes on.  PreemptNested and PreemptRoot name the points at which the    *)
(* timer is allowed to strike: a run chooses them.                         *)
(*                                                                         *)
(* A process is named by its slot in processes[].  The slot fixes its PCB, *)
(* its kernel stack (EIGHT_MB - slot * EIGHT_KB and down) and its 4 MB     *)
(* page, so a stack pointer is represented by the slot whose stack it      *)
(* points into and a page by its slot.  The boot stack, 0x800000, is the   *)
(* stack of slot 0.  A command line stands for the file that its first     *)
(* word names and for the arguments after it.                              *)
(***************************************************************************)
EXTENDS Integers, FiniteSets

CONSTANTS
  TERM_NUM,          \* number of terminals (terminal.h)
  MAX_NUM_PROCESS,   \* length of processes[] (syscall.h)
  Executables,       \* command lines that name an ELF file
  TextFiles,         \* command lines that name a file of another kind
  Absent,            \* command lines that name no file
  Shell,             \* the command line "shell"
  UserCalls,         \* the system calls that user programs make
  MaxDrift,          \* bound: refused executions of text files
  PreemptNested,     \* points of a call made by a running process, and
  PreemptRoot        \* points of the creation of a terminal's first shell,
                     \* at which the timer may switch terminals

Commands == Executables \cup TextFiles \cup Absent
Terminals == 0 .. TERM_NUM - 1
Slots == 0 .. MAX_NUM_PROCESS - 1
NULL == -1

\* Where a thread can be.  "none": no shell was ever started there; "user":
\* in its program; "wait": in the loop of terminal_read or rtc_read;
\* "fault": the kernel dereferenced a null PCB; the others: in sys_execute
\* and sys_halt, named for the next thing they do.  The kernel is compiled
\* without optimisation: an increment or decrement of the global
\* num_process_executing is a load and, at a point of its own, a store.
Points == {"none", "user", "wait", "fault",
           "exec", "parse", "lookup", "refuse", "lower", "alloc", "mark",
           "count", "add", "join", "map", "load", "pcb", "frame", "enter",
           "halt", "uncount", "subtract", "leave", "free", "unwind",
           "restore"}

ASSUME SizesAssumption ==
  /\ TERM_NUM \in Nat \ {0}
  /\ MAX_NUM_PROCESS \in Nat \ {0}
  /\ MaxDrift \in Nat

ASSUME CommandsAssumption ==
  /\ Shell \in Executables
  /\ Executables \cap (TextFiles \cup Absent) = {}
  /\ TextFiles \cap Absent = {}
  /\ NULL \notin Commands

ASSUME PreemptAssumption ==
  /\ PreemptNested \subseteq Points \ {"none", "fault"}
  /\ PreemptRoot \subseteq Points \ {"none", "fault"}

\* Where the timer does no harm, as long as no search for a slot fails.  In
\* a call of a running process: not while fname is in use, not between the
\* test of processes[i] and its mark, not between a load and a store of
\* num_process_executing, not between process_map and the last use of
\* tss.esp0, and not after its slot is free.  In the creation of a first
\* shell, which is abandoned and started again: not after it has marked a
\* slot, nor before the last shell, uncounted, has freed its own.
SafeNested == {"user", "wait", "exec", "parse", "refuse", "alloc", "count",
               "join", "map", "enter", "halt", "uncount", "leave", "free"}
SafeRoot == {"unwind", "exec", "parse", "lookup", "alloc", "mark"}

VARIABLES
  executing_terminal, displayed_terminal,
  num_process_executing,
  processes,      \* the busy slots: {i : processes[i] = 1}
  num_on_terminal,\* terminals[t].num_process_executing_on_terminal
  active_pcb,     \* terminals[t].active_pcb
  pcb,            \* parent_pcb, curr_esp0 and esp of each PCB
  vir_page,       \* the slot whose page page_directory[VIRPRO] maps
  esp0,           \* the slot whose stack tss.esp0 points to
  image,          \* the program in each 4 MB page
  parsed,         \* the command that the global fname and arg come from
  pc,             \* where the thread of each terminal goes on
  kstack,         \* the stack its kernel frames are on, NULL when it has none
  local,          \* its locals in sys_execute and sys_halt
  argbuf,         \* what getargs gave the process of each slot
  hist            \* history, kept for the properties and the bound

vars == <<executing_terminal, displayed_terminal, num_process_executing,
          processes, num_on_terminal, active_pcb, pcb, vir_page, esp0, image,
          parsed, pc, kstack, local, argbuf, hist>>

terminal == <<executing_terminal, displayed_terminal>>
counts == <<num_process_executing, processes, num_on_terminal>>
links == <<active_pcb, pcb>>
mmu == <<vir_page, esp0>>
content == <<image, parsed, argbuf>>
thread == <<pc, kstack, local>>

run == executing_terminal

\* Locals: the command; the directory entry found; i, then process_num, of
\* sys_execute or curr_pcb of sys_halt; num_process_executing as loaded; the
\* terminal that the call returns to when it fails (for a shell started by
\* context_switch, the terminal that the timer interrupted).
NoLocal == [command |-> Shell, file |-> Shell, slot |-> NULL, count |-> 0,
            caller |-> 0]
Local == [command : Commands, file : Commands, slot : Slots \cup {NULL},
          count : Int, caller : Terminals]
Pcb == [parent : Slots \cup {NULL}, curr_esp0 : Slots, esp : Slots]

\* History: the command that the process of each slot was asked for; how
\* many text files executable_check refused; whether the search for a free
\* slot failed once.
History == [asked : [Slots -> Commands], drift : Nat, overrun : BOOLEAN]

Init ==
  /\ executing_terminal = 0 /\ displayed_terminal = 0
  /\ num_process_executing = 0
  /\ processes = {}
  /\ num_on_terminal = [t \in Terminals |-> 0]
  /\ active_pcb = [t \in Terminals |-> NULL]
  /\ pcb = [s \in Slots |-> [parent |-> NULL, curr_esp0 |-> 0, esp |-> 0]]
  /\ vir_page = NULL
  /\ esp0 = 0
  /\ image = [s \in Slots |-> Shell]
  /\ parsed = Shell
  /\ pc = [t \in Terminals |-> IF t = 0 THEN "exec" ELSE "none"]
  /\ kstack = [t \in Terminals |-> IF t = 0 THEN 0 ELSE NULL]
  /\ local = [t \in Terminals |-> NoLocal]
  /\ argbuf = [s \in Slots |-> NULL]
  /\ hist = [asked |-> [s \in Slots |-> Shell], drift |-> 0,
             overrun |-> FALSE]

At(p) == pc[run] = p
Goto(p) == pc' = [pc EXCEPT ![run] = p]
SetLocal(l) == local' = [local EXCEPT ![run] = l]

LeaveKernel == Goto("user") /\ kstack' = [kstack EXCEPT ![run] = NULL]

\* process_map, with the TLB flushed; and the stack of the next trap.
StaleMap(s) == vir_page' = IF vir_page = NULL THEN s ELSE vir_page
ProcessMap(s) == vir_page' = s

StaleEsp0(s) == UNCHANGED esp0
NextEsp0(s) == esp0' = s + 1
SetEsp0(s) == esp0' = s

\* int 0x80 from user mode: the frames go on the stack tss.esp0 points to.
Trap(call) ==
  /\ At("user")
  /\ call \in UserCalls
  /\ kstack' = [kstack EXCEPT ![run] = esp0]

(***************************************************************************)
(* sys_execute.                                                            *)
(***************************************************************************)
\* A user program calls execute; any program may, the shell does.
Execute(c) ==
  /\ Trap("execute")
  /\ c \in TextFiles => hist.drift < MaxDrift
  /\ Goto("exec")
  /\ SetLocal([NoLocal EXCEPT !.command = c, !.caller = run])
  /\ UNCHANGED <<terminal, counts, links, mmu, content, hist>>

\* sys_execute returns -1: to context_switch, which gives both terminals
\* back to the interrupted one; to sys_halt, which goes on with a null
\* parent PCB; or to the program that called it.
Fail ==
  LET back == local[run].caller IN
  /\ executing_terminal' = back
  /\ displayed_terminal' = IF back = run THEN displayed_terminal ELSE back
  /\ Goto(IF back # run THEN "none"
          ELSE IF num_on_terminal[run] = 0 THEN "fault" ELSE "user")
  /\ kstack' = [t \in Terminals |->
                  IF t = run \/ (t = back /\ pc[t] = "user") THEN NULL
                  ELSE kstack[t]]
  /\ SetLocal(NoLocal)

AtLimit == num_process_executing = MAX_NUM_PROCESS

CheckLimit ==
  /\ At("exec")
  /\ IF AtLimit
       THEN Fail
       ELSE /\ Goto("parse")
            /\ UNCHANGED <<terminal, kstack, local>>
  /\ UNCHANGED <<counts, links, mmu, content, hist>>

ParseCommand ==
  /\ At("parse")
  /\ parsed' = local[run].command
  /\ Goto("lookup")
  /\ UNCHANGED <<terminal, counts, links, mmu, image, argbuf, kstack, local,
                 hist>>

\* The search of the directory for fname and, when it succeeds, the read of
\* the file by executable_check, which looks for the magic number.
LookUp ==
  /\ At("lookup")
  /\ \/ /\ parsed \in Executables
        /\ SetLocal([local[run] EXCEPT !.file = parsed, !.slot = 0])
        /\ Goto("alloc")
        /\ UNCHANGED <<terminal, kstack>>
     \/ /\ parsed \in TextFiles
        /\ Goto("refuse")
        /\ UNCHANGED <<terminal, kstack, local>>
     \/ /\ parsed \in Absent
        /\ Fail
  /\ UNCHANGED <<counts, links, mmu, content, hist>>

\* The first half of num_process_executing++ or --.
LoadCounter(from, to) ==
  /\ At(from)
  /\ SetLocal([local[run] EXCEPT !.count = num_process_executing])
  /\ Goto(to)
  /\ UNCHANGED <<terminal, counts, links, mmu, content, kstack, hist>>

\* executable_check counts one process less for each file that is not ELF.
LoadRefused == LoadCounter("refuse", "lower")

RefuseTwice == num_process_executing' = local[run].count - 2
Refuse == num_process_executing' = local[run].count - 1

StoreRefused ==
  /\ At("lower")
  /\ Refuse
  /\ hist' = [hist EXCEPT !.drift = @ + 1]
  /\ Fail
  /\ UNCHANGED <<processes, num_on_terminal, links, mmu, content>>

\* The search for a slot tests one at a time; when none is free process_num
\* is read uninitialised.
SearchSlot ==
  LET i == local[run].slot
      next(s) == SetLocal([local[run] EXCEPT !.slot = s])
  IN
  /\ At("alloc")
  /\ \/ i \notin processes /\ Goto("mark") /\ UNCHANGED <<local, hist>>
     \/ i \in processes /\ i + 1 \in Slots /\ next(i + 1)
        /\ UNCHANGED <<pc, hist>>
     \/ /\ i \in processes /\ i + 1 \notin Slots
        /\ \E s \in Slots : next(s)
        /\ Goto("count")
        /\ hist' = [hist EXCEPT !.overrun = TRUE]
  /\ UNCHANGED <<terminal, counts, links, mmu, content, kstack>>

MarkSlot ==
  /\ At("mark")
  /\ processes' = processes \cup {local[run].slot}
  /\ Goto("count")
  /\ UNCHANGED <<terminal, num_process_executing, num_on_terminal, links,
                 mmu, content, kstack, local, hist>>

LoadCount == LoadCounter("count", "add")

StoreCount ==
  /\ At("add")
  /\ num_process_executing' = local[run].count + 1
  /\ SetLocal([local[run] EXCEPT !.count = 0])
  /\ Goto("join")
  /\ UNCHANGED <<terminal, processes, num_on_terminal, links, mmu, content,
                 kstack, hist>>

\* Nobody else counts the processes of this terminal.
CountTerminal ==
  /\ At("join")
  /\ num_on_terminal' = [num_on_terminal EXCEPT ![run] = @ + 1]
  /\ Goto("map")
  /\ UNCHANGED <<terminal, num_process_executing, processes, links, mmu,
                 content, kstack, local, hist>>

\* process_map: the new page at 128 MB, and the TLB flushed.
MapPage ==
  /\ At("map")
  /\ ProcessMap(local[run].slot)
  /\ Goto("load")
  /\ UNCHANGED <<terminal, counts, links, esp0, content, kstack, local,
                 hist>>

\* read_data to VIRTUALADDR: into whatever page is mapped there now.
LoadImage ==
  /\ At("load")
  /\ image' = [image EXCEPT ![vir_page] = local[run].file]
  /\ Goto("pcb")
  /\ UNCHANGED <<terminal, counts, links, mmu, parsed, argbuf, kstack, local,
                 hist>>

ParentAlways == active_pcb[run]
ParentOfNew == IF num_on_terminal[run] <= 1 THEN NULL ELSE active_pcb[run]

SetPcb ==
  LET s == local[run].slot IN
  /\ At("pcb")
  /\ pcb' = [pcb EXCEPT ![s].parent = ParentOfNew]
  /\ active_pcb' = [active_pcb EXCEPT ![run] = s]
  /\ argbuf' = [argbuf EXCEPT ![s] = NULL]
  /\ hist' = [hist EXCEPT !.asked[s] = local[run].command]
  /\ Goto("frame")
  /\ UNCHANGED <<terminal, counts, mmu, image, parsed, kstack, local>>

\* ebp, esp and tss.esp0 as they are now, for sys_halt of the new process.
SaveFrame ==
  /\ At("frame")
  /\ pcb' = [pcb EXCEPT ![active_pcb[run]].esp = kstack[run],
                        ![active_pcb[run]].curr_esp0 = esp0]
  /\ Goto("enter")
  /\ UNCHANGED <<terminal, counts, active_pcb, mmu, content, kstack, local,
                 hist>>

\* cli, and iret to the first instruction of the program.
EnterUser ==
  /\ At("enter")
  /\ SetEsp0(local[run].slot)
  /\ LeaveKernel
  /\ SetLocal(NoLocal)
  /\ UNCHANGED <<terminal, counts, links, vir_page, content, hist>>

(***************************************************************************)
(* sys_halt.                                                               *)
(***************************************************************************)
\* The program halts, or _start does it when main returns.
Halt ==
  /\ Trap("halt")
  /\ Goto("halt")
  /\ UNCHANGED <<terminal, counts, links, mmu, content, local, hist>>

\* curr_pcb = terminals[executing_terminal].active_pcb.
PickCurrent ==
  /\ At("halt")
  /\ SetLocal([NoLocal EXCEPT !.slot = active_pcb[run]])
  /\ Goto("uncount")
  /\ UNCHANGED <<terminal, counts, links, mmu, content, kstack, hist>>

LoadUncount == LoadCounter("uncount", "subtract")

KeepCount == local[run].count
CountAfterHalt == local[run].count - 1

StoreUncount ==
  /\ At("subtract")
  /\ num_process_executing' = CountAfterHalt
  /\ SetLocal([local[run] EXCEPT !.count = 0])
  /\ Goto("leave")
  /\ UNCHANGED <<terminal, processes, num_on_terminal, links, mmu, content,
                 kstack, hist>>

UncountTerminal ==
  /\ At("leave")
  /\ num_on_terminal' = [num_on_terminal EXCEPT ![run] = @ - 1]
  /\ Goto("free")
  /\ UNCHANGED <<terminal, num_process_executing, processes, links, mmu,
                 content, kstack, local, hist>>

KeepSlot == processes
SlotsAfterHalt == processes \ {local[run].slot}

FreeSlot ==
  /\ At("free")
  /\ processes' = SlotsAfterHalt
  /\ hist' = [hist EXCEPT !.asked[local[run].slot] = Shell]
  /\ Goto("unwind")
  /\ UNCHANGED <<terminal, num_process_executing, num_on_terminal, links,
                 mmu, content, kstack, local>>

\* A first shell starts again; any other process makes room for its parent.
StopShell == FALSE
RelaunchShell ==
  /\ Goto("exec")
  /\ SetLocal([NoLocal EXCEPT !.caller = run])
  /\ UNCHANGED active_pcb

Unwind ==
  LET parent == pcb[local[run].slot].parent IN
  /\ At("unwind")
  /\ IF parent = NULL
       THEN RelaunchShell
       ELSE /\ Goto("restore")
            /\ active_pcb' = [active_pcb EXCEPT ![run] = parent]
            /\ UNCHANGED local
  /\ UNCHANGED <<terminal, counts, pcb, mmu, content, kstack, hist>>

\* The parent's page and its tss.esp0; then its execute returns, on the
\* frame at the esp of the PCB.
RestoreParent ==
  LET curr == local[run].slot IN
  /\ At("restore")
  /\ ProcessMap(pcb[curr].parent)
  /\ SetEsp0(pcb[curr].curr_esp0)
  /\ LeaveKernel
  /\ SetLocal(NoLocal)
  /\ UNCHANGED <<terminal, counts, links, content, hist>>

(***************************************************************************)
(* Other system calls: read, which spins in the kernel until its flag is   *)
(* set, and getargs.                                                       *)
(***************************************************************************)
Read ==
  /\ Trap("read")
  /\ Goto("wait")
  /\ UNCHANGED <<terminal, counts, links, mmu, content, local, hist>>

ReadReturns ==
  /\ At("wait")
  /\ LeaveKernel
  /\ UNCHANGED <<terminal, counts, links, mmu, content, local, hist>>

\* The content of arg, whoever parsed it; the command line "shell" has no
\* arguments (arg_length is 0 and the call returns -1).
GetArgs ==
  /\ Trap("getargs")
  /\ argbuf' = [argbuf EXCEPT ![active_pcb[run]] =
                               IF parsed = Shell THEN @ ELSE parsed]
  /\ UNCHANGED <<terminal, counts, links, mmu, image, parsed, pc, local,
                 hist>>

(***************************************************************************)
(* pit_interrupt and context_switch.                                       *)
(***************************************************************************)
\* The thread of t is making the first process of its terminal, or ending
\* it: the terminal counts none, or, after CountTerminal, one.
CreatesRoot(t) ==
  IF pc[t] \in {"map", "load", "pcb", "frame", "enter"}
    THEN num_on_terminal[t] <= 1
    ELSE num_on_terminal[t] = 0

Preemptible ==
  pc[run] \in (IF CreatesRoot(run) THEN PreemptRoot ELSE PreemptNested)

\* An interrupt in user mode pushes its frame on the stack of tss.esp0, one
\* in the kernel on the stack in use.
StackInUse == IF At("user") THEN esp0 ELSE kstack[run]

\* context_switch does nothing before terminal 0 has its shell, nor when
\* there is no other terminal.
SkipLast == (executing_terminal + 1) % (TERM_NUM - 1)
next_scheduled_terminal == (executing_terminal + 1) % TERM_NUM

Tick(n) ==
  /\ num_on_terminal[0] # 0
  /\ n = next_scheduled_terminal
  /\ n # executing_terminal
  /\ Preemptible
  /\ executing_terminal' = n

\* The next terminal has no process: its shell is started on the stack of
\* the interrupted one.  A creation of its shell that was interrupted
\* earlier is not resumed, unless the one started now fails on top of it.
LaunchShell ==
  \E n \in Terminals :
    /\ Tick(n)
    /\ num_on_terminal[n] = 0
    /\ pc' = [pc EXCEPT ![n] = "exec"]
    /\ kstack' = [kstack EXCEPT ![run] = StackInUse, ![n] = StackInUse]
    /\ local' = [local EXCEPT ![n] = [NoLocal EXCEPT !.caller = run]]
    /\ UNCHANGED <<displayed_terminal, counts, links, mmu, content, hist>>

\* Otherwise its thread goes on where it was interrupted.  The creations of
\* shells on terminals that count no process are forgotten.
SwitchTo ==
  LET fault(n) == active_pcb[n] = NULL
      lost(t) == num_on_terminal[t] = 0
  IN
  \E n \in Terminals :
    /\ Tick(n)
    /\ num_on_terminal[n] # 0
    /\ IF fault(n) THEN UNCHANGED mmu
       ELSE ProcessMap(active_pcb[n]) /\ SetEsp0(active_pcb[n])
    /\ pc' = [t \in Terminals |-> IF lost(t) THEN "none"
                                  ELSE IF t = n /\ fault(n) THEN "fault"
                                  ELSE pc[t]]
    /\ kstack' = [t \in Terminals |->
                    IF lost(t) \/ (t = n /\ pc[n] = "user") THEN NULL
                    ELSE IF t = run THEN StackInUse ELSE kstack[t]]
    /\ local' = [t \in Terminals |-> IF lost(t) THEN NoLocal ELSE local[t]]
    /\ UNCHANGED <<displayed_terminal, counts, links, content, hist>>

\* Alt with a function key, between two instructions of any thread.
SwitchDisplay(n) ==
  /\ "alt" \in UserCalls
  /\ n # displayed_terminal
  /\ displayed_terminal' = n
  /\ UNCHANGED <<executing_terminal, counts, links, mmu, content, thread,
                 hist>>

ExecuteStep ==
  \/ CheckLimit \/ ParseCommand \/ LookUp \/ LoadRefused \/ StoreRefused
  \/ SearchSlot \/ MarkSlot \/ LoadCount \/ StoreCount \/ CountTerminal
  \/ MapPage \/ LoadImage \/ SetPcb \/ SaveFrame \/ EnterUser

HaltStep ==
  \/ PickCurrent \/ LoadUncount \/ StoreUncount \/ UncountTerminal
  \/ FreeSlot \/ Unwind \/ RestoreParent

UserStep ==
  \/ \E c \in Commands : Execute(c)
  \/ Halt \/ Read \/ GetArgs

TimerStep == LaunchShell \/ SwitchTo

Next ==
  \/ ExecuteStep \/ HaltStep \/ UserStep \/ ReadReturns \/ TimerStep
  \/ \E n \in Terminals : SwitchDisplay(n)

Spec == Init /\ [][Next]_vars

(***************************************************************************)
(* Fairness.  Between two timer interrupts the CPU executes many           *)
(* instructions, so a terminal that gets the CPU again and again in the    *)
(* middle of a call goes on with it.  A timer interrupt that cannot be     *)
(* taken stays latched in the PIC and is taken at a later point that       *)
(* allows it.  Nothing is assumed of user programs, nor of the keys that   *)
(* read waits for.                                                         *)
(***************************************************************************)
KernelStepOf(t) == executing_terminal = t /\ (ExecuteStep \/ HaltStep)

FairSpec ==
  /\ Spec
  /\ \A t \in Terminals : SF_vars(KernelStepOf(t))
  /\ SF_vars(TimerStep)

(***************************************************************************)
(* Properties.                                                             *)
(***************************************************************************)
\* Every variable of sys_execute, sys_halt and context_switch stays in its
\* range; num_process_executing may fall below zero (it wraps around).
TypeOK ==
  /\ executing_terminal \in Terminals /\ displayed_terminal \in Terminals
  /\ num_process_executing \in Int
  /\ processes \subseteq Slots
  /\ num_on_terminal \in [Terminals -> Int]
  /\ active_pcb \in [Terminals -> Slots \cup {NULL}]
  /\ pcb \in [Slots -> Pcb]
  /\ vir_page \in Slots \cup {NULL}
  /\ esp0 \in Slots
  /\ image \in [Slots -> Commands]
  /\ parsed \in Commands
  /\ pc \in [Terminals -> Points]
  /\ kstack \in [Terminals -> Slots \cup {NULL}]
  /\ local \in [Terminals -> Local]
  /\ argbuf \in [Slots -> Commands \cup {NULL}]
  /\ hist \in History

\* What TypeOK rests on: a thread in the kernel has a stack, the slot that a
\* call works on is known from the point where it is chosen, and a terminal
\* has an active PCB at every point where the kernel uses it.
InKernel == Points \ {"none", "user", "fault"}
ThreadOK(t) ==
  /\ pc[t] \in InKernel => kstack[t] \in Slots
  /\ pc[t] \in {"alloc", "mark", "count", "add", "join", "map", "load", "pcb",
               "frame", "enter", "uncount", "subtract", "leave", "free",
               "unwind", "restore"} => local[t].slot \in Slots
  /\ pc[t] \in {"user", "wait", "frame", "enter", "halt", "uncount",
               "subtract", "leave", "free", "unwind", "restore"}
       => active_pcb[t] \in Slots
  /\ num_on_terminal[t] # 0
     /\ pc[t] \in {"exec", "parse", "lookup", "refuse", "lower"}
       => active_pcb[t] \in Slots

TypeInv == TypeOK /\ \A t \in Terminals : ThreadOK(t)

\* Processes of t whose PCB is linked: one less than the count while
\* sys_execute is between the count and the PCB.
Depth(t) == num_on_terminal[t]
            - (IF pc[t] \in {"map", "load", "pcb"} THEN 1 ELSE 0)

\* The last of them: sys_halt takes the process that ends out of the counts
\* before it takes it off active_pcb.
Top(t) == IF pc[t] \in {"free", "unwind"} THEN pcb[local[t].slot].parent
          ELSE active_pcb[t]

\* Ancestor(t)[k] is k steps of parent_pcb above the last process of t.
Ancestor(t) ==
  LET up[k \in 0 .. MAX_NUM_PROCESS] ==
        IF k = 0 THEN IF Depth(t) = 0 THEN NULL ELSE Top(t)
        ELSE IF up[k - 1] = NULL THEN NULL ELSE pcb[up[k - 1]].parent
  IN  up

Members(t) == {Ancestor(t)[k] : k \in 0 .. MAX_NUM_PROCESS} \ {NULL}

\* The slot that a thread has marked and not yet linked, or that it is about
\* to free.
Pending == {local[t].slot : t \in
              {u \in Terminals : pc[u] \in {"count", "add", "join", "map",
                                           "load", "pcb", "free"}}}

\* The PCBs reached from active_pcb through parent_pcb are, for each
\* terminal, as many as num_process_executing_on_terminal says; no PCB is
\* in two chains; and the busy slots are those of the chains and of the calls
\* about to fill or to free one: sys_execute and sys_halt, as long as the
\* timer spares the points outside SafeNested and SafeRoot, leak no slot and
\* reuse none.
ProcessForest ==
  ~hist.overrun =>
    /\ \A t \in Terminals : Cardinality(Members(t)) = Depth(t)
    /\ \A t, u \in Terminals : t # u => Members(t) \cap Members(u) = {}
    /\ processes = (UNION {Members(t) : t \in Terminals}) \cup Pending

\* The limit that sys_execute tests stands for the slots in use: the
\* counter is the number of busy slots less one for each text file that
\* executable_check refused and for each call between slot and counter, as
\* long as a free slot was found each time.
Uncounted ==
  {t \in Terminals : pc[t] \in {"count", "add", "leave", "free"}}

CounterAgrees ==
  ~hist.overrun =>
    Cardinality(processes) =
      num_process_executing + hist.drift + Cardinality(Uncounted)

\* Whenever a program runs, the page at 128 MB and the kernel stack of its
\* next trap are those of the active process of its terminal, whichever of
\* sys_execute, sys_halt and context_switch put it there.
UserContext ==
  pc[executing_terminal] = "user" =>
    /\ vir_page = active_pcb[executing_terminal]
    /\ esp0 = active_pcb[executing_terminal]

\* Whenever a program runs, the stack of its next trap holds no frame that
\* is still needed: neither of a terminal that context_switch will resume
\* nor of a parent whose execute has not returned.
TrapStackFree ==
  pc[executing_terminal] = "user" =>
    /\ \A t \in Terminals \ {executing_terminal} :
         num_on_terminal[t] # 0 => kstack[t] # esp0
    /\ \A s \in UNION {Members(t) : t \in Terminals} :
         pcb[s].parent # NULL => pcb[s].esp # esp0

\* Every process that exists has in its page the program that its execute
\* asked for: the shared fname and the one mapping at 128 MB never put the
\* file of another call there.
ImageAsAsked ==
  \A t \in Terminals : \A s \in Members(t) : image[s] = hist.asked[s]

\* The kernel never uses a null PCB: neither context_switch for a terminal
\* that counts a process, nor sys_halt after a first shell that could not
\* be started again.
NoFault == \A t \in Terminals : pc[t] # "fault"

\* The processes of a terminal as its user knows them: the programs in the
\* pages of the chain, and the command of an execute in progress.
Chain(t) == [k \in 1 .. Depth(t) |-> image[Ancestor(t)[Depth(t) - k]]]
InProgress(t) ==
  IF pc[t] \in {"exec", "parse", "lookup", "refuse", "lower", "alloc", "mark",
                "count", "add", "join", "map", "load", "pcb"}
    THEN local[t].command ELSE NULL

Jobs == INSTANCE Jobs
          WITH jobs <- [t \in Terminals |-> Chain(t)],
               asked <- [t \in Terminals |-> InProgress(t)],
               running <- executing_terminal,
               seen <- IF pc[executing_terminal] = "user" THEN image[vir_page]
                       ELSE NULL

\* sys_execute, sys_halt and context_switch together keep the promise of
\* Jobs: on each terminal a program is put on top of the one that asked for
\* it, and taken off when it halts; only the one on top ever runs, and from
\* its own page; an execute fails only for a file that cannot be run or
\* when the table is full; and no step touches the programs of a terminal
\* that does not have the CPU.
KeepsJobs == Jobs!Spec

\* The scheduler is fair: every terminal gets the CPU again and again,
\* unless the process table is full again and again while a terminal has no
\* shell (it cannot get one then, and context_switch goes no further).  Once
\* every terminal has its shell a full table is no excuse.
NoRoomForShell ==
  /\ num_process_executing = MAX_NUM_PROCESS
  /\ \E u \in Terminals : num_on_terminal[u] = 0

RoundRobin ==
  \A t \in Terminals : []<>(executing_terminal = t) \/ []<>NoRoomForShell

\* sys_halt of the first shell of a terminal is followed by a new shell on
\* it, also when the timer takes the CPU away in between.
ShellRelaunched ==
  \A t \in Terminals :
    pc[t] = "unwind" /\ num_on_terminal[t] = 0
      ~> \/ num_on_terminal[t] # 0
         \/ num_process_executing = MAX_NUM_PROCESS

(***************************************************************************)
(* Statements of the source that fail when the timer may strike anywhere   *)
(* (or, for the first, when a text file is executed).                      *)
(***************************************************************************)
\* "If there are already 6 processes running, return error": an execute
\* that passes the test of num_process_executing finds a free slot, and never
\* reads process_num uninitialised.
LimitHolds == ~hist.overrun

\* getargs gives a program the arguments it was executed with, whatever was
\* executed since, on its terminal or another.
ArgsOwn ==
  LET s == active_pcb[executing_terminal] IN
  pc[executing_terminal] = "user" => argbuf[s] \in {NULL, hist.asked[s]}
=============================================================================
