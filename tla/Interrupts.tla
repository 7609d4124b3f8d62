----------------------------- MODULE Interrupts -----------------------------
(***************************************************************************)
(* The interrupt controllers (i8259.c), the three interrupt handlers       *)
(* (pit_interrupt, getScancode, rtc_interrupt) on the kernel stacks of the *)
(* terminals' threads, and the real time clock with rtc_read and rtc_write *)
(* (rtc.c).                                                                *)
(*                                                                         *)
(* init_IDT makes every gate a trap gate, so a handler starts with         *)
(* interrupts enabled: until it has done its cli another interrupt of      *)
(* higher priority may come on top of it, and the timer may then take the  *)
(* CPU to another terminal with the handler half done.  rtc_interrupt      *)
(* never does a cli.  frames[t] is the stack of points at which the thread *)
(* of t goes on: its program or system call first, then a point for each   *)
(* interrupt that came on top of it.                                       *)
(*                                                                         *)
(* What the keyboard handler does with the key is in LineInput, Screen and *)
(* Display, and execute, which context_switch calls for a terminal without *)
(* a process, is in Processes; here it is one step.                        *)
(***************************************************************************)
EXTENDS Integers, Sequences, FiniteSets

CONSTANTS
  TERM_NUM,     \* number of terminals
  MaxDepth      \* bound: points on a stack

ASSUME TerminalsAssumption == TERM_NUM \in Nat \ {0}
ASSUME DepthAssumption == MaxDepth \in Nat \ {0}

Terminals == 0 .. TERM_NUM - 1

PIT_NUM == 0
keyboard_irq_num == 1
NMILINE == 2          \* the line of the slave on the master
RTC_IRQ == 8
Sources == {PIT_NUM, keyboard_irq_num, RTC_IRQ}
Irqs == Sources \cup {NMILINE}

\* "boot": entry, before the first shell runs; "spin": the loop of rtc_read;
\* then the points of the handlers.  "pit", "key" and "rtc" are their
\* entries.  "enable": context_switch returns early and has still to enable
\* the timer; "resume": the thread lost the CPU in context_switch.
BasePoints == {"boot", "user", "spin"}
HandlerPoints == {"pit", "enable", "resume", "key",
                  "rtc", "index", "ack", "flags"}

VARIABLES
  executing_terminal,
  frames,          \* the stack of each terminal's thread, <<>> without one
  IF_flag,         \* the interrupt flag of the CPU
  irr, isr, imr,   \* requested, in service and masked interrupts
  special_mask,    \* the master is in special mask mode
  rtc_index,       \* the register that port 0x70 selects
  periodic,        \* register C holds an interrupt that was not read
  interrupt_flag,  \* terminals[t].interrupt_flag
  stolen           \* history: rtc_write came between the two port accesses
                   \* of rtc_interrupt

vars == <<executing_terminal, frames, IF_flag, irr, isr, imr, special_mask,
          rtc_index, periodic, interrupt_flag, stolen>>
pic == <<irr, isr, imr, special_mask>>
clock == <<rtc_index, periodic, interrupt_flag, stolen>>

run == executing_terminal

\* The state in which entry (kernel.c) does its sti.
Init ==
  /\ executing_terminal = 0
  /\ frames = [t \in Terminals |-> IF t = 0 THEN <<"boot">> ELSE <<>>]
  /\ IF_flag = TRUE
  /\ irr = {} /\ isr = {} /\ imr = {}
  /\ special_mask = FALSE
  /\ rtc_index = "A"
  /\ periodic = FALSE
  /\ interrupt_flag = [t \in Terminals |-> FALSE]
  /\ stolen = FALSE

Depth == Len(frames[run])
At(p) == frames[run][Depth] = p
Moved(p) == [frames EXCEPT ![run][Depth] = p]
Goto(p) == frames' = Moved(p)
PopTwo == frames' = [frames EXCEPT ![run] = SubSeq(@, 1, Depth - 2)]
PopFrame == frames' = [frames EXCEPT ![run] = SubSeq(@, 1, Depth - 1)]

OnStack(t, points) == \E k \in DOMAIN frames[t] : frames[t][k] \in points

(***************************************************************************)
(* The two controllers: fully nested, edge triggered, specific EOI.        *)
(***************************************************************************)
\* The slave is on line 2 of the master.
Rank(i) == IF i = RTC_IRQ THEN NMILINE ELSE i

InService(i) == IF i = RTC_IRQ THEN {NMILINE, RTC_IRQ} ELSE {i}

\* A service bit holds back its own rank and those behind it; a masked one
\* does not in special mask mode.
Blocked(i) == \E j \in isr : /\ special_mask => j \notin imr
                             /\ Rank(j) <= Rank(i)

Deliverable == {i \in irr \ imr : ~Blocked(i)}

\* send_eoi.  For the slave its last outb is no EOI (8 | 0x60 is an OCW3):
\* it puts the master into special mask mode.
EoiMasterOnly(i) ==
  /\ isr' = isr \ {Rank(i)}
  /\ special_mask' = (special_mask \/ i = RTC_IRQ)
send_eoi(i) ==
  /\ isr' = isr \ InService(i)
  /\ special_mask' = (special_mask \/ i = RTC_IRQ)

Request(i) == irr' = irr \cup {i}

EntryOf(i) == CASE i = PIT_NUM -> "pit"
                [] i = keyboard_irq_num -> "key"
                [] i = RTC_IRQ -> "rtc"

\* The CPU takes the first interrupt that may be delivered.
Accept(i) ==
  /\ IF_flag
  /\ Depth < MaxDepth
  /\ i \in Deliverable
  /\ \A j \in Deliverable : Rank(i) <= Rank(j)
  /\ irr' = irr \ {i}
  /\ isr' = isr \cup InService(i)
  /\ frames' = [frames EXCEPT ![run] = Append(@, EntryOf(i))]
  /\ UNCHANGED <<executing_terminal, IF_flag, imr, special_mask, clock>>

(***************************************************************************)
(* The devices.                                                            *)
(***************************************************************************)
\* The timer's period is longer than pit_interrupt takes.
PitTick ==
  /\ PIT_NUM \notin irr
  /\ ~OnStack(run, {"pit", "enable", "resume"})
  /\ Request(PIT_NUM)
  /\ UNCHANGED <<executing_terminal, frames, IF_flag, isr, imr, special_mask,
                 clock>>

\* The keyboard controller waits until the byte before was read.
Key ==
  /\ keyboard_irq_num \notin irr
  /\ \A t \in Terminals : ~OnStack(t, {"key"})
  /\ Request(keyboard_irq_num)
  /\ UNCHANGED <<executing_terminal, frames, IF_flag, isr, imr, special_mask,
                 clock>>

\* The clock raises its line; a line that is high already makes no edge.
RtcTick ==
  /\ ~periodic
  /\ periodic' = TRUE
  /\ Request(RTC_IRQ)
  /\ UNCHANGED <<executing_terminal, frames, IF_flag, isr, imr, special_mask,
                 rtc_index, interrupt_flag, stolen>>

(***************************************************************************)
(* pit_interrupt and context_switch.  Both run with interrupts disabled,   *)
(* except where context_switch returns early: there sti comes before the   *)
(* timer is enabled.                                                       *)
(***************************************************************************)
HasProcess(t) == frames[t] # <<>> /\ frames[t][1] # "boot"

SkipLast == (executing_terminal + 1) % (TERM_NUM - 1)
next_scheduled_terminal == (executing_terminal + 1) % TERM_NUM

StayMasked(i) == imr \cup {i}
enable_irq(i) == imr \ {i}

\* No shell yet, or no other terminal.
PitNoSwitch ==
  /\ At("pit")
  /\ ~HasProcess(0) \/ next_scheduled_terminal = executing_terminal
  /\ send_eoi(PIT_NUM)
  /\ imr' = imr \cup {PIT_NUM}
  /\ IF_flag' = TRUE
  /\ Goto("enable")
  /\ UNCHANGED <<executing_terminal, irr, clock>>

PitEnable ==
  /\ At("enable")
  /\ imr' = enable_irq(PIT_NUM)
  /\ Goto("resume")
  /\ UNCHANGED <<executing_terminal, IF_flag, irr, isr, special_mask, clock>>

\* The next terminal has no process: its shell is executed and enters its
\* program with interrupts enabled.
PitLaunch ==
  LET n == next_scheduled_terminal IN
  /\ At("pit")
  /\ HasProcess(0) /\ n # executing_terminal /\ ~HasProcess(n)
  /\ send_eoi(PIT_NUM)
  /\ imr' = enable_irq(PIT_NUM)
  /\ executing_terminal' = n
  /\ IF_flag' = TRUE
  /\ frames' = [Moved("resume") EXCEPT ![n] = <<"user">>]
  /\ UNCHANGED <<irr, clock>>

\* Otherwise the thread of the next terminal goes on in its own
\* context_switch.
PitSwitch ==
  LET n == next_scheduled_terminal IN
  /\ At("pit")
  /\ HasProcess(0) /\ n # executing_terminal /\ HasProcess(n)
  /\ send_eoi(PIT_NUM)
  /\ imr' = enable_irq(PIT_NUM)
  /\ executing_terminal' = n
  /\ IF_flag' = FALSE
  /\ Goto("resume")
  /\ UNCHANGED <<irr, clock>>

\* The sti of pit_interrupt, and iret.
PitReturn ==
  /\ At("resume")
  /\ IF_flag' = TRUE
  /\ PopFrame
  /\ UNCHANGED <<executing_terminal, pic, clock>>

(***************************************************************************)
(* getScancode: cli, the key, the EOI, sti, and iret.                      *)
(***************************************************************************)
GetScancode ==
  /\ At("key")
  /\ send_eoi(keyboard_irq_num)
  /\ IF_flag' = TRUE
  /\ PopFrame
  /\ UNCHANGED <<executing_terminal, irr, imr, clock>>

(***************************************************************************)
(* rtc_interrupt, with interrupts enabled throughout.                      *)
(***************************************************************************)
RtcEoi ==
  /\ At("rtc")
  /\ send_eoi(RTC_IRQ)
  /\ Goto("index")
  /\ UNCHANGED <<executing_terminal, IF_flag, irr, imr, clock>>

\* Port 0x70 may be left at register A by rtc_write.
KeptRegister == rtc_index
SelectedRegister == "C"

RtcSelect ==
  /\ At("index")
  /\ rtc_index' = SelectedRegister
  /\ Goto("ack")
  /\ UNCHANGED <<executing_terminal, IF_flag, pic, periodic, interrupt_flag,
                 stolen>>

\* Only reading register C makes the clock lower its line.
AfterRead == periodic /\ rtc_index # "C"

RtcAck ==
  /\ At("ack")
  /\ periodic' = AfterRead
  /\ Goto("flags")
  /\ UNCHANGED <<executing_terminal, IF_flag, pic, rtc_index, interrupt_flag,
                 stolen>>

RunningOnly == [interrupt_flag EXCEPT ![run] = TRUE]
AllFlags == [t \in Terminals |-> TRUE]

RtcFlags ==
  /\ At("flags")
  /\ interrupt_flag' = AllFlags
  /\ PopFrame
  /\ UNCHANGED <<executing_terminal, IF_flag, pic, rtc_index, periodic,
                 stolen>>

(***************************************************************************)
(* Programs and their system calls.                                        *)
(***************************************************************************)
\* The first shell enters its program.
Boot ==
  /\ At("boot")
  /\ Goto("user")
  /\ UNCHANGED <<executing_terminal, IF_flag, pic, clock>>

RtcRead ==
  /\ At("user")
  /\ Goto("spin")
  /\ interrupt_flag' = [interrupt_flag EXCEPT ![run] = FALSE]
  /\ UNCHANGED <<executing_terminal, IF_flag, pic, rtc_index, periodic,
                 stolen>>

RtcReadReturns ==
  /\ At("spin")
  /\ interrupt_flag[run]
  /\ Goto("user")
  /\ UNCHANGED <<executing_terminal, IF_flag, pic, clock>>

\* rtc_write of a valid frequency, between its cli and its sti: it leaves
\* port 0x70 at register A.  With any other frequency it does nothing.
RtcWrite ==
  /\ At("user")
  /\ rtc_index' = "A"
  /\ stolen' = (stolen \/ \E t \in Terminals : OnStack(t, {"ack"}))
  /\ UNCHANGED <<executing_terminal, frames, IF_flag, pic, periodic,
                 interrupt_flag>>

HandlerStep == GetScancode \/ RtcEoi \/ RtcSelect \/ RtcAck \/ RtcFlags

KernelStep ==
  \/ PitNoSwitch \/ PitEnable \/ PitLaunch \/ PitSwitch \/ PitReturn
  \/ HandlerStep
  \/ Boot \/ RtcReadReturns

Next ==
  \/ KernelStep \/ RtcRead \/ RtcWrite
  \/ PitTick \/ Key \/ RtcTick
  \/ \E i \in Sources : Accept(i)

Spec == Init /\ [][Next]_vars

\* The timer and the clock tick on; the CPU executes, takes an interrupt
\* that it is ready for again and again, and goes on with a handler whose
\* thread has it again and again: between two interrupts it executes many
\* instructions.  Nothing is assumed of keys and programs.
FairSpec ==
  /\ Spec
  /\ WF_vars(PitTick) /\ WF_vars(RtcTick) /\ WF_vars(KernelStep)
  /\ SF_vars(Accept(PIT_NUM)) /\ SF_vars(Accept(RTC_IRQ))
  /\ \A t \in Terminals : SF_vars(executing_terminal = t /\ HandlerStep)

(***************************************************************************)
(* Properties.                                                             *)
(***************************************************************************)
\* The registers and flags stay in their ranges, and a thread's stack is
\* its program or call below points of handlers.
TypeOK ==
  /\ executing_terminal \in Terminals
  /\ frames \in [Terminals -> Seq(BasePoints \cup HandlerPoints)]
  /\ IF_flag \in BOOLEAN /\ special_mask \in BOOLEAN
  /\ irr \subseteq Sources /\ isr \subseteq Irqs /\ imr \subseteq Irqs
  /\ rtc_index \in {"A", "C"}
  /\ periodic \in BOOLEAN /\ stolen \in BOOLEAN
  /\ interrupt_flag \in [Terminals -> BOOLEAN]
  /\ frames[executing_terminal] # <<>>

\* The points of handlers that have still to send their EOI.
BeforeEoi(i) == {p \in Terminals \X (1 .. MaxDepth) :
                   /\ p[2] \in DOMAIN frames[p[1]]
                   /\ frames[p[1]][p[2]] = EntryOf(i)}

\* However handlers are nested and taken off the CPU half way, an interrupt
\* is in service exactly when one handler of it, on whatever stack, has not
\* sent its EOI: no line stays blocked, and no EOI ends the service of
\* another interrupt.
ServiceHeld ==
  /\ \A i \in Sources :
       Cardinality(BeforeEoi(i)) = (IF i \in isr THEN 1 ELSE 0)
  /\ NMILINE \in isr <=> RTC_IRQ \in isr

\* The timer is masked only while the running thread is about to enable it
\* again, and a thread that lost the CPU will find itself in context_switch
\* when it gets it back.
TimerKept ==
  /\ PIT_NUM \in imr => OnStack(executing_terminal, {"enable"})
  /\ \A t \in Terminals \ {executing_terminal} :
       HasProcess(t) => frames[t][Len(frames[t])] = "resume"

\* A clock whose line is high has its request latched or a handler that
\* will read register C: otherwise there would never be another edge.
RtcNotLost ==
  periodic /\ ~stolen =>
    RTC_IRQ \in irr \/ \E t \in Terminals : OnStack(t, {"rtc", "index", "ack"})

\* The timer is never lost: once a shell runs, every terminal gets the CPU
\* again and again.
TimerGoesOn ==
  \A t \in Terminals : []<>(executing_terminal = t \/ ~HasProcess(0))

\* The loop of rtc_read comes to its end on every terminal, unless the clock
\* was lost or keys keep coming (they go before the clock).
KeysPause == <>[](keyboard_irq_num \notin irr)
Spinning(t) == frames[t] # <<>> /\ frames[t][1] = "spin"
RtcReadEnds ==
  KeysPause =>
    \A t \in Terminals :
      Spinning(t) ~> (interrupt_flag[t] \/ ~Spinning(t) \/ stolen)

\* "set index to register C": rtc_interrupt reads register C.
ReadsRegisterC == At("ack") => rtc_index = "C"

=============================================================================
