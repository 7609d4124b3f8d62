------------------------------- MODULE Launch -------------------------------
(***************************************************************************)
(* One terminal with its shell (ece391shell.c) and the program it runs:    *)
(* how a command line becomes a program with arguments (parse_command and  *)
(* executable_check of sys_execute), how the program ends (sys_halt, or an *)
(* exception through the IDT of idt.c and a handler of exceptions.c), and  *)
(* what the shell says then.  The slots, stacks and pages of processes are *)
(* the matter of Processes; here Shell and Child are the two slots used.   *)
(*                                                                         *)
(* A step is one system call.  What is written to the terminal during a    *)
(* command is recorded in shown, piece by piece.                           *)
(***************************************************************************)
EXTENDS Files
LOCAL INSTANCE FiniteSetsExt

CONSTANTS
  Shell, Child,   \* the slots of the shell and of the program it runs
  ARGLEN,         \* length of the kernel's argument buffer
  BUFSIZE,        \* length of the buffers of the programs
  ShellName,      \* "shell"
  MAGIC,          \* stands for the four bytes that an ELF file begins with
  Lines           \* the command lines that are typed, without the newline

NUL == "NUL"
NEWLINE == "\n"
SPACE == " "

ASSUME LaunchAssumption ==
  /\ Shell \in Slots /\ Child \in Slots /\ Shell # Child
  /\ ARGLEN \in Nat \ {0} /\ BUFSIZE \in Nat /\ ARGLEN <= BUFSIZE
  /\ \A l \in Lines :
       /\ l \in Seq(STRING) /\ Len(l) < ARGLEN
       /\ \A k \in 1 .. Len(l) : l[k] # NUL

VARIABLES
  fname, arg, arg_length,   \* globals of syscall.c
  line, sh, rval, report,   \* shell: its line, its place, result and message
  prog, pc, loc,            \* the program in Child, its place and locals
  shown,                    \* what was written since the command was typed
  ending                    \* how the command ended

kernel == <<fname, arg, arg_length>>
shell == <<line, sh, rval, report>>
child == <<prog, pc, loc, shown, ending>>

NoLocals == [none |-> 0]
NotEnded == [how |-> "none"]

\* A string in a buffer that is a function from 0.
CString(b, from) ==
  LET end == Min({i \in DOMAIN b : i >= from /\ b[i] = NUL})
  IN [k \in 1 .. end - from |-> b[from + k - 1]]

LaunchInit ==
  /\ Init
  /\ fname = <<>> /\ arg = [i \in 0 .. ARGLEN - 1 |-> NUL] /\ arg_length = 0
  /\ line = <<>> /\ sh = "boot" /\ rval = 0 /\ report = "none"
  /\ prog = "none" /\ pc = "start" /\ loc = NoLocals /\ shown = <<>>
  /\ ending = NotEnded

(***************************************************************************)
(* Exceptions.  Each handler writes its message and delivers a signal.     *)
(***************************************************************************)
Exception(m, s) == [message |-> m, signum |-> s]
Divide_Error == Exception("Devide by Zero Exception", 0)
RESERVED == Exception("Reserved", 1)
NMI_Interrupt == Exception("NMI Interrupt", 1)
Breakpoint == Exception("Breakpoint", 1)
Overflow == Exception("Overflow", 1)
BOUND_Range_Exceeded == Exception("Bound Range Exceeded", 1)
Invalid_Opcode == Exception("Invalid Opcode", 1)
Device_Not_Available == Exception("Device Not Available", 1)
Double_Fault == Exception("Double Fault", 1)
Coprocessor_Seg == Exception("Coprocessor Seg", 1)
Invalid_TSS == Exception("Invalid TSS", 1)
Segment_Not_Present == Exception("Segment Not Present", 1)
Stack_Seg_Fault == Exception("Stack Seg Fault", 1)
General_Protection == Exception("General Protection", 1)
Page_Fault == Exception("Page Fault", 1)
Floating_Error == Exception("Floating Error", 1)
Alignment_Check == Exception("Alignment Check", 1)
Machine_Check == Exception("Machine Check", 1)
Floating_Exception == Exception("Floating Exception", 1)

\* The offsets in the IDT; those of the vectors 15 and 20 to 31 stay null.
Vectors == 0 .. 14 \cup 16 .. 19
idt(v) ==
  IF v < 15
    THEN <<Divide_Error, RESERVED, NMI_Interrupt, Breakpoint, Overflow,
           BOUND_Range_Exceeded, Invalid_Opcode, Device_Not_Available,
           Double_Fault, Coprocessor_Seg, Invalid_TSS, Segment_Not_Present,
           Stack_Seg_Fault, General_Protection, Page_Fault>>[v + 1]
    ELSE <<Floating_Error, Alignment_Check, Machine_Check,
           Floating_Exception>>[v - 15]

\* Gates: the loop over the present ones ends at the keyboard's.
present(v) == v \in 0 .. 33 \cup {40, 128}
dpl(v) == IF v = 128 THEN 3 ELSE 0

\* What the processor raises for an INT instruction of a program, and for a
\* vector that the interrupt controller gives it.
ByInstruction(n) == IF dpl(n) < 3 THEN 13 ELSE IF present(n) THEN n ELSE 11
ByController(v) == IF present(v) THEN v ELSE 11

haltnum == 255
haltret == 256

\* signal.c is not in the repository.  sys_set_handler refuses every handler,
\* so signals 0 and 1 do what the handlers of exceptions.c once did
\* themselves: halt with haltnum.
signal_delivery(signum) ==
  /\ signum \in {0, 1}
  /\ pc' = "exit"
  /\ ending' = [how |-> "fault", status |-> haltnum]

Raise(v) ==
  /\ v \in Vectors
  /\ shown' = Append(shown, idt(v).message)
  /\ signal_delivery(idt(v).signum)
  /\ loc' = NoLocals
  /\ UNCHANGED vars

\* crt0 of ece391syscall.S passes what main returns to sys_halt.
Exit(status) ==
  /\ pc' = "exit"
  /\ ending' = [how |-> "exit", status |-> status]
  /\ UNCHANGED loc

(***************************************************************************)
(* sys_execute: the command line.                                          *)
(***************************************************************************)
\* The first word, cut at FILENAME_LEN.
FnameLength(c) ==
  Min({Len(c), FILENAME_LEN} \cup {n \in 0 .. Len(c) - 1 : c[n + 1] = SPACE})

\* Where parse_command begins to clear the argument buffer.
ClearAfter(c) == Len(c) - FnameLength(c)
ClearFrom(c) == Len(c) - FnameLength(c) - 1

\* Without arguments ClearFrom is -1: the byte before arg, which is the last
\* of fname or belongs to another variable, as the linker decides.
FnamesParsed(c) ==
  LET word == SubSeq(c, 1, FnameLength(c)) IN
  {word} \cup IF ClearFrom(c) = -1 /\ Len(word) = FILENAME_LEN
                THEN {SubSeq(word, 1, FILENAME_LEN - 1)} ELSE {}

parse_command(c) ==
  LET n == FnameLength(c) IN
  /\ fname' \in FnamesParsed(c)
  /\ arg_length' = IF n + 1 < Len(c) THEN Len(c) - n - 1 ELSE 0
  /\ arg' = [i \in 0 .. ARGLEN - 1 |->
               IF i < arg_length' THEN c[n + i + 2]
               ELSE IF i >= ClearFrom(c) THEN NUL ELSE arg[i]]

FirstEntry(name) == Min(EntriesFor(name))
Content(i) == read_data(direntries[i].inode_num, 0, FALSE, WORD - 1).bytes

\* An empty file leaves what the stack held in buf: it can be the header of
\* the program that was launched before.
executable_check(i) ==
  IF Content(i) = <<>> THEN BOOLEAN ELSE {Content(i)[1] = MAGIC}

\* The loaded program; of an empty file it is what the page held.
loader(i) == IF Content(i) = <<>> THEN "any" ELSE Content(i)[2]

Refused ==
  /\ rval' = -1 /\ sh' = "report"
  /\ ending' = [how |-> "refused"]
  /\ UNCHANGED <<vars, prog, pc, loc, shown>>

Launched(i) ==
  /\ Execute(Child)
  /\ prog' = loader(i) /\ pc' = "start"
  /\ sh' = "wait"
  /\ UNCHANGED <<rval, loc, shown, ending>>

sys_execute(c) ==
  /\ parse_command(c)
  /\ IF EntriesFor(fname') = {} THEN Refused
     ELSE LET i == FirstEntry(fname') IN
          \E elf \in executable_check(i) :
            IF elf THEN Launched(i) ELSE Refused

\* getargs gives the string in arg.
sys_getargs(nbytes) ==
  IF arg_length = 0 \/ arg_length > nbytes THEN Failed
  ELSE [code |-> 0, bytes |-> CString(arg, 0)]

\* sys_halt takes the status as a uint8_t.
ReturnedAsIs(status) == status % 256
Returned(status) ==
  LET s == status % 256 IN IF s = haltnum THEN haltret ELSE s

ChildHalts ==
  /\ prog # "none" /\ pc = "exit"
  /\ Halt(Child)
  /\ rval' = Returned(ending.status)
  /\ sh' = "report" /\ prog' = "none" /\ pc' = "start" /\ loc' = NoLocals
  /\ UNCHANGED <<kernel, line, report, shown, ending>>

(***************************************************************************)
(* The shell.                                                              *)
(***************************************************************************)
ExitLine == <<"e", "x", "i", "t">>

Boot ==
  /\ sh = "boot"
  /\ parse_command(ShellName)
  /\ Execute(Shell)
  /\ sh' = "prompt"
  /\ UNCHANGED <<line, rval, report, child>>

\* A line with its newline taken off.
ShellRead ==
  /\ sh = "prompt"
  /\ Read(Shell, 0, BUFSIZE - 1, FALSE)
  /\ line' \in Lines
  /\ sh' = "ready"
  /\ report' = "none" /\ shown' = <<>> /\ ending' = NotEnded
  /\ UNCHANGED <<kernel, rval, prog, pc, loc>>

\* main returns; sys_halt frees the slot of the terminal's last process and
\* executes the shell in it.
ShellExit ==
  /\ sh = "ready" /\ line = ExitLine
  /\ parse_command(ShellName)
  /\ f_desc' = [f_desc EXCEPT ![Shell] = Fresh(Closed(@))]
  /\ sh' = "prompt"
  /\ UNCHANGED <<live, call, ret, line, rval, report, child>>

ShellSkip ==
  /\ sh = "ready" /\ line = <<>>
  /\ sh' = "prompt"
  /\ UNCHANGED <<vars, kernel, line, rval, report, child>>

ShellExecute ==
  /\ sh = "ready" /\ line \notin {<<>>, ExitLine}
  /\ sys_execute(line)
  /\ UNCHANGED <<line, report>>

ShellReport ==
  /\ sh = "report"
  /\ report' = CASE rval = -1 -> "no such command"
                 [] rval = haltret -> "program terminated by exception"
                 [] rval \notin {-1, 0, haltret} ->
                      "program terminated abnormally"
                 [] rval = 0 -> "none"
  /\ sh' = "prompt" /\ rval' = 0
  /\ UNCHANGED <<vars, kernel, line, child>>

ShellNext ==
  Boot \/ ShellRead \/ ShellExit \/ ShellSkip \/ ShellExecute \/ ShellReport

(***************************************************************************)
(* Properties.                                                             *)
(***************************************************************************)
\* The program that runs is that of the file named first on the line, and
\* getargs gives it the rest of this line, with nothing of earlier ones.
ArgsAsTyped ==
  sh = "wait" =>
    /\ LET e == direntries[FirstEntry(fname)] IN
       Texts[e.inode_num] # <<>> => Texts[e.inode_num][2] = prog
    /\ SPACE \notin {fname[k] : k \in 1 .. Len(fname)}
    /\ IF arg_length = 0 THEN line \in {fname, fname \o <<SPACE>>}
       ELSE /\ sys_getargs(BUFSIZE).code = 0
            /\ line = fname \o <<SPACE>> \o sys_getargs(BUFSIZE).bytes

\* What the shell says tells how the command ended: not launched, stopped by
\* an exception, or its status.  A status that is 255 as a byte is reported
\* as an exception, and nothing is claimed of it.
ShellReports ==
  sh = "prompt" /\ ending.how # "none" =>
    CASE ending.how = "refused" -> report = "no such command"
      [] ending.how = "fault" -> report = "program terminated by exception"
      [] ending.how = "exit" ->
           \/ ending.status % 256 = haltnum
           \/ report = IF ending.status % 256 = 0 THEN "none"
                       ELSE "program terminated abnormally"
=============================================================================
