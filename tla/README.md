# A TLA+ model of the kernel

The repository is a small operating system kernel for one 32-bit x86 CPU: three text
terminals on one screen, at most six user processes, a round robin scheduler driven by
the PIT, a read-only file system, a keyboard and a real time clock. The kernel is in
`src/kernel_code`; `src/syscalls` and `src/fish` hold user programs, `src/fsdir` the
files of the image, `src/createfs` and `src/elfconvert` the tools that make it. Line
numbers below are those of `src/kernel_code` unless a path is given.

The kernel is not concurrent by threads of its own. What makes it hard is that system
calls run with interrupts enabled (`syscall_wrapper.S` does `sti` before the call), that
every gate in `idt.c` is a trap gate, and that the timer handler may leave for another
terminal in the middle of a system call or of another handler and come back to it much
later.

## 1. Inventory

| Component | Source | State | Operations | What makes it correct |
|---|---|---|---|---|
| Process control | `syscall.c` 27-380, 498-515, `pcb.h`, `syscall_wrapper.S` | `processes[]`, `num_process_executing`, the PCB of each slot, `terminals[t].active_pcb` and its count, the globals `fname` and `arg`, `tss.esp0` | execute, halt, getargs | chains of PCBs, busy slots and counters agree; a process runs its own program, in its own page, with its own kernel stack; a halted child leaves its parent as it was |
| Scheduler | `scheduling.c`, `pit_wrapper.S` | `executing_terminal`, the saved stack pointers of each terminal | `pit_interrupt`, `context_switch` | every terminal gets the CPU again and again; a thread goes on where it stopped; no null PCB is followed |
| Process page | `paging.c` 45-60 | the page directory entry of 128 MB | `process_map` | the page is that of the running process |
| Line input | `keyboard.c` 98-270, `terminal.c` 80-115 | `keyboard_buf`, `stored_old_buf`, their sizes and `enter_flag` of each terminal | a key, `terminal_read` | lines fit, are read once, and whole or cut to the size asked for |
| Keyboard modifiers | `keyboard.c` 1-89, 98-235 | shift, caps lock, control, alt; `mode` | press, release | the character is that of the keys that are down |
| Terminal screen | `lib.c` 10-330, `keyboard.c`, `terminal.c` 120-150 | cursor and page of a terminal | `putc`, `putc_non_displayed`, `backspace`, scrolling, `clear` | the screen shows the last rows of what was printed; the echo matches the line |
| Video pages and vidmap | `paging.c` 25-85, `paging_function.S`, `terminal.c` 20-60, `syscall.c` 517-531 | the page on the screen, the pages behind the terminals, the user page table, the TLB | switch of the displayed terminal, vidmap, output | no terminal's picture gets what belongs to another |
| File descriptors, file system | `syscall.c` 195-220, 380-495, `file.c` | `f_desc` in each PCB; the image is constant | open, close, read, write | a read returns the bytes of the file that was opened, in order, once |
| Interrupt controllers | `i8259.c`, `idt.c` | IRR, ISR, IMR of the two 8259s | requests, `send_eoi`, masking | every service bit is cleared by the handler it belongs to; the timer is never left masked |
| Real time clock | `rtc.c`, `rtc_wrapper.S` | register index, register C, `interrupt_flag` of each terminal | `rtc_interrupt`, `rtc_read`, `rtc_write` | the clock goes on ticking, `rtc_read` ends |
| Exceptions | `exceptions.c`, `idt.c` | the gates of the IDT | 19 handlers | a program that causes one ends, and its shell says so |
| Signals | calls in `syscall.c`, `exceptions.c`, `keyboard.c` | | | `signal.c` and `signal.h` are not in the repository |
| Boot, descriptor tables | `boot.S`, `kernel.c`, `x86_desc.S`, `idt.c` | | `entry` | the initial states of the models; gates and privilege levels |
| Library | `lib.c` | | `printf`, string functions | pure functions |
| User programs | `src/syscalls` | the shell's line and result, the buffers of the programs | shell, cat, ls, grep, counter, sigtest, syserr | they print what the image holds, and the shell reports how they ended |
| Tests, tools | `tests.c`, `src/fish`, `src/createfs`, `src/elfconvert` | | | |

How they interact:

- A **system call** is a procedure call on the kernel stack of the active process.
  `execute` nests: the parent's call stays on its kernel stack until the child's `halt`
  returns through it.
- A **shell** passes each line to `execute`; `parse_command` leaves the arguments in a
  global from which `getargs` copies them, and the status of `halt` (or 256 for an
  exception) comes back as the result of `execute`.
- The **timer** interrupts programs and system calls. `context_switch` changes
  `executing_terminal`, the page at 128 MB, `tss.esp0` and the stack. For a terminal
  without a process it calls `execute("shell")` on the stack of the interrupted thread.
- The **keyboard handler** works on `displayed_terminal`, whatever terminal executes. It
  shares line buffers and flag with `terminal_read`, the cursor and page with
  `terminal_write`, and the video pages with programs that hold a vidmap address.
- The **clock handler** sets a flag of every terminal; `rtc_read` spins on its own.
  Handler and `rtc_write` share the index register of port 0x70.

The behaviours that are hard are listed one by one, at their lines, in `PROJECT.json`
under "hazards": steps of two threads in an order nobody tried, state read before and
used after an interruption, limits of tables and buffers, long sequences of legal calls,
and loops that have to end.

## 2. Modules

| Module | Models | Properties and proofs |
|---|---|---|
| `Jobs` | abstract: what execute, halt and the scheduler promise | |
| `Processes` | execute, halt, getargs step by step, the scheduler, process page; refines `Jobs` | `ProcessesProofs` |
| `LineInput` | line buffers and `terminal_read` | `LineInputProofs` |
| `Keys` | shift, caps lock, control, alt and the table of characters | `KeysProofs` |
| `Screen` | cursor, page and echo of one terminal | `ScreenProofs` |
| `Display` | which page output goes to | `DisplayProofs` |
| `Interrupts` | 8259s, the three handlers on their stacks, clock | `InterruptsProofs` |
| `FileSystem` | the image, `read_data`, the directory search | |
| `OpenFiles` | abstract: what open, close, read and write promise | |
| `Files` | the descriptors in the PCBs | `ProgramsProofs`, first part, which shows that it refines `OpenFiles` |
| `Launch` | extends `Files` by one terminal: its shell, the command line, arguments, exceptions, the end of a program | `ProgramsProofs`, second part |
| `Answers` | abstract: what the programs should print | `AnswersProofs`, which shows that they do |
| `Programs` | extends `Launch` by the programs of `src/syscalls`; refines `OpenFiles` | `ProgramsProofs`, second part |
| `MCProcesses`, `MCPrograms`, ... | values of the constants for TLC | |

`map` in `PROJECT.json` gives for every definition the lines it translates. An operator
that no action uses, such as `StaleMap`, `SkipLast`, `ParentAlways` or `ShiftedPast`, is
a plausible slip in the operator after it; "mutants" names the property that notices it.

### Processes

A process is named by its slot, which fixes its PCB, kernel stack and 4 MB page; a stack
pointer is represented by the slot whose stack it points into. The control of
`sys_execute` and `sys_halt` is kept as points (`pc[t]`), one action for each stretch
between two places where an interrupt makes a difference. What two terminals share is
read and written in steps of its own: the test of `processes[i]` and the mark, and the
load and the store of each `++` and `--` of `num_process_executing` (the kernel
is compiled without optimisation). The count of a terminal is changed by its own
thread only, so one step does it.

| Action | Code (`syscall.c`) |
|---|---|
| `CheckLimit` | 228-241, the test of `num_process_executing` |
| `ParseCommand` | 243-244, into the globals |
| `LookUp`, `LoadRefused`, `StoreRefused` | 245-264, directory search and `executable_check` with its decrement (176-191) |
| `SearchSlot`, `MarkSlot` | 268-278, the test of one `processes[i]`, the mark |
| `LoadCount`, `StoreCount`, `CountTerminal` | 279-280 |
| `MapPage`, `LoadImage` | 283-302, process_map, then the copy to 128 MB |
| `SetPcb`, `SaveFrame`, `EnterUser` | 306-370 |
| `PickCurrent`, `LoadUncount`, `StoreUncount`, `UncountTerminal`, `FreeSlot` | 35-54, `sys_halt` |
| `Unwind`, `RestoreParent` | 57-101 |
| `LaunchShell`, `SwitchTo` | `scheduling.c` 28-103 |

`Fail` is every `return -1` of `sys_execute`, with what each of its three callers does
with it. `hist` is a history variable: which command each process was asked for, how
many text files were refused, whether the search for a slot failed. `fault` is the point
of a thread that has dereferenced a null PCB.

`PreemptNested` and `PreemptRoot` say at which points the timer may strike a call of a
process and the creation of a first shell. They are constants because the code is
**not** safe at every point, and one parameter shows both sides. The sets
`SafeNested` and `SafeRoot`, which the proofs and `processes_safe` use, have all points
but these:

- between `parse_command` and the directory search (`syscall.c` 244): another terminal's
  execute replaces `fname` (`ImageAsAsked` fails);
- between the test of `processes[i]` and its mark (273, 275): two executes take one slot
  (`CounterAgrees` fails first, then `ProcessForest` and `TrapStackFree`);
- between a load and a store of `num_process_executing` (279, 52 and 177): the change of
  another terminal is lost (`CounterAgrees` fails);
- between `process_map` and the copy (302): the page of the parent is mapped again on
  return and the file is copied over its program (`ImageAsAsked` fails);
- after `active_pcb` was set and before `tss.esp0` is saved in the PCB (335): the value
  saved is the child's own stack (`UserContext` fails after its halt);
- after `sys_halt` freed its slot (54) and before it left: another execute takes the
  slot with the PCB and the stack that `sys_halt` still uses (`ProcessForest` and
  `TrapStackFree` fail);
- points of the creation of a first shell after it has marked a slot: an interrupted
  creation is not resumed but started again at the terminal's next turn, so the slot
  stays busy for ever (`CounterAgrees`, `ProcessForest`), its terminal may count a
  process that has no PCB (`NoFault`) and, if the timer always strikes there, the
  terminal never gets a shell (`RoundRobin`, `ShellRelaunched`);
- in the `sys_halt` of a first shell, between the two counters and the free (53, 54): its
  thread is abandoned in the same way and the slot stays busy (`CounterAgrees`).

Two windows more are in these sets, because what happens there is harmless until the
table is full: between the test of the limit and the count (234 to 279), and between the
uncount and the free of `sys_halt` (52 to 54). Another terminal's execute passes the test
in them although no slot will be free, and `process_num` is used uninitialised
(`LimitHolds` fails, for each of the five points by itself). `hist.overrun` records it.

So `processes_safe` and the theorems say no more than this: with the timer at the points
of `SafeNested` and `SafeRoot` only, and up to the first search for a slot that fails,
the process bookkeeping is right. The sets are as large as they can be: with any one
point more, nested or root, TLC finds in the instance of `processes_safe` a history that
breaks the property named. The timer of the real kernel does strike at the other points.

### Jobs

What the user of a terminal relies on: each terminal has a stack of programs, of which
only the top one runs; `execute` puts on it what was asked for on this terminal, `halt`
takes the top off; an `execute` fails only for what cannot be run or when programs and
calls in progress take all places; and no step touches the stack of a terminal that does
not have the CPU. `Processes` implements it (`KeepsJobs`) under this mapping: the stack
of a terminal is the chain of parent PCBs read from the bottom, each slot replaced by
the program *in its page*; `asked` is the command of a call of `execute` before its PCB
is linked; `seen` is the program in whatever page is mapped at 128 MB while a program
runs. So the one property speaks of PCBs, pages, table and scheduler together, step by
step. Of the steps of execute and halt, four change that state (`Ask` or `AskShell`,
`Start` at `SetPcb`, `Refuse`, `End` at `UncountTerminal`); the rest stutters. Preempted
at lines 244 or 302 (above), `Processes` does not implement `Jobs`: TLC shows `Start` of
another program.

### LineInput

Buffers are sequences. A key is one step, because `getScancode` disables interrupts;
`terminal_read` is `Wake`, then one `Copy` per byte, then `Return`, with keys in
between. `fresh` and `held` are history: that a finished line was read by nobody yet, and
the lines that `stored_old_buf` has held since a read began to copy. A line can be lost:
a second enter before any read puts its line in the place of the first, and a line that
is finished during a read is marked as read at its end. `LinesLeave` says that there is
no other way.

### Keys

One step is one scan code: `getScancode` in the order of its tests, with what it leads
to as `effect`. A character is a key together with small or capital, lower or upper.
`down`, `caps` and `both` are history: what the user really holds, caps lock pressed an
odd number of times, and that both shifts were held since none was. While control is
held the handler does not look at shift, so `mode` is behind; `ModeFollowsKeys` says
that it has caught up as soon as control is up. With both shifts the release of one ends
the shift (one variable for two keys), which the properties leave aside by `both`.

### Screen

`putc` and `putc_non_displayed` are one algorithm on two pages; so are the two scroll
functions. The history variables hold an endless sheet of paper, on which writing and
erasing are trivial, and `ShowsPaper` says that the screen is its last rows.
`line_start` is where the echo of the line began, or NONE when other output or Ctrl+L
came after the line was begun. `LineFitsAssumption` holds for the real sizes (127 <= 24
* 80) and is needed: a line longer than the screen cannot be erased.

### Display

The page on the screen, one page behind each terminal, the entry of the user page table
for each terminal's vidmap address and its copy in the TLB. What a program stores
through vidmap while it is hidden goes to page t + 4, which nothing reads; it is not in
the state.

After a failed launch `context_switch` sets `displayed_terminal` without moving pages
(`scheduling.c` 77), and two terminals are then confused. The history says how far that
goes: `apart` are the terminals between which `displayed_terminal` went, `mixed` those
whose picture was lost. The properties hold for all other terminals, also after such a
failure: `PointerFollows` for a terminal again after the next switch to or from it,
`OwnPicture` after it was cleared with Ctrl+L.

### FileSystem, OpenFiles, Files

The image is a constant: inodes, blocks, directory, and `Texts`, the contents that
`createfs` stored; `ImageAssumption` relates the two. `OpenFiles` states the promise:
each descriptor has a file and an offset, a read returns the next bytes, `open` fails
only for a name that is not there or when all descriptors are used, and a new process
has nothing open. `Files` has the descriptors with their flag, functions, inode and
position as they are, including what `sys_halt` leaves behind: its loop stops before the
last descriptor, and what saves the next process in the slot is that `sys_execute`
clears all of them. `call` is the last call and `ret` what it returned, so that a
refinement has to match results with the call they answer. Under the mapping `open`,
`Files` implements `OpenFiles`.

### Launch, Answers, Programs

`Launch` is one terminal with its shell and the program that the shell runs:
`parse_command` on the typed line (with the clearing that begins one byte early, at
index -1 when there are no arguments, `syscall.c` 145), the search, `executable_check`
on a buffer that an empty file leaves as it was, `getargs`, the status that `sys_halt`
cuts to a byte, and what `ece391shell.c` says. An exception goes through the gate of
`idt.c`, which an INT instruction may not use, and which is not present for the vectors
39 and 47 of stray interrupts, to its handler. `signal_delivery` is external: signal
numbers 0 and 1 end the program with 255, as the older bodies of the same handlers did
(they are left as comments in `exceptions.c`).

`Programs` adds cat, ls, grep, counter, sigtest and syserr, one step for each system
call, and a program that makes any calls, causes exceptions and returns any status. They
share a slot, so that each finds in its PCB, in `arg` and on the stack what an earlier
one left. `shown` is what a program writes for its answer; prompts before a read of the
keyboard are left out. `Answers` says what should be printed from the image alone, in
terms of lines and texts, with none of the buffers of the programs. `dirty` marks a
search that a newline left in the uninitialised byte behind grep's buffer may have
misled (`ece391grep.c` 33). `do_lines` states the inner loop of grep by the starts of the
lines, which are 0 and the places after a newline: what the loop visits when it goes from
newline to newline. The lines that it finds, like those that `Answers` names, are a
sequence put together from one or no line for each place, which is how they can be
reasoned about. The assumptions on the constants are that command lines have no NUL
in them and leave room for one in the buffer (`terminal_read` and the shell see to both),
that the entries named "." are directories, and that the length of a file fits a word.
`CharacterAssumption` says of the few characters that the programs write that they are
strings, a fact of TLA+ that the provers have no rule for.

### Interrupts

`frames[t]` is the stack of points at which the thread of t goes on: program, call or
boot, then one point for every interrupt on top. `Accept` follows the 8259 in fully
nested mode, and in special mask mode once `send_eoi` for the slave has written `8 |
0x60` to the master (`i8259.c` 107), which is an OCW3 and no EOI. The two controllers
and the clearing of register C are hardware and marked external. `stolen` is history:
`rtc_write` came between the two port accesses of `rtc_interrupt`.

## 3. Runs

| Run | Instance | Question |
|---|---|---|
| `processes_safe` | 2 terminals, 3 slots, shell, program, text file, absent name | does the bookkeeping of execute, halt and scheduling stay consistent, and implement `Jobs`, under preemption at the points in `SafeNested`, `SafeRoot`? |
| `processes_live` | 3 terminals, 3 slots, timer in programs and their waiting loops only | does every terminal get the CPU, and its shell again after it halted? |
| `processes_limit` | text files | violated: an execute past the test finds every slot busy |
| `processes_args` | getargs | violated: getargs returns arguments of a later command |
| `line_keys` | 2 terminals, buffers of 3 bytes, sizes -1, 0, 3 | are lines safe and read once, how can they be lost, and do waiting reads return? |
| `line_torn` | the same | violated: a read with bytes of two lines |
| `screen_small` | 3 rows of 2 columns, line of 4, 5 rows of paper | does the screen show what was printed, and backspace erase what was typed? |
| `display_pages` | 3 terminals, one cell, two characters | does each picture stay its own, also around a failed launch? |
| `shell_commands` | 17 command lines, an image of 13 entries, 4 descriptors, buffers of 6 bytes | do the programs print what they should, in any order in one slot, does the shell report their ends, do all calls keep `OpenFiles`, and does every command end? |
| `interrupts_nested` | 2 terminals, stacks of 4 points | are service, masks, timer and clock right however handlers nest? |
| `interrupts_index` | stacks of 3 points | violated: the handler reads another register than C |
| `keys_all` | two letters for control, one other letter, a symbol, all modifiers | does the row of characters follow the keys, and does each key do what it says? |

Every run but the four violations explores its whole (bounded) state space.

**Bounds, and why they are enough.**
`MAX_NUM_PROCESS` is 3 where the kernel has 6, with 2 or 3 terminals: a chain of a
parent and a child on one terminal next to a process on another, and a full table, all
occur. With two terminals the first shell of the other one and nested calls of both
interleave; `processes_live` needs the third, so that skipping one is not the same as
stopping. `RoundRobin` excuses a full table only while some terminal has no shell (it
cannot get one, and `context_switch` goes no further then); that three shells fill the
three slots is no excuse, and from then on every terminal has to get the CPU whatever
the others do. `MaxDrift` is the number of text files refused (each lowers the counter
for ever, so it has to be bounded), and the constraint `SlotFound` of `processes_safe`
ends the behaviours in which the search for a slot failed, by a refused text file or in
the windows of the limit: what follows there is the uninitialised `process_num`. The
theorems make the same proviso (section 4). Three bytes hold the empty, the
one-character and the full line; the sizes of reads are a negative one, none, and one
that takes two bytes: the shorter lines whole, the full one cut. A screen of 3 x 2 has
every kind of cell (first, inner, last row; first and last column), a line of 4
characters wraps twice, and 5 rows of paper scroll it off. `MaxRows` bounds the paper.
In `shell_commands` blocks have 2 bytes and names 2 characters, the buffers of arguments
and programs 6: a text of eleven bytes in blocks out of order has lines that cross a
block and the end of grep's buffer, an empty line and no newline at the end; others have
part of a block, exactly one, or nothing. The seventeen lines are an empty one, `exit`,
names with and without arguments, a space and nothing after it, an argument of full
length, a name that is not there, names of a text, of the directory and of an empty
file, which is executed as whatever the stack and the page held. `MaxDirReads` is one
more than the entries, so that a read past the last one (`file.c` 211) is made;
`MaxAnyReads` bounds those of the arbitrary program. Four descriptors leave two to open;
`syserr` opens one more. `WORD` stands for 2^32 and is larger than any size, which is
all that the conversion of a negative size needs. The choices of counter are 1, 2 and
12, for one digit and two. `MaxDepth` = 4 holds a program with all three handlers on top
of it. No symmetry is used: terminals are numbers that the scheduler computes with.

**Fairness.**
`Processes`: strong fairness of each thread's kernel steps, because between two timer
interrupts (10 ms or so) the CPU executes many instructions, so that a terminal which
has the CPU again and again goes on with its call; and of the timer, whose request stays
latched in the PIC until it is taken. None for programs, nor for the keys a read waits
for. `LineInput`: weak fairness of the steps of `terminal_read`, which the scheduler
gives. `Interrupts`: the timer and the clock tick, the CPU executes (weak); an interrupt
that is accepted again and again possible is accepted, and a handler whose thread has
the CPU again and again goes on (strong, by the same argument). `RtcReadEnds` assumes
that keys pause, since the keyboard goes before the clock. `Programs`: weak fairness of
the supplied programs, which get the CPU by `RoundRobin` and `TimerGoesOn` and for which
somebody types when they read the keyboard; of `halt` and of the shell's report; none of
the arbitrary program nor of the user at the prompt. `Screen`, `Display` and `Keys` have
only safety properties.

**What the violations show.**

1. `executable_check` (`syscall.c` 177) lowers `num_process_executing` for a file that
   was never counted. After one refused text file the limit admits a process too many,
   and the search for a slot leaves `process_num` uninitialised.
2. `getargs` (510) copies a global that every execute overwrites.
3. `terminal_read` (`terminal.c` 104) can return parts of two lines: in the trace the
   newline of an empty line and, enter having been pressed during the copy, that of the
   next line, which no line of the terminal begins with.
4. `rtc_interrupt` (`rtc.c` 60) can read register A instead of C when `rtc_write` of
   another terminal comes in between; the clock's line then stays high and no `rtc_read`
   ever returns again.

## 4. Proofs

All theorems hold for every value of the constants that satisfies the assumptions named
in the modules (positive numbers of terminals and slots, buffers of at least two bytes,
and so on).

- `ProcessesProofs`: see below.
- `LineInputProofs!NoOverflow` and `TypeCorrect` follow from `SizeInv`, which is
  inductive: the byte that `HasRoom` keeps free is the one enter needs. `CallerSafe`
  adds `Fits`, that the copy never has more bytes than the caller asked for.
  `ReadsOneLine` (`OneLine`) needs `CopyInv`: as long as `held` has the line in the
  buffer and no other, what was copied so far is a beginning of that line, and at the
  end the loop's test says that it is all of it or as much as fits. `LinesKept`
  (`LinesLeave`) follows from it, since only `Return` takes a flag down. `NeverTwice`
  needs `FlagInv`: a flag that is up stands for a line nobody has read, and it is up
  while a read copies.
- `KeysProofs!TypeCorrect`, `RowCorrect`, `EffectCorrect`: neither `ModeFollowsKeys` nor
  `DoesAsAsked` is inductive, since nothing is said of the row while control is held.
  `FlagsFollow` adds that the flags are those of the keys and that caps lock is in the
  row even then. `Effects` is the case analysis over the keys, and `HandledKeepsInv`
  goes flag, row, effect in the order of the handler.
- `ScreenProofs!TypeCorrect` and `WritesInPage`: `CursorOnScreen` is inductive, and with
  it every cell that putc and backspace compute lies in the page (the arithmetic of
  `CursorInPage`). `PaperShown` and `EchoCorrect` rest on `PaperInv`: the screen is the
  window on the paper, the paper below it is blank, and the line that is echoed begins
  on the screen, which is where `LineFitsAssumption` is used.
- `DisplayProofs!TypeCorrect`, `PointerCorrect`, `PictureCorrect`. `OwnPicture` is not
  inductive: a store through vidmap goes where the TLB says, so its proof uses
  `PointerFollows`, that the entry of a terminal leads to the screen exactly while it is
  displayed and the TLB agrees with the table. Both are proved with the failed launch
  among the steps.
- `ProgramsProofs!TypeCorrect`, `ReadsWithinFile` and `KeepsItsPromises` (`Spec` of
  `Files` implies that of `OpenFiles` under `open`), for every image that satisfies
  `ImageAssumption`. The invariant is stated row by row, since a call changes one
  descriptor of one PCB, and says also what holds for PCBs without a process:
  `sys_execute` does not clear functions and `sys_halt` leaves the last descriptor, and
  neither matters. The bytes of a read are those of the text by the arithmetic of block
  and offset, with no induction: `read_data` is a function of the position.
- `InterruptsProofs!TypeCorrect`, `ServiceCorrect`, `TimerCorrect`, `ClockCorrect`, for
  any number of terminals and stacks of any depth. `ServiceHeld` counts the handlers
  before their EOI on *all* stacks, so the invariant says that for each service bit
  there is exactly one such handler, that stacks begin with a program, a call or boot
  (`StacksOK`), that the timer is masked by the thread that runs if at all (`TimerInv`),
  and that register C is only pending while somebody will read it (`ClockInv`).

**Launch and Programs.** The second part of `ProgramsProofs` carries those of `Files`
over to the shell with its programs, for any image, command lines, number of descriptors
and buffer sizes.

- `SystemSound` is the inductive invariant `SInv`. It adds to that of `Files` what each
  stage knows: how the program ended, until the shell has said so (`EndInv`); what
  `parse_command` left in the buffer and the length, which is the rest of the line with
  its NUL (`ArgsInv`); that the shell has nothing open (`ShellInv`); and
  what the locals of cat, ls, grep and syserr stand for (`LocalInv`): that descriptors
  they go on with are regular ones, two different ones in grep, whose buffer never has
  more than `BUFSIZE` bytes.
- `SystemTypeCorrect` (`WithinFile`) and `PromisesKept` (`KeepsPromises`): each program
  step is at most one call of the kernel and says which; execute and halt are the
  abstract start and exit of a process, and the initial start of the shell is one too.
- `ReportCorrect` (`ShellReports`) follows from `EndInv`. A status cannot be taken for a
  refused command or an exception, because `sys_halt` cuts it to a byte; the exception is
  the byte 255, which `ShellReports` leaves aside.
- `ArgsCorrect` is `ArgsAsTyped` for lines whose first word fits (`FirstWordFits`). A
  longer first word is cut, and the first character of what is left of it is dropped as
  if it were the space (`syscall.c` 134); a word of full length at the end of the line
  may lose its last character to the clearing that begins at -1 (145). Without the
  proviso the claim is false of such lines.
  Its lemma `Joined` is what a reader of `parse_command` does by hand: name, blank and
  arguments together are the line.
- `SyserrCorrect` (`SyserrPasses`) needs a further invariant, `Passing`: before each test
  no regular descriptor is in use, and inside the test that opens as many as there are,
  the ones in use are the first k, then, while it closes them, those after the k-th. That
  it starts with none depends on `sys_execute` and not on `sys_halt`, whatever program
  had the slot before. The hypothesis `SyserrImage` (the directory is there, the wrong
  names of the tests are not, and there are fewer descriptors than the "big" one) is what
  the tests themselves assume.

**Processes.** `TypeCorrect` (`Spec => []TypeOK`) holds for any sets of preemption
points. `TypeOK` is not inductive: `pcb[NULL]` would be outside its domain. `TypeInv`
adds `ThreadOK`, which says at which points a thread has a kernel stack, a chosen slot
and an active PCB; `StepTypeInv` has one step for each action.

The other theorems rest on one inductive invariant, `IInv` (theorem `Sound`), for any
numbers of terminals and slots, any commands and all sets of points within `SafeNested`
and `SafeRoot` (`SafePreemption`). None of the six safety properties is inductive, and
none of them can be proved without the others: a program is in its own page because
nobody else was given its slot, the slot was free because busy slots are those of the
chains, and the chain is right because `sys_halt` found in its PCB what `sys_execute`
had saved there. `IInv` has these parts:

- `ForestInv(ch)`: the chains of PCBs, given as a function `ch` from terminals to the
  slots from the first shell up, so that an execute extends it and a halt shortens it.
  `Ancestor`, which follows `parent_pcb` downwards, is shown to be `ch` read backwards
  (`AncestorIsChain`). The chains are disjoint, no slot is in two calls of execute, and
  the busy slots are those in chains, in calls of execute between `MarkSlot` and
  `SetPcb`, and in calls of halt between `UncountTerminal` and `FreeSlot`.
- `ThreadsInv`: which point each thread can be at when it does not run, and whose stack
  it is on. The creation of a first shell is the exception: it runs on the stack of the
  interrupted thread and counts before its PCB is linked.
- `AliveInv`: what page, `tss.esp0` and globals are for a thread that can go on. That is
  the running one and, while `context_switch` starts first shells one inside the other,
  those that wait below it: when the launch fails, they go on with no switch that would
  restore anything. The threads in between are started again, never resumed.
- `Counted`: `num_process_executing`, the refused text files and the calls between
  marking and counting, or between uncounting and freeing, are together the busy slots.
  `RoomOK` derives from it that a first shell that halted finds room to start again.

From it follow `ForestCorrect`, `CounterCorrect`, `NeverFaults`, `ContextCorrect`,
`StacksDisjoint` and `ImagesCorrect`, each as long as the search for a free slot did not
fail (`~hist.overrun`; what follows a failure is the uninitialised `process_num`, as in
the constraint of `processes_safe`). `JobsImplemented` is the refinement `KeepsJobs`:
every step is a step of `Jobs` or leaves the stacks of programs alone. `LimitCorrect`
says when the search cannot fail: while no text file has been refused, provided that the
timer strikes neither between the test of the limit and the count nor between the uncount
and the free (`NoGap`). Without that proviso the claim is false at each of the points it
leaves out; those are the hazards at `syscall.c` 234 and 52. `AllCorrect` puts this
together: with no text files, `SafePreemption` and `NoGap`, all these properties hold
without the exception of a failed search.

A chain is a recursive function of the model; facts about it are proved without the
induction theorems, which no installed prover can instantiate: a set of naturals has a
least element (`LeastNatural`, from `WFMin`), applied to the counterexamples.

**What the programs print.** `AnswersProofs!AnswersCorrect` is `ShowsAnswer` for any
image, command lines and sizes of buffers. Its hypothesis `SearchedImage` is about the
image: the directory is there; the names are distinct, not empty, no longer than a
buffer, have no ":" and no newline, so that a line of grep's output tells which text it
is from, and those of texts do not begin with a ".", since grep skips these; and there
are two descriptors besides 0 and 1. The image of `src/fsdir` is of this kind, and TLC
evaluates the hypothesis for that of `shell_commands` (`ImageIsSearched`; that of
`SyserrCorrect` is `ImageTestsSyserr`).

- `ShowsAnswer` is about the end of a program, so the invariant `ShownInv` says what each
  program has shown in the middle. For cat and ls (`CatInv`, `LsInv`) it is what
  `Answers` names, up to the position of their descriptor: a text up to that byte, a
  directory up to that entry. For counter (`CounterInv`) it is the numerals up to its own.
- For grep (`GrepShown`) the lines shown so far are those that `Answers` has for the
  entries before the open one, and for the open text (`Searched`) those of the lines
  that begin before the buffer does: the buffer begins with a line, or with a newline
  that ends one, and its first `last` characters are those of the text before the
  position of the descriptor. A line that the end of a read cuts is therefore moved to
  the front, never shown and never lost; it fits because texts have no line longer than
  `LongestLine`; and at the end of the file the rest of the buffer is the last line.
  What grep prints for other files, whose lines may be cut or lost, has to be told apart
  from it: `FromTexts` picks out of the whole output the lines of texts, and the proof
  shows that it does so piece by piece.
- `dirty` is in the invariant as in the property: once the uninitialised byte behind the
  buffer may have been taken for a newline, nothing is claimed of this grep.
- `ItoaStands`: `itoa` computes the digits from the last to the first and then reverses
  them (`strrev`); the reversed digits stand for the number, and the first is no zero.

These are facts about sequences of any length, and no induction over data is available.
The lemmas of the first part (`AllNaturals`, from the least element of a set of naturals)
replace it: `FlattenSeq` of an initial piece, of a concatenation and of one sequence more,
and the lines of a text from which a beginning has been cut off at a newline.

**Only model-checked**: liveness (`RoundRobin`, `ShellRelaunched`, `ReadReturns`,
`TimerGoesOn`, `RtcReadEnds`, `CommandEnds`), which is out of the prover's reach, as is
what fairness each needs. Every invariant and every other action property that a passing
run checks is proved, `ArgsAsTyped`, `SyserrPasses` and `ShowsAnswer` with the hypotheses
named above, those of `Processes` for the points in `SafeNested` and `SafeRoot`.

## 5. Not modelled

- **Signals**: `signal.c` and `signal.h` are missing from the repository, so neither
  delivery nor `sigreturn` can be translated. Ctrl+C, which assigns `executing_terminal`
  in the keyboard handler and then calls `signal_delivery(2)` (`keyboard.c` 118), is
  therefore left out, and its hazard has no property. For the exceptions the
  effect is known from the bodies the handlers had before.
- **A directory of 63 entries** (`file.c` 211): what `dir_read` finds behind it is the
  first inode of the image, so the hazard has no property. Nor has the one of a line
  that was typed for an earlier caller of `read` (`terminal.c` 99): the code ties no line
  to a caller.
- The return of `context_switch` after a failed execute (`scheduling.c` 75-79) is in
  `Processes` and `Display`; `Interrupts`, where the timer is unmasked before it, leaves
  it out.
- The keys whose codes begin with 0xE0: the handler ignores the prefix and takes the
  code after it, so that the right control and alt key act as the left ones. `LineInput`
  and `Screen` take the character as an input; which one it is, is in `Keys`.
- **The rate of the clock**, which no control depends on.
- `read_dentry_by_name`, `read_dentry_by_index`, `file_open`, `dir_open`: `sys_open`
  stores the last two and never calls them, and nothing else reaches the first two.
- The programs `hello`, `testprint` and `pingpong`, which only read the keyboard or the
  clock and print constants, and `fish`, most of which is an animation in assembly;
  `ece391emulate.c` runs programs on another system.
- `printf` and the memory functions of `lib.c`, boot, the descriptors of segments, tests
  and build tools: pure, constant, or not part of the running system.

## 6. Plan

Order of the work: the processes and the scheduler first, since everything else runs in
them; then what threads and handlers share (lines, screen, pages, interrupts); then what
runs on top (files, command lines, programs).

Done: all modules of section 2 with their runs, and the proofs of section 4.

What is left:

1. Ctrl+C, should `signal.c` be added to the repository, as an action of `Processes`.
2. `pingpong` and `fish` as clients of `rtc_read` in `Interrupts`.
