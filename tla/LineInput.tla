----------------------------- MODULE LineInput -----------------------------
(***************************************************************************)
(* Line input: what getScancode (keyboard.c) does to the line buffers of   *)
(* the displayed terminal, and terminal_read (terminal.c).                 *)
(*                                                                         *)
(* The keyboard handler runs with interrupts disabled and is one step.     *)
(* terminal_read runs with interrupts enabled, so a key may come between   *)
(* any two of its steps.  A buffer is the sequence of the bytes below its  *)
(* size: keyboard_buf[t] stands for keyboard_buf and cur_buf_size,         *)
(* stored_old_buf[t] for stored_old_buf and old_buf_size.                  *)
(***************************************************************************)
EXTENDS Integers, Sequences

CONSTANTS
  TERM_NUM,           \* number of terminals
  KEYBOARD_BUF_SIZE,  \* bytes in each buffer
  Chars,              \* the characters that keys produce
  Newline,            \* the character of the enter key
  ReadSizes           \* the values of nbytes that programs pass

Terminals == 0 .. TERM_NUM - 1
Bytes == Chars \cup {Newline}

ASSUME LineInputAssumption ==
  /\ TERM_NUM \in Nat \ {0}
  /\ KEYBOARD_BUF_SIZE \in Nat /\ KEYBOARD_BUF_SIZE >= 2
  /\ Newline \notin Chars
  /\ ReadSizes \subseteq Int

VARIABLES
  displayed_terminal,
  keyboard_buf,    \* the line being typed on each terminal
  stored_old_buf,  \* its last finished line
  enter_flag,
  reader,          \* the thread of each terminal in terminal_read
  fresh,           \* history: a line was finished that no read has copied
  held             \* history: the lines that stored_old_buf has held since
                   \* the read of its terminal began to copy

vars == <<displayed_terminal, keyboard_buf, stored_old_buf, enter_flag,
          reader, fresh, held>>
line == <<keyboard_buf, stored_old_buf, enter_flag, fresh, held>>

\* buf is what was copied so far; its length is the loop counter i.
Reader == [pc : {"user", "wait", "copy", "clear"}, nbytes : ReadSizes \cup {0},
           buf : Seq(Bytes)]

InProgram == [pc |-> "user", nbytes |-> 0, buf |-> <<>>]

Copying(t) == reader[t].pc \in {"copy", "clear"}

Init ==
  /\ displayed_terminal = 0
  /\ keyboard_buf = [t \in Terminals |-> <<>>]
  /\ stored_old_buf = [t \in Terminals |-> <<>>]
  /\ enter_flag = [t \in Terminals |-> 0]
  /\ reader = [t \in Terminals |-> InProgram]
  /\ fresh = [t \in Terminals |-> FALSE]
  /\ held = [t \in Terminals |-> {}]

(***************************************************************************)
(* Keys.                                                                   *)
(***************************************************************************)
\* One byte is left for the newline.
NoRoomForNewline(t) == Len(keyboard_buf[t]) <= KEYBOARD_BUF_SIZE - 1
HasRoom(t) == Len(keyboard_buf[t]) <= KEYBOARD_BUF_SIZE - 2

TypeChar(c) ==
  LET t == displayed_terminal IN
  /\ HasRoom(t)
  /\ keyboard_buf' = [keyboard_buf EXCEPT ![t] = Append(@, c)]
  /\ UNCHANGED <<displayed_terminal, stored_old_buf, enter_flag, reader,
                 fresh, held>>

Backspace ==
  LET t == displayed_terminal IN
  /\ keyboard_buf[t] # <<>>
  /\ keyboard_buf' = [keyboard_buf EXCEPT ![t] = SubSeq(@, 1, Len(@) - 1)]
  /\ UNCHANGED <<displayed_terminal, stored_old_buf, enter_flag, reader,
                 fresh, held>>

\* cur_buf_size = 0.
KeepTyped(t) == Append(keyboard_buf[t], Newline)
ClearTyped(t) == <<>>

Enter ==
  LET t == displayed_terminal
      finished == Append(keyboard_buf[t], Newline)
  IN
  /\ enter_flag' = [enter_flag EXCEPT ![t] = 1]
  /\ stored_old_buf' = [stored_old_buf EXCEPT ![t] = finished]
  /\ keyboard_buf' = [keyboard_buf EXCEPT ![t] = ClearTyped(t)]
  /\ fresh' = [fresh EXCEPT ![t] = TRUE]
  /\ held' = [held EXCEPT ![t] = IF Copying(t) THEN @ \cup {finished} ELSE @]
  /\ UNCHANGED <<displayed_terminal, reader>>

\* Alt with F1, F2 or F3; the lines stay with their terminals.
SwitchDisplay(t) ==
  /\ displayed_terminal' = t
  /\ UNCHANGED <<line, reader>>

(***************************************************************************)
(* terminal_read of the thread of t.                                       *)
(***************************************************************************)
Goto(t, p) == reader' = [reader EXCEPT ![t].pc = p]

Call(t, n) ==
  /\ reader[t].pc = "user"
  /\ reader' = [reader EXCEPT ![t] = [pc |-> "wait", nbytes |-> n,
                                     buf |-> <<>>]]
  /\ UNCHANGED <<displayed_terminal, line>>

ReadyDisplayed(t) == enter_flag[displayed_terminal] # 0
Ready(t) == enter_flag[t] # 0

\* The loop on enter_flag ends.  With nbytes = 0 the call returns 0 and the
\* flag stays set.
Wake(t) ==
  /\ reader[t].pc = "wait"
  /\ Ready(t)
  /\ Goto(t, IF reader[t].nbytes = 0 THEN "user" ELSE "copy")
  /\ held' = [held EXCEPT ![t] = {stored_old_buf[t]}]
  /\ UNCHANGED <<displayed_terminal, keyboard_buf, stored_old_buf, enter_flag,
                 fresh>>

\* (i < nbytes - 1) && (i < old_buf_size): the last byte of the buffer is
\* left for the terminating zero of the program.
MoreThanFits(t) == /\ Len(reader[t].buf) < reader[t].nbytes
                   /\ Len(reader[t].buf) < Len(stored_old_buf[t])
StopEarly(t) == /\ Len(reader[t].buf) < reader[t].nbytes - 1
                /\ Len(reader[t].buf) < Len(stored_old_buf[t]) - 1
More(t) == /\ Len(reader[t].buf) < reader[t].nbytes - 1
           /\ Len(reader[t].buf) < Len(stored_old_buf[t])

Copy(t) ==
  /\ reader[t].pc = "copy"
  /\ IF More(t)
       THEN reader' = [reader EXCEPT ![t].buf =
                         Append(@, stored_old_buf[t][Len(@) + 1])]
       ELSE Goto(t, "clear")
  /\ UNCHANGED <<displayed_terminal, line>>

KeepFlag(t) == UNCHANGED enter_flag
ClearDisplayed(t) == enter_flag' = [enter_flag EXCEPT ![displayed_terminal] = 0]
ClearFlag(t) == enter_flag' = [enter_flag EXCEPT ![t] = 0]

Return(t) ==
  /\ reader[t].pc = "clear"
  /\ ClearFlag(t)
  /\ reader' = [reader EXCEPT ![t] = InProgram]
  /\ fresh' = [fresh EXCEPT ![t] = FALSE]
  /\ held' = [held EXCEPT ![t] = {}]
  /\ UNCHANGED <<displayed_terminal, keyboard_buf, stored_old_buf>>

Key ==
  \/ \E c \in Chars : TypeChar(c)
  \/ Backspace \/ Enter
  \/ \E t \in Terminals : SwitchDisplay(t)

ReadStep(t) == Wake(t) \/ Copy(t) \/ Return(t)

Next ==
  \/ Key
  \/ \E t \in Terminals :
       \/ \E n \in ReadSizes : Call(t, n)
       \/ ReadStep(t)

Spec == Init /\ [][Next]_vars

\* The scheduler gives every terminal the CPU again and again, so a read
\* that can go on does; no key has to be pressed.
FairSpec == Spec /\ \A t \in Terminals : WF_vars(ReadStep(t))

(***************************************************************************)
(* Properties.                                                             *)
(***************************************************************************)
\* The variables stay in their ranges; a flag is 0 or 1.
TypeOK ==
  /\ displayed_terminal \in Terminals
  /\ keyboard_buf \in [Terminals -> Seq(Chars)]
  /\ stored_old_buf \in [Terminals -> Seq(Bytes)]
  /\ enter_flag \in [Terminals -> {0, 1}]
  /\ reader \in [Terminals -> Reader]
  /\ fresh \in [Terminals -> BOOLEAN]
  /\ held \in [Terminals -> SUBSET Seq(Bytes)]

\* No key writes past the end of keyboard_buf, and no enter past the end of
\* either buffer: when enter is pressed the line with its newline fits.
BuffersFit ==
  \A t \in Terminals :
    /\ Len(keyboard_buf[t]) < KEYBOARD_BUF_SIZE
    /\ Len(stored_old_buf[t]) <= KEYBOARD_BUF_SIZE

\* Unless enter was pressed while it copied, what terminal_read is about to
\* return is the beginning of one line: the last one finished on its
\* terminal, as much of it as fits.
CopiedPrefix(t) ==
  /\ Len(reader[t].buf) <= Len(stored_old_buf[t])
  /\ \A i \in 1 .. Len(reader[t].buf) :
       reader[t].buf[i] = stored_old_buf[t][i]

WholeOrCut(t) ==
  /\ CopiedPrefix(t)
  /\ \/ Len(reader[t].buf) = Len(stored_old_buf[t])
     \/ Len(reader[t].buf) >= reader[t].nbytes - 1

Undisturbed(t) == held[t] = {stored_old_buf[t]}

OneLine ==
  \A t \in Terminals :
    reader[t].pc = "clear" /\ Undisturbed(t) => WholeOrCut(t)

\* terminal_read never writes past the nbytes of its caller.
CallerBufferFits ==
  \A t \in Terminals :
    Copying(t) /\ reader[t].nbytes > 0 =>
      Len(reader[t].buf) < reader[t].nbytes

\* No line is given twice: a read that copies has a line that was finished
\* after the last read that copied.
NoLineTwice == \A t \in Terminals : Copying(t) => fresh[t]

\* A finished line stays readable until one of three things happens to it:
\* the next line finished on its terminal takes its place, read or not; a
\* read of that terminal, and of no other, ends with it, all of it or as
\* much as fits; or it was finished while that read copied, and is lost.
Replaced(t) == displayed_terminal = t /\ enter_flag'[t] = 1

Given(t) ==
  /\ reader[t].pc = "clear" /\ reader'[t].pc = "user"
  /\ Undisturbed(t) => WholeOrCut(t)

LinesLeave ==
  [][\A t \in Terminals :
       /\ enter_flag[t] = 1
       /\ enter_flag'[t] = 0 \/ stored_old_buf'[t] # stored_old_buf[t]
       => Replaced(t) \/ Given(t)]_vars

\* A program that waits for a line gets the one that is finished.
ReadReturns ==
  \A t \in Terminals :
    reader[t].pc = "wait" /\ enter_flag[t] = 1 ~> reader[t].pc = "user"

(***************************************************************************)
(* What the header of terminal_read says, and a key in the middle of the   *)
(* copy refutes.                                                           *)
(***************************************************************************)
\* "read will return data from one line that has been terminated by pressing
\* enter, or as much as fits in the buffer from one such line": the bytes
\* returned are those of some line that the buffer held in the meantime.
BeginningOf(l, t) ==
  /\ Len(reader[t].buf) <= Len(l)
  /\ \A i \in 1 .. Len(reader[t].buf) : reader[t].buf[i] = l[i]

ReadsFromOneLine ==
  \A t \in Terminals :
    reader[t].pc = "clear" => \E l \in held[t] : BeginningOf(l, t)

=============================================================================
