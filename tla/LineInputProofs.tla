-------------------------- MODULE LineInputProofs --------------------------
(***************************************************************************)
(* Proofs about LineInput, for any number of terminals, any buffer size of *)
(* at least two bytes and any sizes of reads.                              *)
(***************************************************************************)
EXTENDS LineInput, SequenceTheorems, TLAPS

USE LineInputAssumption DEF Terminals, Bytes

(***************************************************************************)
(* What the steps use of sequences.                                        *)
(***************************************************************************)
LEMMA AppendFacts ==
  ASSUME NEW S, NEW s \in Seq(S), NEW e \in S
  PROVE  /\ Append(s, e) \in Seq(S)
         /\ Len(Append(s, e)) = Len(s) + 1
         /\ Append(s, e)[Len(s) + 1] = e
         /\ \A i \in 1 .. Len(s) : Append(s, e)[i] = s[i]
OBVIOUS

LEMMA Prefix ==
  ASSUME NEW S, NEW s \in Seq(S), NEW n \in 0 .. Len(s)
  PROVE  SubSeq(s, 1, n) \in Seq(S) /\ Len(SubSeq(s, 1, n)) = n
<1>1. Len(s) \in Nat
  BY LenProperties
<1>2. n \in Int /\ 1 \in Int /\ \A i \in 1 .. n : s[i] \in S
  BY <1>1, ElementOfSeq
<1>3. n = IF 1 <= n THEN n - 1 + 1 ELSE 0
  BY <1>1
<1> QED
  BY <1>2, <1>3, SubSeqProperties

LEMMA DropLast ==
  ASSUME NEW S, NEW s \in Seq(S), s # <<>>
  PROVE  /\ SubSeq(s, 1, Len(s) - 1) \in Seq(S)
         /\ Len(SubSeq(s, 1, Len(s) - 1)) = Len(s) - 1
<1>1. Len(s) \in Nat \ {0}
  BY EmptySeq
<1>2. Len(s) - 1 \in 0 .. Len(s)
  BY <1>1
<1> QED
  BY <1>2, Prefix, Zenon

LEMMA LengthIsNat == ASSUME NEW S, NEW s \in Seq(S) PROVE Len(s) \in Nat
OBVIOUS

LEMMA CharsAreBytes == ASSUME NEW s \in Seq(Chars) PROVE s \in Seq(Bytes)
OBVIOUS

(***************************************************************************)
(* Types and sizes.                                                        *)
(***************************************************************************)
SizeInv == TypeOK /\ BuffersFit

LEMMA InitSizeInv == Init => SizeInv
BY EmptySeq DEF Init, SizeInv, TypeOK, BuffersFit, Reader, InProgram

LEMMA KeySizeInv == SizeInv /\ Key => SizeInv'
<1> SUFFICES ASSUME SizeInv, Key PROVE SizeInv'
  OBVIOUS
<1> USE DEF SizeInv, TypeOK, BuffersFit
<1>1. ASSUME NEW c \in Chars, TypeChar(c) PROVE SizeInv'
  <2> DEFINE b == keyboard_buf[displayed_terminal]
  <2>1. b \in Seq(Chars) /\ Len(b) <= KEYBOARD_BUF_SIZE - 2
    BY <1>1 DEF TypeChar, HasRoom
  <2>2. Append(b, c) \in Seq(Chars) /\ Len(Append(b, c)) = Len(b) + 1
    BY <2>1, AppendFacts
  <2>3. Len(b) \in Nat
    BY <2>1
  <2> QED
    BY <1>1, <2>1, <2>2, <2>3 DEF TypeChar
<1>2. CASE Backspace
  <2> DEFINE b == keyboard_buf[displayed_terminal]
  <2>1. b \in Seq(Chars) /\ b # <<>>
    BY <1>2 DEF Backspace
  <2>2. /\ SubSeq(b, 1, Len(b) - 1) \in Seq(Chars)
        /\ Len(SubSeq(b, 1, Len(b) - 1)) = Len(b) - 1
    BY <2>1, DropLast
  <2>3. Len(b) \in Nat
    BY <2>1
  <2> DEFINE d == SubSeq(b, 1, Len(b) - 1)
  <2>5. /\ keyboard_buf' = [keyboard_buf EXCEPT ![displayed_terminal] = d]
        /\ UNCHANGED <<displayed_terminal, stored_old_buf, enter_flag, reader,
                       fresh, held>>
    BY <1>2 DEF Backspace
  <2>6. d \in Seq(Chars) /\ Len(d) < KEYBOARD_BUF_SIZE
    BY <2>2, <2>3
  <2> HIDE DEF d
  <2> QED
    BY <2>5, <2>6
<1>3. CASE Enter
  <2> DEFINE b == keyboard_buf[displayed_terminal]
  <2>1. b \in Seq(Bytes) /\ Len(b) < KEYBOARD_BUF_SIZE /\ Newline \in Bytes
    BY CharsAreBytes
  <2>2. Append(b, Newline) \in Seq(Bytes) /\ Len(Append(b, Newline)) = Len(b) + 1
    BY <2>1, AppendFacts
  <2>3. Len(b) \in Nat
    BY <2>1
  <2>4. /\ enter_flag' \in [Terminals -> {0, 1}]
        /\ fresh' \in [Terminals -> BOOLEAN]
        /\ UNCHANGED <<displayed_terminal, reader>>
    BY <1>3 DEF Enter
  <2> DEFINE e == <<>>
             f == Append(b, Newline)
             h == IF Copying(displayed_terminal)
                    THEN held[displayed_terminal] \cup {f}
                    ELSE held[displayed_terminal]
  <2>5. /\ keyboard_buf' = [keyboard_buf EXCEPT ![displayed_terminal] = e]
        /\ stored_old_buf' = [stored_old_buf EXCEPT ![displayed_terminal] = f]
        /\ held' = [held EXCEPT ![displayed_terminal] = h]
    BY <1>3 DEF Enter, ClearTyped
  <2>6. /\ e \in Seq(Chars) /\ Len(e) < KEYBOARD_BUF_SIZE
        /\ f \in Seq(Bytes) /\ Len(f) <= KEYBOARD_BUF_SIZE
    BY <2>1, <2>2, <2>3, EmptySeq
  <2> HIDE DEF f
  <2>7. h \in SUBSET Seq(Bytes)
    BY <2>6
  <2> HIDE DEF e, h
  <2> QED
    BY <2>4, <2>5, <2>6, <2>7
<1>4. ASSUME NEW t \in Terminals, SwitchDisplay(t) PROVE SizeInv'
  BY <1>4 DEF SwitchDisplay, line
<1> QED
  BY <1>1, <1>2, <1>3, <1>4 DEF Key

LEMMA ReaderUpdates ==
  ASSUME NEW r \in Reader, NEW b \in Seq(Bytes), NEW p \in {"user", "copy", "clear"}
  PROVE  [r EXCEPT !.buf = b] \in Reader /\ [r EXCEPT !.pc = p] \in Reader
BY DEF Reader

LEMMA ReaderSizeInv ==
  ASSUME SizeInv, NEW t \in Terminals,
         ReadStep(t) \/ \E n \in ReadSizes : Call(t, n)
  PROVE  SizeInv'
<1> USE DEF SizeInv, TypeOK, BuffersFit, line, Goto
<1>1. ASSUME NEW n \in ReadSizes, Call(t, n) PROVE SizeInv'
  BY <1>1, EmptySeq DEF Call, Reader
<1>2. CASE Wake(t)
  <2> DEFINE p == IF reader[t].nbytes = 0 THEN "user" ELSE "copy"
  <2>1. reader' \in [Terminals -> Reader]
    <3>1. reader' = [reader EXCEPT ![t] = [reader[t] EXCEPT !.pc = p]]
      BY <1>2 DEF Wake
    <3>2. reader[t] \in Reader /\ p \in {"user", "copy", "clear"}
      OBVIOUS
    <3>3. [reader[t] EXCEPT !.pc = p] \in Reader
      <4>1. reader[t].buf \in Seq(Bytes)
        BY <3>2 DEF Reader
      <4> HIDE DEF p
      <4> QED
        BY <3>2, <4>1, ReaderUpdates
    <3> QED
      BY <3>1, <3>3
  <2>2. held' \in [Terminals -> SUBSET Seq(Bytes)]
    BY <1>2 DEF Wake
  <2> QED
    BY <1>2, <2>1, <2>2 DEF Wake
<1>3. CASE Copy(t)
  <2> DEFINE b == reader[t].buf
  <2>1. b \in Seq(Bytes) /\ stored_old_buf[t] \in Seq(Bytes)
    BY DEF Reader
  <2>2. CASE More(t)
    <3>1. stored_old_buf[t][Len(b) + 1] \in Bytes
      <4>1. Len(b) \in Nat /\ Len(stored_old_buf[t]) \in Nat
        BY <2>1, LenProperties
      <4>2. Len(b) + 1 \in 1 .. Len(stored_old_buf[t])
        BY <2>2, <4>1 DEF More
      <4> QED
        BY <2>1, <4>2, ElementOfSeq
    <3>2. Append(b, stored_old_buf[t][Len(b) + 1]) \in Seq(Bytes)
      BY <2>1, <3>1, AppendFacts
    <3>3. reader' = [reader EXCEPT ![t] = [reader[t] EXCEPT !.buf =
                       Append(b, stored_old_buf[t][Len(b) + 1])]]
      BY <1>3, <2>2 DEF Copy
    <3>4. reader' \in [Terminals -> Reader]
      BY <3>2, <3>3, ReaderUpdates
    <3> QED
      BY <1>3, <3>4 DEF Copy
  <2>3. CASE ~More(t)
    <3>1. reader' = [reader EXCEPT ![t] = [reader[t] EXCEPT !.pc = "clear"]]
      BY <1>3, <2>3 DEF Copy
    <3>2. reader' \in [Terminals -> Reader]
      BY <2>1, <3>1, ReaderUpdates
    <3> QED
      BY <1>3, <3>2 DEF Copy
  <2> QED
    BY <2>2, <2>3
<1>4. CASE Return(t)
  BY <1>4, EmptySeq DEF Return, ClearFlag, Reader, InProgram
<1> QED
  BY <1>1, <1>2, <1>3, <1>4 DEF ReadStep

LEMMA StepSizeInv == SizeInv /\ [Next]_vars => SizeInv'
<1>1. SizeInv /\ UNCHANGED vars => SizeInv'
  BY DEF SizeInv, TypeOK, BuffersFit, vars
<1> QED
  BY <1>1, KeySizeInv, ReaderSizeInv DEF Next

LEMMA SizesAlways == Spec => []SizeInv
BY InitSizeInv, StepSizeInv, PTL DEF Spec

\* Every variable stays in its range.
THEOREM TypeCorrect == Spec => []TypeOK
<1>1. SizeInv => TypeOK
  BY DEF SizeInv
<1> QED
  BY <1>1, SizesAlways, PTL

\* No sequence of keys writes past the end of keyboard_buf or of
\* stored_old_buf, whatever their size.
THEOREM NoOverflow == Spec => []BuffersFit
<1>1. SizeInv => BuffersFit
  BY DEF SizeInv
<1> QED
  BY <1>1, SizesAlways, PTL

(***************************************************************************)
(* One line per read.                                                      *)
(***************************************************************************)
\* held has the line in the buffer, so that it stays a singleton only as long
\* as the lines finished in the meantime are the same line.
ThreadInv(t) ==
  /\ reader[t].pc = "wait" => reader[t].buf = <<>>
  /\ Copying(t) => stored_old_buf[t] \in held[t]
  /\ Copying(t) /\ Undisturbed(t) => CopiedPrefix(t)
  /\ reader[t].pc = "clear" /\ Undisturbed(t) => WholeOrCut(t)

CopyInv == SizeInv /\ \A t \in Terminals : ThreadInv(t)

LEMMA CopyInvImplies == CopyInv => OneLine
BY DEF CopyInv, ThreadInv, OneLine

\* A step of the thread of t leaves the other threads and all lines alone.
OnlyThread(t) ==
  /\ \A u \in Terminals \ {t} : reader'[u] = reader[u] /\ held'[u] = held[u]
  /\ stored_old_buf' = stored_old_buf

LEMMA OnlyThreadStep ==
  ASSUME CopyInv, SizeInv', NEW t \in Terminals, OnlyThread(t), ThreadInv(t)'
  PROVE  CopyInv'
<1> SUFFICES ASSUME NEW u \in Terminals \ {t} PROVE ThreadInv(u)'
  BY DEF CopyInv
<1> QED
  BY DEF CopyInv, OnlyThread, ThreadInv, CopiedPrefix, WholeOrCut, Copying,
     Undisturbed

LEMMA ThreadTypes ==
  ASSUME SizeInv, NEW t \in Terminals
  PROVE  /\ reader[t] \in Reader
         /\ reader[t].buf \in Seq(Bytes)
         /\ stored_old_buf[t] \in Seq(Bytes)
         /\ Len(reader[t].buf) \in Nat
         /\ Len(stored_old_buf[t]) \in Nat
         /\ reader[t].nbytes \in Int
<1>1. reader[t] \in Reader /\ stored_old_buf[t] \in Seq(Bytes)
  BY DEF SizeInv, TypeOK
<1>2. reader[t].buf \in Seq(Bytes) /\ reader[t].nbytes \in ReadSizes \cup {0}
  BY <1>1 DEF Reader
<1>3. reader[t].nbytes \in Int
  <2>1. \A n \in ReadSizes \cup {0} : n \in Int
    BY LineInputAssumption
  <2> QED
    BY <1>2, <2>1, Zenon
<1>4. Len(reader[t].buf) \in Nat /\ Len(stored_old_buf[t]) \in Nat
  BY <1>1, <1>2, LengthIsNat, Zenon
<1> QED
  BY <1>1, <1>2, <1>3, <1>4

\* The thread of t alone changes, to r.
LEMMA ThreadUpdate ==
  ASSUME SizeInv, NEW t \in Terminals, NEW r,
         reader' = [reader EXCEPT ![t] = r],
         stored_old_buf' = stored_old_buf,
         \A u \in Terminals \ {t} : held'[u] = held[u]
  PROVE  OnlyThread(t) /\ reader'[t] = r
BY DEF SizeInv, TypeOK, OnlyThread

LEMMA StepCopyInv ==
  ASSUME CopyInv, [Next]_vars
  PROVE  CopyInv'
<1> USE DEF line, Goto
<1>0. SizeInv /\ SizeInv'
  BY StepSizeInv DEF CopyInv
<1>1. ASSUME UNCHANGED <<reader, stored_old_buf, held>> PROVE CopyInv'
  BY <1>0, <1>1 DEF CopyInv, ThreadInv, CopiedPrefix, WholeOrCut, Copying,
     Undisturbed
<1>2. CASE Enter
  <2> SUFFICES ASSUME NEW t \in Terminals PROVE ThreadInv(t)'
    BY <1>0 DEF CopyInv
  <2>1. ThreadInv(t) /\ reader' = reader
    BY <1>2 DEF CopyInv, Enter
  <2>2. CASE Copying(t) /\ displayed_terminal = t
    <3>1. held'[t] = held[t] \cup {stored_old_buf'[t]}
      BY <1>0, <1>2, <2>2 DEF Enter, SizeInv, TypeOK
    <3>2. ASSUME held'[t] = {stored_old_buf'[t]}
          PROVE  Undisturbed(t) /\ stored_old_buf'[t] = stored_old_buf[t]
      BY <2>1, <2>2, <3>1, <3>2 DEF ThreadInv, Undisturbed
    <3> QED
      BY <2>1, <2>2, <3>1, <3>2 DEF ThreadInv, CopiedPrefix, WholeOrCut,
         Copying, Undisturbed
  <2>3. CASE Copying(t) /\ displayed_terminal # t
    <3>1. held'[t] = held[t] /\ stored_old_buf'[t] = stored_old_buf[t]
      BY <1>0, <1>2, <2>3 DEF Enter, SizeInv, TypeOK
    <3> QED
      BY <2>1, <3>1 DEF ThreadInv, CopiedPrefix, WholeOrCut, Copying,
         Undisturbed
  <2>4. CASE ~Copying(t)
    BY <2>1, <2>4 DEF ThreadInv, Copying
  <2> QED
    BY <2>2, <2>3, <2>4
<1>3. ASSUME NEW t \in Terminals, NEW n \in ReadSizes, Call(t, n)
      PROVE  CopyInv'
  <2> DEFINE r == [pc |-> "wait", nbytes |-> n, buf |-> <<>>]
  <2>1. OnlyThread(t) /\ reader'[t] = r
    BY <1>0, <1>3, ThreadUpdate DEF Call
  <2>2. ThreadInv(t)'
    BY <2>1 DEF ThreadInv, Copying
  <2> QED
    BY <1>0, <2>1, <2>2, OnlyThreadStep
<1>4. ASSUME NEW t \in Terminals, Wake(t) PROVE CopyInv'
  <2>1. PICK p \in {"user", "copy"} :
          reader' = [reader EXCEPT ![t] = [reader[t] EXCEPT !.pc = p]]
    BY <1>4 DEF Wake
  <2>2. OnlyThread(t) /\ reader'[t] = [reader[t] EXCEPT !.pc = p]
    <3>1. \A u \in Terminals \ {t} : held'[u] = held[u]
      BY <1>0, <1>4 DEF Wake, SizeInv, TypeOK
    <3> QED
      BY <1>0, <1>4, <2>1, <3>1, ThreadUpdate DEF Wake
  <2>3. reader[t].pc = "wait" /\ reader[t].buf = <<>>
    BY <1>4 DEF Wake, CopyInv, ThreadInv
  <2>4. reader'[t].pc \in {"user", "copy"} /\ reader'[t].buf = <<>>
    BY <1>0, <2>2, <2>3, ThreadTypes DEF Reader
  <2>5. /\ Len(reader'[t].buf) = 0
        /\ stored_old_buf'[t] = stored_old_buf[t]
        /\ held'[t] = {stored_old_buf[t]}
    BY <1>0, <1>4, <2>2, <2>4, EmptySeq DEF OnlyThread, Wake, SizeInv, TypeOK
  <2>6. ThreadInv(t)'
    BY <1>0, <2>4, <2>5, ThreadTypes DEF ThreadInv, CopiedPrefix, Copying
  <2> QED
    BY <1>0, <2>2, <2>6, OnlyThreadStep
<1>5. ASSUME NEW t \in Terminals, Copy(t) PROVE CopyInv'
  <2> DEFINE b == reader[t].buf
             c == stored_old_buf[t][Len(b) + 1]
  <2>1. /\ reader[t].pc = "copy" /\ held' = held
        /\ stored_old_buf[t] \in held[t]
        /\ Undisturbed(t) => CopiedPrefix(t)
    BY <1>5 DEF Copy, CopyInv, ThreadInv, Copying
  <2>2. CASE More(t)
    <3>1. c \in Bytes /\ Len(b) < Len(stored_old_buf[t])
      BY <1>0, <2>2, ThreadTypes DEF More
    <3>2. reader' = [reader EXCEPT ![t] = [reader[t] EXCEPT !.buf =
                       Append(b, c)]]
      BY <1>5, <2>2 DEF Copy
    <3>3. OnlyThread(t) /\ reader'[t] = [reader[t] EXCEPT !.buf = Append(b, c)]
      BY <1>0, <1>5, <3>2, ThreadUpdate DEF Copy
    <3>4. reader'[t].buf = Append(b, c) /\ reader'[t].pc = "copy"
      BY <1>0, <2>1, <3>3, ThreadTypes DEF Reader
    <3>5. /\ Len(Append(b, c)) = Len(b) + 1
          /\ Append(b, c)[Len(b) + 1] = c
          /\ \A i \in 1 .. Len(b) : Append(b, c)[i] = b[i]
      BY <1>0, <3>1, ThreadTypes, AppendFacts
    <3>6. ASSUME Undisturbed(t), NEW i \in 1 .. Len(b) + 1
          PROVE  Append(b, c)[i] = stored_old_buf[t][i]
      <4>1. CASE i = Len(b) + 1
        BY <4>1, <3>5
      <4>2. CASE i \in 1 .. Len(b)
        BY <4>2, <3>5, <3>6, <2>1 DEF CopiedPrefix
      <4>3. i = Len(b) + 1 \/ i \in 1 .. Len(b)
        BY <1>0, ThreadTypes
      <4> QED
        BY <4>1, <4>2, <4>3
    <3>7. stored_old_buf'[t] = stored_old_buf[t]
      BY <3>3 DEF OnlyThread
    <3> HIDE DEF c
    <3>8. Undisturbed(t) => CopiedPrefix(t)'
      BY <1>0, <3>1, <3>4, <3>5, <3>6, <3>7, ThreadTypes DEF CopiedPrefix
    <3>9. ThreadInv(t)'
      BY <2>1, <3>4, <3>7, <3>8 DEF ThreadInv, Undisturbed
    <3> QED
      BY <1>0, <3>3, <3>9, OnlyThreadStep
  <2>3. CASE ~More(t)
    <3>1. reader' = [reader EXCEPT ![t] = [reader[t] EXCEPT !.pc = "clear"]]
      BY <1>5, <2>3 DEF Copy
    <3>2. OnlyThread(t) /\ reader'[t] = [reader[t] EXCEPT !.pc = "clear"]
      BY <1>0, <1>5, <3>1, ThreadUpdate DEF Copy
    <3>3. /\ reader'[t].buf = b /\ reader'[t].nbytes = reader[t].nbytes
          /\ reader'[t].pc = "clear"
          /\ stored_old_buf'[t] = stored_old_buf[t]
      BY <1>0, <3>2, ThreadTypes DEF Reader, OnlyThread
    <3>4. Undisturbed(t) => \/ Len(b) = Len(stored_old_buf[t])
                            \/ Len(b) >= reader[t].nbytes - 1
      BY <1>0, <2>1, <2>3, ThreadTypes DEF More, CopiedPrefix
    <3>5. ThreadInv(t)'
      BY <2>1, <3>3, <3>4 DEF ThreadInv, CopiedPrefix, WholeOrCut, Undisturbed
    <3> QED
      BY <1>0, <3>2, <3>5, OnlyThreadStep
  <2> QED
    BY <2>2, <2>3
<1>6. ASSUME NEW t \in Terminals, Return(t) PROVE CopyInv'
  <2>1. OnlyThread(t) /\ reader'[t] = InProgram
    <3>1. \A u \in Terminals \ {t} : held'[u] = held[u]
      BY <1>0, <1>6 DEF Return, SizeInv, TypeOK
    <3> QED
      BY <1>0, <1>6, <3>1, ThreadUpdate DEF Return
  <2>2. reader'[t].pc = "user"
    BY <2>1 DEF InProgram
  <2>3. ThreadInv(t)'
    BY <2>2 DEF ThreadInv, Copying
  <2> QED
    BY <1>0, <2>1, <2>3, OnlyThreadStep
<1> QED
  BY <1>1, <1>2, <1>3, <1>4, <1>5, <1>6
     DEF Next, Key, ReadStep, TypeChar, Backspace, SwitchDisplay, vars

LEMMA CopyInvAlways == Spec => []CopyInv
<1>1. Init => CopyInv
  BY InitSizeInv DEF Init, CopyInv, ThreadInv, Copying, InProgram
<1>2. CopyInv /\ [Next]_vars => CopyInv'
  BY StepCopyInv
<1> QED
  BY <1>1, <1>2, PTL DEF Spec

\* When no enter comes while a read copies, a read returns the beginning of
\* one line, the last one that was finished on its terminal.
THEOREM ReadsOneLine == Spec => []OneLine
BY CopyInvAlways, CopyInvImplies, PTL

(***************************************************************************)
(* The caller's buffer.                                                    *)
(***************************************************************************)
Fits(t) == Copying(t) /\ reader[t].nbytes > 0 =>
             Len(reader[t].buf) < reader[t].nbytes

\* A byte is copied only while one more than it is free.
LEMMA StepFits ==
  ASSUME CopyInv, [Next]_vars, NEW t \in Terminals, Fits(t)
  PROVE  Fits(t)'
<1>1. SizeInv /\ reader \in [Terminals -> Reader] /\ ThreadInv(t)
  BY DEF CopyInv, SizeInv, TypeOK
<1>2. CASE reader'[t] = reader[t]
  BY <1>2 DEF Fits, Copying
<1>3. ASSUME NEW u \in Terminals, NEW n \in ReadSizes, Call(u, n)
      PROVE  Fits(t)'
  BY <1>1, <1>3 DEF Call, Fits, Copying
<1>4. ASSUME NEW u \in Terminals, Wake(u) PROVE Fits(t)'
  <2>1. CASE u = t
    <3>1. reader[t].buf = <<>>
      BY <1>1, <1>4, <2>1 DEF Wake, ThreadInv
    <3>2. reader'[t].buf = <<>> /\ reader'[t].nbytes = reader[t].nbytes
      BY <1>1, <1>4, <2>1, <3>1 DEF Wake, Goto, Reader
    <3>3. Len(reader'[t].buf) = 0
      BY <3>2, EmptySeq
    <3> QED
      BY <1>1, <3>2, <3>3, ThreadTypes DEF Fits
  <2>2. CASE u # t
    BY <1>1, <1>2, <1>4, <2>2 DEF Wake, Goto
  <2> QED
    BY <2>1, <2>2
<1>5. ASSUME NEW u \in Terminals, Copy(u) PROVE Fits(t)'
  <2>1. CASE u = t /\ More(t)
    <3> DEFINE b == reader[t].buf
               c == stored_old_buf[t][Len(b) + 1]
    <3>1. c \in Bytes /\ b \in Seq(Bytes)
      BY <1>1, <2>1, ThreadTypes DEF More
    <3>2. reader'[t] = [reader[t] EXCEPT !.buf = Append(b, c)]
      BY <1>1, <1>5, <2>1 DEF Copy
    <3>3. /\ reader'[t].nbytes = reader[t].nbytes
          /\ reader'[t].buf = Append(b, c)
      BY <1>1, <3>2, ThreadTypes DEF Reader
    <3> HIDE DEF c
    <3>4. Len(reader'[t].buf) = Len(b) + 1
      BY <3>1, <3>3, AppendFacts
    <3> QED
      BY <1>1, <2>1, <3>3, <3>4, ThreadTypes DEF Fits, More
  <2>2. CASE u = t /\ ~More(t)
    <3>1. /\ reader'[t].nbytes = reader[t].nbytes
          /\ reader'[t].buf = reader[t].buf
      BY <1>1, <1>5, <2>2 DEF Copy, Goto, Reader
    <3>2. Copying(t)
      BY <1>5, <2>2 DEF Copy, Copying
    <3> QED
      BY <3>1, <3>2 DEF Fits
  <2>3. CASE u # t
    BY <1>1, <1>2, <1>5, <2>3 DEF Copy, Goto
  <2> QED
    BY <2>1, <2>2, <2>3
<1>6. ASSUME NEW u \in Terminals, Return(u) PROVE Fits(t)'
  <2>1. CASE u = t
    BY <1>1, <1>6, <2>1 DEF Return, InProgram, Fits, Copying
  <2>2. CASE u # t
    BY <1>1, <1>2, <1>6, <2>2 DEF Return
  <2> QED
    BY <2>1, <2>2
<1> QED
  BY <1>2, <1>3, <1>4, <1>5, <1>6
     DEF Next, Key, ReadStep, TypeChar, Backspace, Enter, SwitchDisplay, vars

\* Whatever is typed while it copies, terminal_read stays within the nbytes of
\* its caller and leaves the last one free.
THEOREM CallerSafe == Spec => []CallerBufferFits
<1> DEFINE AllFit == \A t \in Terminals : Fits(t)
<1>1. Init => CopyInv /\ AllFit
  BY InitSizeInv DEF Init, CopyInv, ThreadInv, Copying, Fits, InProgram
<1>2. CopyInv /\ AllFit /\ [Next]_vars => (CopyInv /\ AllFit)'
  BY StepCopyInv, StepFits
<1>3. AllFit => CallerBufferFits
  BY DEF Fits, CallerBufferFits
<1> QED
  BY <1>1, <1>2, <1>3, PTL DEF Spec

(***************************************************************************)
(* Lines and the flag.                                                     *)
(***************************************************************************)
\* A read that copies has the flag set, and a flag that is set has a line
\* that no read has taken: NoLineTwice is not inductive without it.
FlagInv ==
  \A t \in Terminals :
    /\ enter_flag[t] = 1 => fresh[t]
    /\ Copying(t) => enter_flag[t] = 1

\* Keys and the thread of a read keep what the flag stands for.
LEMMA StepFlagInv ==
  ASSUME TypeOK, FlagInv, [Next]_vars
  PROVE  FlagInv'
<1> USE DEF TypeOK, FlagInv, Copying
<1>1. CASE UNCHANGED <<reader, enter_flag, fresh>>
  BY <1>1
<1>2. CASE Enter
  BY <1>2 DEF Enter
<1>3. ASSUME NEW t \in Terminals, NEW n \in ReadSizes, Call(t, n)
      PROVE  FlagInv'
  BY <1>3 DEF Call, line
<1>4. ASSUME NEW t \in Terminals, Wake(t) PROVE FlagInv'
  BY <1>4 DEF Wake, Goto, Ready, Reader
<1>5. ASSUME NEW t \in Terminals, Copy(t) PROVE FlagInv'
  <2>1. /\ UNCHANGED <<enter_flag, fresh>>
        /\ enter_flag[t] = 1
        /\ \A u \in Terminals \ {t} : reader'[u] = reader[u]
    BY <1>5 DEF Copy, Goto, line
  <2> QED
    BY <2>1
<1>6. ASSUME NEW t \in Terminals, Return(t) PROVE FlagInv'
  BY <1>6 DEF Return, InProgram, ClearFlag
<1> QED
  BY <1>1, <1>2, <1>3, <1>4, <1>5, <1>6
     DEF Next, Key, ReadStep, TypeChar, Backspace, SwitchDisplay, line, vars

\* A read that copies has a line that no read has copied: the flag is cleared
\* at the end of the read and set by nothing but a new line.
THEOREM NeverTwice == Spec => []NoLineTwice
<1>1. Init => FlagInv
  BY DEF Init, FlagInv, Copying, InProgram
<1>2. FlagInv => NoLineTwice
  BY DEF FlagInv, NoLineTwice
<1> QED
  BY <1>1, <1>2, StepFlagInv, TypeCorrect, PTL DEF Spec

\* Nothing takes a line but a later line and the reads of its own terminal,
\* and a read that takes one gave it, unless it was finished meanwhile.
THEOREM LinesKept == Spec => LinesLeave
<1> DEFINE Leave(t) ==
      /\ enter_flag[t] = 1
      /\ enter_flag'[t] = 0 \/ stored_old_buf'[t] # stored_old_buf[t]
      => Replaced(t) \/ Given(t)
<1>1. ASSUME CopyInv, [Next]_vars, NEW t \in Terminals PROVE Leave(t)
  <2> USE <1>1
  <2>1. TypeOK
    BY DEF CopyInv, SizeInv
  <2>2. CASE Enter
    BY <2>1, <2>2 DEF Enter, Replaced, TypeOK
  <2>3. ASSUME NEW u \in Terminals, Return(u) PROVE Leave(t)
    <3>1. CASE u = t
      <4>1. reader[t].pc = "clear" /\ reader'[t].pc = "user"
        BY <2>1, <2>3, <3>1 DEF Return, InProgram, TypeOK
      <4>2. Undisturbed(t) => WholeOrCut(t)
        BY <4>1 DEF CopyInv, ThreadInv
      <4> QED
        BY <4>1, <4>2 DEF Given
    <3>2. CASE u # t
      BY <2>1, <2>3, <3>2 DEF Return, ClearFlag, TypeOK
    <3> QED
      BY <3>1, <3>2
  <2>4. CASE UNCHANGED <<enter_flag, stored_old_buf>>
    BY <2>1, <2>4 DEF TypeOK
  <2> QED
    BY <2>2, <2>3, <2>4 DEF Next, Key, ReadStep, TypeChar, Backspace,
       SwitchDisplay, Call, Wake, Copy, line, vars
<1>2. CopyInv /\ [Next]_vars => [\A t \in Terminals : Leave(t)]_vars
  BY <1>1
<1>3. Spec => []CopyInv
  BY CopyInvAlways
<1> QED
  BY <1>2, <1>3, PTL DEF Spec, LinesLeave

=============================================================================
