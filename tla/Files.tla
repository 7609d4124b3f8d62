-------------------------------- MODULE Files --------------------------------
(***************************************************************************)
(* The file descriptors of a process: open, close, read and write of       *)
(* syscall.c with file_read, dir_read and the write functions of file.c,   *)
(* and what sys_execute and sys_halt do to the descriptors of a PCB.       *)
(*                                                                         *)
(* Only the thread of a process touches the descriptors in its PCB, and    *)
(* the image never changes, so a call is one step although interrupts are  *)
(* enabled in it.  A PCB is used again by the next process of its slot.    *)
(***************************************************************************)
EXTENDS FileSystem

CONSTANTS
  Slots,          \* process slots, each with a PCB
  NUM_FD,         \* length of f_desc
  DIR_NAME_LENGTH,
  Names,          \* the names that programs pass to open
  FdArgs,         \* the descriptors that they pass
  Sizes,          \* the sizes that they pass
  MaxDirReads     \* bound: reads of a directory through one descriptor

FIRST_REG_FILE == 2
LAST_REG_FILE == NUM_FD
UPPB == NUM_FD - 1
Regular == FIRST_REG_FILE .. LAST_REG_FILE - 1

ASSUME DescriptorAssumption ==
  /\ NUM_FD \in Nat /\ NUM_FD > 2
  /\ DIR_NAME_LENGTH = FILENAME_LEN
  /\ FdArgs \subseteq Int /\ Sizes \subseteq Int
  /\ MaxDirReads \in Nat

VARIABLES
  live,      \* the slots with a process
  f_desc,    \* the descriptors in the PCB of each slot; flag 1 is free
  call,      \* the last call: operation, process, descriptor or name
  ret        \* what it returned

vars == <<live, f_desc, call, ret>>

\* The functions in ft_ptr, named for the file that they are for.
Ops == Kinds \cup {"terminal", "none"}
Descriptor == [flag : {0, 1}, ops : Ops, inode : 0 .. inode_count,
               file_position : Nat]

Code(c) == [code |-> c, bytes |-> <<>>]
Call(op, s, fd, name) == [op |-> op, by |-> s, fd |-> fd, name |-> name]
OpenCall(s, name) == Call("open", s, NULL, name)
FdCall(op, s, fd) == Call(op, s, fd, <<>>)

\* Memory holds zeros before the first process of a slot.
Init ==
  /\ live = {}
  /\ f_desc = [s \in Slots |-> [fd \in 0 .. UPPB |->
                 [flag |-> 0, ops |-> "none", inode |-> 0,
                  file_position |-> 0]]]
  /\ call = FdCall("none", NULL, NULL)
  /\ ret = Code(0)

(***************************************************************************)
(* Processes.                                                              *)
(***************************************************************************)
\* sys_execute frees every descriptor and keeps its functions; open_io opens
\* the first two.
ClearedAsHalt == FIRST_REG_FILE .. UPPB - 1
Cleared == Regular

Fresh(d) ==
  [fd \in 0 .. UPPB |->
     IF fd \in Cleared
       THEN [flag |-> 1, ops |-> d[fd].ops, inode |-> 0, file_position |-> 0]
     ELSE IF fd < FIRST_REG_FILE
       THEN [flag |-> 0, ops |-> "terminal", inode |-> 0, file_position |-> 0]
     ELSE d[fd]]

Execute(s) ==
  /\ s \notin live
  /\ live' = live \cup {s}
  /\ f_desc' = [f_desc EXCEPT ![s] = Fresh(@)]
  /\ UNCHANGED <<call, ret>>

\* sys_halt closes all descriptors but the last: its loop ends before UPPB.
Closed(d) ==
  [fd \in 0 .. UPPB |-> IF fd \in FIRST_REG_FILE .. UPPB - 1
                           THEN [d[fd] EXCEPT !.flag = 1] ELSE d[fd]]

Halt(s) ==
  /\ s \in live
  /\ live' = live \ {s}
  /\ f_desc' = [f_desc EXCEPT ![s] = Closed(@)]
  /\ UNCHANGED <<call, ret>>

(***************************************************************************)
(* open and close.                                                         *)
(***************************************************************************)
KeptPosition(s, fd) == f_desc[s][fd].file_position
StartPosition(s, fd) == 0

FreeFdsButLast(s) == {fd \in Regular \ {UPPB} : f_desc[s][fd].flag = 1}
FreeFds(s) == {fd \in Regular : f_desc[s][fd].flag = 1}

\* The descriptor for the directory entry e.
Opened(s, fd, e) ==
  [flag |-> 0, ops |-> e.filetype, file_position |-> StartPosition(s, fd),
   inode |-> IF e.filetype = "file" THEN e.inode_num ELSE 0]

Open(s, name) ==
  LET found == EntriesFor(name) IN
  /\ s \in live
  /\ call' = OpenCall(s, name)
  /\ IF found = {} \/ FreeFds(s) = {}
       THEN ret' = Failed /\ UNCHANGED f_desc
       ELSE \E i \in found, fd \in FreeFds(s) :
              /\ \A j \in found : i <= j
              /\ \A d \in FreeFds(s) : fd <= d
              /\ f_desc' = [f_desc EXCEPT ![s][fd] =
                              Opened(s, fd, direntries[i])]
              /\ ret' = Code(fd)
  /\ UNCHANGED live

Close(s, fd) ==
  /\ s \in live
  /\ call' = FdCall("close", s, fd)
  /\ IF fd < FIRST_REG_FILE \/ fd >= LAST_REG_FILE \/ f_desc[s][fd].flag = 1
       THEN ret' = Failed /\ UNCHANGED f_desc
       ELSE /\ f_desc' = [f_desc EXCEPT ![s][fd].flag = 1]
            /\ ret' = Code(0)
  /\ UNCHANGED live

(***************************************************************************)
(* read and write.                                                         *)
(***************************************************************************)
Advance(s, fd, k) ==
  f_desc' = [f_desc EXCEPT ![s][fd].file_position = @ + k]

\* A position at the end of the file or beyond returns 0.
file_read(s, fd, null, n) ==
  LET d == f_desc[s][fd]
      r == read_data(d.inode, d.file_position, null, Unsigned(n))
  IN
  IF d.file_position >= inode[d.inode].length
    THEN ret' = Code(0) /\ UNCHANGED f_desc
    ELSE /\ ret' = r
         /\ IF r.code # -1 THEN Advance(s, fd, r.code) ELSE UNCHANGED f_desc

\* The entries after the last one used are empty.  The position is not
\* compared with ENTRIES_NUM.
dir_read(s, fd, null, n) ==
  LET p == f_desc[s][fd].file_position
      filename == IF p < Len(direntries)
                    THEN Cut(direntries[p + 1].filename) ELSE <<>>
      length == Least(Len(filename), Least(n, DIR_NAME_LENGTH))
  IN
  IF null THEN ret' = Failed /\ UNCHANGED f_desc
  ELSE /\ p < MaxDirReads
       /\ ret' = Bytes(SubSeq(filename, 1, length))
       /\ Advance(s, fd, 1)

CannotRead(s, fd) ==
  \/ fd < 0 \/ fd > UPPB \/ fd = 1
  \/ fd >= FIRST_REG_FILE /\ f_desc[s][fd].flag = 1

\* What terminal_read returns is the matter of LineInput, when rtc_read
\* returns that of Interrupts.
Read(s, fd, n, null) ==
  /\ s \in live
  /\ call' = FdCall("read", s, fd)
  /\ IF CannotRead(s, fd)
       THEN ret' = Failed /\ UNCHANGED f_desc
       ELSE \/ f_desc[s][fd].ops = "file" /\ file_read(s, fd, null, n)
            \/ f_desc[s][fd].ops = "dir" /\ dir_read(s, fd, null, n)
            \/ /\ f_desc[s][fd].ops \in {"rtc", "terminal"}
               /\ ret' = Code(0) /\ UNCHANGED f_desc
  /\ UNCHANGED live

CannotWrite(s, fd) ==
  \/ fd < 0 \/ fd > UPPB \/ fd = 0
  \/ fd >= FIRST_REG_FILE /\ f_desc[s][fd].flag = 1

\* rtc_write fails when the frequency is not one it knows.
Write(s, fd, n, null) ==
  /\ s \in live
  /\ call' = FdCall("write", s, fd)
  /\ IF CannotWrite(s, fd)
       THEN ret' = Failed
       ELSE \/ f_desc[s][fd].ops \in {"file", "dir"} /\ ret' = Failed
            \/ f_desc[s][fd].ops = "rtc" /\ ret' \in {Failed, Code(0)}
            \/ /\ f_desc[s][fd].ops = "terminal"
               /\ ret' = IF null /\ n # 0 THEN Failed ELSE Code(n)
  /\ UNCHANGED <<live, f_desc>>

\* Any call with the arguments of the instance.
AnyCall(s) ==
  \/ \E name \in Names : Open(s, name)
  \/ \E fd \in FdArgs :
       \/ Close(s, fd)
       \/ \E n \in Sizes, null \in BOOLEAN :
            Read(s, fd, n, null) \/ Write(s, fd, n, null)

Next == \E s \in Slots : Execute(s) \/ Halt(s) \/ AnyCall(s)

Spec == Init /\ [][Next]_vars

(***************************************************************************)
(* Properties.                                                             *)
(***************************************************************************)
\* The descriptors in a PCB are well formed; those of a process that are in
\* use have functions to call, of the kind that their number asks for.
TypeOK ==
  /\ live \subseteq Slots
  /\ f_desc \in [Slots -> [0 .. UPPB -> Descriptor]]
  /\ \A s \in live, fd \in 0 .. UPPB :
       /\ fd < FIRST_REG_FILE =>
            f_desc[s][fd].flag = 0 /\ f_desc[s][fd].ops = "terminal"
       /\ fd \in Regular /\ f_desc[s][fd].flag = 0 =>
            f_desc[s][fd].ops \in Kinds

\* A read of a file never goes beyond its end, in however many pieces and
\* through however many descriptors it is read.
WithinFile ==
  \A s \in live, fd \in Regular :
    f_desc[s][fd].flag = 0 /\ f_desc[s][fd].ops = "file" =>
      f_desc[s][fd].file_position <= Len(Texts[f_desc[s][fd].inode])

\* The descriptors as their process sees them: what OpenFiles calls open.
InUse(s) == {fd \in Regular : s \in live /\ f_desc[s][fd].flag = 0}
open ==
  [s \in Slots |-> [fd \in InUse(s) |->
     [kind |-> f_desc[s][fd].ops, inode |-> f_desc[s][fd].inode,
      offset |-> f_desc[s][fd].file_position]]]
=============================================================================
