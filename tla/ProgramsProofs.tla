--------------------------- MODULE ProgramsProofs ---------------------------
(***************************************************************************)
(* Files, Launch and Programs, for any image, command lines, numbers of    *)
(* processes and descriptors, and calls.                                   *)
(*                                                                         *)
(* First Files alone: its type invariant, that no read goes beyond a file, *)
(* and that the calls keep what OpenFiles promises.  Neither TypeOK nor    *)
(* WithinFile is inductive: how far a read moves a descriptor depends on   *)
(* the length of its file, so the proof carries along that open files      *)
(* exist.                                                                  *)
(*                                                                         *)
(* Then the shell with its programs: what it says of a command, what       *)
(* getargs gives to a program, and that all the calls, those at the two    *)
(* ends of a process included, keep what OpenFiles promises.  ShellReports *)
(* is about the prompt, and what it needs is known only while the program  *)
(* runs: the invariant SInv carries along how the program ended, what      *)
(* parse_command left of the line, that the shell has nothing open, and    *)
(* for each program what its locals stand for: the descriptors that cat    *)
(* and grep go on with are open, and of the right kind.  Passing adds, for *)
(* syserr, which descriptors its test has used up so far.                  *)
(***************************************************************************)
EXTENDS Programs, TLAPS
LOCAL INSTANCE FiniteSetsExt
LOCAL W == INSTANCE WellFoundedInduction

USE DEF FIRST_REG_FILE, LAST_REG_FILE, UPPB

(***************************************************************************)
(* Files.                                                                  *)
(***************************************************************************)
Inodes == 0 .. inode_count - 1

\* The descriptors of one PCB, and those of a PCB with a process.
Rows == [0 .. UPPB -> Descriptor]
InFile(d) == d.inode \in Inodes /\ d.file_position <= Len(Texts[d.inode])
Usable(row) ==
  \A fd \in 0 .. UPPB :
    /\ fd < FIRST_REG_FILE => row[fd].flag = 0 /\ row[fd].ops = "terminal"
    /\ fd \in Regular /\ row[fd].flag = 0 =>
         /\ row[fd].ops \in Kinds
         /\ row[fd].ops = "file" => InFile(row[fd])

IInv ==
  /\ live \subseteq Slots
  /\ f_desc \in [Slots -> Rows]
  /\ \A s \in live : Usable(f_desc[s])

(***************************************************************************)
(* The image.                                                              *)
(***************************************************************************)
\* A set of naturals has a least element.
LEMMA LeastNatural ==
  ASSUME NEW S, S \subseteq Nat, S # {}
  PROVE  \E x \in S : \A y \in S : x <= y
<1>1. PICK x \in S : \A y \in S : ~ (<<y, x>> \in W!OpToRel(<, Nat))
  BY W!NatLessThanWellFounded, W!WFMin, Zenon
<1>2. \A y \in S : ~(y < x)
  BY <1>1 DEF W!OpToRel
<1> QED
  BY <1>2

\* A function on 1 .. k is a sequence of length k.
LEMMA LengthOfFunction ==
  ASSUME NEW k \in Nat, NEW f, f = [i \in 1 .. k |-> f[i]]
  PROVE  Len(f) = k
<1>1. f \in [1 .. k -> {f[i] : i \in 1 .. k}]
  OBVIOUS
<1>2. f \in Seq({f[i] : i \in 1 .. k})
  BY <1>1
<1> QED
  BY <1>1, <1>2

\* The length of an inode is that of its text.
LEMMA LengthOfText ==
  ASSUME NEW n \in Inodes
  PROVE  /\ Len(Texts[n]) \in Nat
         /\ inode[n].length = Len(Texts[n])
BY ImageAssumption DEF Inodes

\* A read from inside a file fails or gives the bytes up to some place that
\* is not beyond the end.
LEMMA ReadStaysInside ==
  ASSUME NEW n \in Inodes, NEW p \in Nat, p < Len(Texts[n]),
         NEW null \in BOOLEAN, NEW k \in Nat
  PROVE  LET r == read_data(n, p, null, k)
         IN \/ r = Failed
            \/ r.code \in Nat /\ p + r.code <= Len(Texts[n])
<1> DEFINE m == Least(k, inode[n].length - p)
           b == [i \in 1 .. m |-> ByteAt(n, p + i - 1)]
<1>1. m \in Nat /\ p + m <= Len(Texts[n])
  BY LengthOfText DEF Least
<1>2. Len(b) = m
  BY <1>1, LengthOfFunction
<1>3. read_data(n, p, null, k) \in {Failed, Bytes(b)}
  BY DEF read_data
<1>4. Bytes(b).code = m
  BY <1>2 DEF Bytes
<1> QED
  BY <1>1, <1>3, <1>4

(***************************************************************************)
(* One PCB.                                                                *)
(***************************************************************************)
\* Every step changes the descriptors of at most one PCB.
LEMMA RowReplaced ==
  ASSUME IInv, NEW s \in Slots, NEW row \in Rows,
         f_desc' = [f_desc EXCEPT ![s] = row],
         live' \subseteq live \cup {s},
         s \in live' => Usable(row)
  PROVE  IInv'
<1>1. live' \subseteq Slots /\ f_desc' \in [Slots -> Rows]
  BY DEF IInv
<1>2. ASSUME NEW u \in live' PROVE Usable(f_desc'[u])
  BY <1>2 DEF IInv
<1> QED
  BY <1>1, <1>2 DEF IInv, Usable, Rows

\* One descriptor of a process in use is replaced.
LEMMA DescriptorReplaced ==
  ASSUME IInv, NEW s \in live, NEW fd \in Regular, NEW d \in Descriptor,
         f_desc' = [f_desc EXCEPT ![s][fd] = d], live' = live,
         d.flag = 0 => d.ops \in Kinds /\ (d.ops = "file" => InFile(d))
  PROVE  IInv'
<1> DEFINE row == [f_desc[s] EXCEPT ![fd] = d]
<1>1. f_desc[s] \in Rows /\ Usable(f_desc[s]) /\ s \in Slots
  BY DEF IInv
<1>2. row \in Rows
  BY <1>1 DEF Rows
<1>3. Usable(row)
  BY <1>1, DescriptorAssumption DEF Usable, Regular, Rows
<1>4. f_desc' = [f_desc EXCEPT ![s] = row]
  OBVIOUS
<1> QED
  BY <1>1, <1>2, <1>3, <1>4, RowReplaced

\* What sys_execute makes of a PCB can be used whatever was in it.
LEMMA FreshIsUsable ==
  ASSUME NEW row \in Rows
  PROVE  Fresh(row) \in Rows /\ Usable(Fresh(row))
<1>1. ASSUME NEW fd \in 0 .. UPPB PROVE Fresh(row)[fd] \in Descriptor
  BY DescriptorAssumption, SizeAssumption
     DEF Fresh, Cleared, Regular, Rows, Descriptor, Ops, Kinds
<1>2. Fresh(row) \in Rows
  BY <1>1 DEF Rows, Fresh
<1>3. Usable(Fresh(row))
  BY DescriptorAssumption DEF Usable, Fresh, Cleared, Regular, Rows
<1> QED
  BY <1>2, <1>3

\* What sys_halt leaves in a PCB are descriptors.
LEMMA ClosedIsRow ==
  ASSUME NEW row \in Rows
  PROVE  Closed(row) \in Rows
BY DEF Closed, Rows, Descriptor

(***************************************************************************)
(* The invariant.                                                          *)
(***************************************************************************)
\* The two properties are parts of the invariant.
LEMMA IInvHolds == IInv => TypeOK /\ WithinFile
BY DEF IInv, TypeOK, WithinFile, Usable, InFile, Rows, Regular

\* Memory that holds zeros satisfies it: there is no process yet.
LEMMA InitIInv == Init => IInv
BY DescriptorAssumption, SizeAssumption
   DEF Init, IInv, Rows, Descriptor, Ops

\* The entry that open finds names a descriptor of the right kind.
LEMMA OpenedIsGood ==
  ASSUME NEW s, NEW fd, NEW i \in 1 .. Len(direntries)
  PROVE  LET d == Opened(s, fd, direntries[i]) IN
         /\ d \in Descriptor /\ d.ops \in Kinds
         /\ d.ops = "file" => InFile(d)
<1>1. direntries[i].filetype \in Kinds /\ direntries[i].inode_num \in Inodes
  BY DirectoryAssumption DEF Inodes
<1>2. Len(Texts[direntries[i].inode_num]) \in Nat
  BY <1>1, LengthOfText
<1> QED
  BY <1>1, <1>2, SizeAssumption
     DEF Opened, StartPosition, Descriptor, Ops, InFile, Inodes

\* A read moves a descriptor within its file.
LEMMA AdvanceIInv ==
  ASSUME IInv, NEW s \in live, NEW fd \in Regular, NEW k \in Nat,
         Advance(s, fd, k), live' = live,
         f_desc[s][fd].flag = 0,
         f_desc[s][fd].ops = "file" =>
           f_desc[s][fd].file_position + k <= Len(Texts[f_desc[s][fd].inode])
  PROVE  IInv'
<1> DEFINE old == f_desc[s][fd]
           d == [flag |-> old.flag, ops |-> old.ops, inode |-> old.inode,
                 file_position |-> old.file_position + k]
<1>1. f_desc[s] \in Rows /\ Usable(f_desc[s]) /\ fd \in 0 .. UPPB
  BY DescriptorAssumption DEF IInv, Regular
<1>2. old \in Descriptor /\ old.ops \in Kinds
      /\ (old.ops = "file" => InFile(old))
  BY <1>1 DEF Usable, Rows
<1>3. d \in Descriptor /\ d.ops \in Kinds /\ (d.ops = "file" => InFile(d))
  BY <1>2 DEF Descriptor, InFile
<1>4. [old EXCEPT !.file_position = old.file_position + k] = d
  BY <1>2 DEF Descriptor
<1>5. f_desc' = [f_desc EXCEPT ![s][fd] = d]
  BY <1>4 DEF Advance
<1> QED
  BY <1>3, <1>5, DescriptorReplaced

\* sys_execute makes the PCB of its slot usable, whatever was in it.
LEMMA ExecuteIInv == ASSUME IInv, NEW s \in Slots, Execute(s) PROVE IInv'
<1>1. f_desc[s] \in Rows
  BY DEF IInv
<1>2. /\ f_desc' = [f_desc EXCEPT ![s] = Fresh(f_desc[s])]
      /\ live' \subseteq live \cup {s}
  BY DEF Execute
<1> QED
  BY <1>1, <1>2, FreshIsUsable, RowReplaced

\* sys_halt takes its slot out of those that have to be usable.
LEMMA HaltIInv == ASSUME IInv, NEW s \in Slots, Halt(s) PROVE IInv'
<1>1. f_desc[s] \in Rows
  BY DEF IInv
<1>2. /\ f_desc' = [f_desc EXCEPT ![s] = Closed(f_desc[s])]
      /\ live' \subseteq live \cup {s} /\ s \notin live'
  BY DEF Halt
<1> QED
  BY <1>1, <1>2, ClosedIsRow, RowReplaced

\* A step that leaves processes and descriptors alone.
LEMMA SameIInv == ASSUME IInv, UNCHANGED <<live, f_desc>> PROVE IInv'
BY DEF IInv, Usable, Rows

\* open takes an entry of the directory and a descriptor that is free.
LEMMA OpenIInv ==
  ASSUME IInv, NEW s \in Slots, NEW name, Open(s, name)
  PROVE  IInv'
<1>1. CASE UNCHANGED f_desc
  BY <1>1, SameIInv DEF Open
<1>2. CASE EntriesFor(name) # {} /\ FreeFds(s) # {}
  <2>1. PICK i \in EntriesFor(name), fd \in FreeFds(s) :
          f_desc' = [f_desc EXCEPT ![s][fd] = Opened(s, fd, direntries[i])]
    BY <1>2 DEF Open
  <2>2. i \in 1 .. Len(direntries) /\ fd \in Regular
    BY <2>1 DEF EntriesFor, FreeFds
  <2>3. s \in live /\ live' = live
    BY DEF Open
  <2> QED
    BY <2>1, <2>2, <2>3, OpenedIsGood, DescriptorReplaced
<1> QED
  BY <1>1, <1>2 DEF Open

\* close frees a descriptor and leaves the others.
LEMMA CloseIInv ==
  ASSUME IInv, NEW s \in Slots, NEW fd \in Int, Close(s, fd)
  PROVE  IInv'
<1>1. CASE UNCHANGED f_desc
  BY <1>1, SameIInv DEF Close
<1>2. CASE ~UNCHANGED f_desc
  <2> DEFINE old == f_desc[s][fd]
             d == [flag |-> 1, ops |-> old.ops, inode |-> old.inode,
                   file_position |-> old.file_position]
  <2>1. fd \in Regular /\ s \in live /\ live' = live
    BY <1>2, DescriptorAssumption DEF Close, Regular
  <2>2. f_desc' = [f_desc EXCEPT ![s][fd].flag = 1]
    BY <1>2 DEF Close
  <2>3. old \in Descriptor
    BY <2>1, DescriptorAssumption DEF IInv, Rows, Regular
  <2>4. d \in Descriptor /\ d.flag # 0 /\ d = [old EXCEPT !.flag = 1]
    BY <2>3 DEF Descriptor
  <2>5. f_desc' = [f_desc EXCEPT ![s][fd] = d]
    BY <2>2, <2>4
  <2> HIDE DEF d
  <2> QED
    BY <2>1, <2>4, <2>5, DescriptorReplaced
<1> QED
  BY <1>1, <1>2

\* read moves a descriptor only where file_read or dir_read do.
LEMMA ReadIInv ==
  ASSUME IInv, NEW s \in Slots, NEW fd \in Int, NEW n \in Int,
         NEW null \in BOOLEAN, Read(s, fd, n, null)
  PROVE  IInv'
<1>1. CASE UNCHANGED f_desc
  BY <1>1, SameIInv DEF Read
<1>2. CASE ~UNCHANGED f_desc
  <2> DEFINE old == f_desc[s][fd]
  <2>1. s \in live /\ live' = live /\ ~CannotRead(s, fd)
    BY <1>2 DEF Read
  <2>2. fd \in 0 .. UPPB /\ Usable(f_desc[s]) /\ f_desc[s] \in Rows
    BY <2>1, DescriptorAssumption DEF CannotRead, IInv
  <2>3. old.ops \in {"file", "dir"}
    BY <1>2, <2>1 DEF Read
  <2>4. fd \in Regular /\ old.flag = 0
    <3>1. old \in Descriptor
      BY <2>2 DEF Rows
    <3>2. fd >= FIRST_REG_FILE
      BY <2>2, <2>3 DEF Usable
    <3>3. old.flag # 1
      BY <2>1, <3>2 DEF CannotRead
    <3> QED
      BY <2>2, <3>1, <3>2, <3>3 DEF Regular, Descriptor
  <2>5. CASE old.ops = "dir"
    <3>1. Advance(s, fd, 1)
      BY <1>2, <2>1, <2>5 DEF Read, dir_read
    <3> QED
      BY <2>1, <2>4, <2>5, <3>1, AdvanceIInv
  <2>6. CASE old.ops = "file"
    <3> DEFINE r == read_data(old.inode, old.file_position, null, Unsigned(n))
    <3>1. file_read(s, fd, null, n)
      BY <2>1, <2>6 DEF Read
    <3>2. InFile(old) /\ old.file_position \in Nat
      BY <2>2, <2>4, <2>6 DEF Usable, Rows, Descriptor
    <3>3. Unsigned(n) \in Nat
      BY SizeAssumption DEF Unsigned
    <3>4. /\ old.file_position < inode[old.inode].length
          /\ r.code # -1 /\ Advance(s, fd, r.code)
      BY <1>2, <3>1, <3>2, LengthOfText DEF file_read, InFile
    <3>5. r.code \in Nat
          /\ old.file_position + r.code <= Len(Texts[old.inode])
      BY <3>2, <3>3, <3>4, ReadStaysInside, LengthOfText DEF InFile, Failed
    <3> QED
      BY <2>1, <2>4, <3>4, <3>5, AdvanceIInv
  <2> QED
    BY <2>3, <2>5, <2>6
<1> QED
  BY <1>1, <1>2

\* Every step keeps the invariant.
LEMMA NextIInv == IInv /\ [Next]_vars => IInv'
<1> SUFFICES ASSUME IInv, [Next]_vars PROVE IInv'
  OBVIOUS
<1>1. ASSUME NEW s \in Slots, AnyCall(s) PROVE IInv'
  <2>1. ASSUME NEW name \in Names, Open(s, name) PROVE IInv'
    BY <2>1, OpenIInv
  <2>2. ASSUME NEW fd \in FdArgs, Close(s, fd) PROVE IInv'
    BY <2>2, CloseIInv, DescriptorAssumption
  <2>3. ASSUME NEW fd \in FdArgs, NEW n \in Sizes, NEW null \in BOOLEAN,
               Read(s, fd, n, null)
        PROVE  IInv'
    BY <2>3, ReadIInv, DescriptorAssumption
  <2>4. ASSUME NEW fd \in FdArgs, NEW n \in Sizes, NEW null \in BOOLEAN,
               Write(s, fd, n, null)
        PROVE  IInv'
    BY <2>4, SameIInv DEF Write
  <2> QED
    BY <1>1, <2>1, <2>2, <2>3, <2>4 DEF AnyCall
<1>2. CASE UNCHANGED vars
  BY <1>2, SameIInv DEF vars
<1> QED
  BY <1>1, <1>2, ExecuteIInv, HaltIInv DEF Next

\* open, close, read and write keep the descriptors in every PCB well formed,
\* whatever sys_halt and sys_execute leave in it.
THEOREM TypeCorrect == Spec => []TypeOK
BY InitIInv, NextIInv, IInvHolds, PTL DEF Spec

\* file_read never moves a descriptor beyond the end of its file.
THEOREM ReadsWithinFile == Spec => []WithinFile
BY InitIInv, NextIInv, IInvHolds, PTL DEF Spec

(***************************************************************************)
(* OpenFiles.  A process sees the descriptors in use; open, the state of   *)
(* OpenFiles, is what all of them see.                                     *)
(***************************************************************************)
Abstract == INSTANCE OpenFiles WITH Fds <- Regular

Place(d) == [kind |-> d.ops, inode |-> d.inode, offset |-> d.file_position]
Used(row) == {fd \in Regular : row[fd].flag = 0}
View(row) == [fd \in Used(row) |-> Place(row[fd])]
SeenBy(isLive, row) == IF isLive THEN View(row) ELSE Abstract!NoFiles

\* OpenFiles speaks of the same image.
LEMMA SameImage ==
  /\ Abstract!Failed = Failed /\ Abstract!NULL = NULL
  /\ \A name : Abstract!EntriesFor(name) = EntriesFor(name)
  /\ \A c : Abstract!Code(c) = Code(c)
  /\ \A b : Abstract!Bytes(b) = Bytes(b)
  /\ \A b : Abstract!Cut(b) = Cut(b)
  /\ \A m, n : Abstract!Least(m, n) = Least(m, n)
  /\ \A n : Abstract!Unsigned(n) = Unsigned(n)
BY DEF Abstract!Failed, Failed, Abstract!NULL, NULL, Abstract!EntriesFor,
       EntriesFor, Abstract!Code, Code, Abstract!Bytes, Bytes, Abstract!Cut,
       Cut, Abstract!Least, Least, Abstract!Unsigned, Unsigned

\* open is what the processes see, slot by slot.
LEMMA OpenIsView ==
  open = [s \in Slots |-> SeenBy(s \in live, f_desc[s])]
BY DEF open, InUse, SeenBy, View, Used, Place, Abstract!NoFiles

\* The same after a step.
LEMMA OpenIsViewAfter ==
  open' = [s \in Slots |-> SeenBy(s \in live', f_desc'[s])]
BY DEF open, InUse, SeenBy, View, Used, Place, Abstract!NoFiles

\* A step that changes one PCB changes open in one place.
LEMMA OpenReplaced ==
  ASSUME IInv, NEW s \in Slots, NEW row,
         f_desc' = [f_desc EXCEPT ![s] = row],
         \A u \in Slots \ {s} : u \in live' <=> u \in live
  PROVE  open' = [open EXCEPT ![s] = SeenBy(s \in live', row)]
<1> DEFINE after == [open EXCEPT ![s] = SeenBy(s \in live', row)]
<1>1. ASSUME NEW u \in Slots
      PROVE  SeenBy(u \in live', f_desc'[u]) = after[u]
  <2>1. CASE u = s
    BY <2>1, OpenIsView DEF IInv
  <2>2. CASE u # s
    BY <2>2, OpenIsView DEF IInv, SeenBy
  <2> QED
    BY <2>1, <2>2
<1>2. after = [u \in Slots |-> after[u]]
  BY OpenIsView
<1> HIDE DEF after
<1>3. [u \in Slots |-> SeenBy(u \in live', f_desc'[u])]
        = [u \in Slots |-> after[u]]
  BY <1>1
<1> QED
  BY <1>2, <1>3, OpenIsViewAfter DEF after

\* Putting a descriptor in use into a PCB puts its place into the view.
LEMMA ViewWith ==
  ASSUME NEW row \in Rows, NEW fd \in Regular, NEW d, d.flag = 0
  PROVE  View([row EXCEPT ![fd] = d])
           = [x \in DOMAIN View(row) \cup {fd} |->
                IF x = fd THEN Place(d) ELSE View(row)[x]]
<1>1. fd \in DOMAIN row
  BY DescriptorAssumption DEF Rows, Regular
<1>2. Used([row EXCEPT ![fd] = d]) = Used(row) \cup {fd}
  BY <1>1 DEF Used
<1>3. ASSUME NEW x \in Used(row) \cup {fd}
      PROVE  Place([row EXCEPT ![fd] = d][x])
               = IF x = fd THEN Place(d) ELSE View(row)[x]
  <2>1. x \in Used(row) \/ x = fd
    OBVIOUS
  <2> QED
    BY <1>1, <2>1 DEF View
<1> QED
  BY <1>2, <1>3 DEF View

\* Putting a free descriptor into a PCB takes one out of the view.
LEMMA ViewWithout ==
  ASSUME NEW row \in Rows, NEW fd \in Regular, NEW d, d.flag # 0
  PROVE  View([row EXCEPT ![fd] = d])
           = [x \in DOMAIN View(row) \ {fd} |-> View(row)[x]]
<1>1. fd \in DOMAIN row
  BY DescriptorAssumption DEF Rows, Regular
<1>2. Used([row EXCEPT ![fd] = d]) = Used(row) \ {fd}
  BY <1>1 DEF Used
<1>3. ASSUME NEW x \in Used(row) \ {fd}
      PROVE  Place([row EXCEPT ![fd] = d][x]) = View(row)[x]
  BY <1>1 DEF View, Used
<1> QED
  BY <1>2, <1>3 DEF View

(***************************************************************************)
(* Every step is a step of OpenFiles.                                      *)
(***************************************************************************)
\* A new process has nothing open: sys_execute frees what halt left in use.
LEMMA ExecuteStarts ==
  ASSUME IInv, NEW s \in Slots, Execute(s) PROVE Abstract!Start(s)
<1>1. /\ s \notin live /\ live' = live \cup {s}
      /\ f_desc' = [f_desc EXCEPT ![s] = Fresh(f_desc[s])]
      /\ UNCHANGED <<call, ret>>
  BY DEF Execute
<1>2. Used(Fresh(f_desc[s])) = {}
  BY DescriptorAssumption DEF Used, Fresh, Cleared, Regular
<1>3. SeenBy(s \in live', Fresh(f_desc[s])) = Abstract!NoFiles
  BY <1>2 DEF SeenBy, View, Abstract!NoFiles
<1>4. open' = [open EXCEPT ![s] = Abstract!NoFiles]
  BY <1>1, <1>3, OpenReplaced
<1>5. open[s] = Abstract!NoFiles
  BY <1>1, OpenIsView DEF SeenBy
<1> QED
  BY <1>1, <1>4, <1>5, OpenIsView DEF Abstract!Start

\* With a process its open files end, also the one that halt does not close.
LEMMA HaltEnds ==
  ASSUME IInv, NEW s \in Slots, Halt(s) PROVE Abstract!End(s)
<1>1. /\ s \in live /\ live' = live \ {s}
      /\ f_desc' = [f_desc EXCEPT ![s] = Closed(f_desc[s])]
      /\ UNCHANGED <<call, ret>>
  BY DEF Halt
<1>2. SeenBy(s \in live', Closed(f_desc[s])) = Abstract!NoFiles
  BY <1>1 DEF SeenBy
<1>3. open' = [open EXCEPT ![s] = Abstract!NoFiles]
  BY <1>1, <1>2, OpenReplaced
<1> QED
  BY <1>1, <1>3 DEF Abstract!End

\* What a process sees.
LEMMA SeenIsOpen ==
  ASSUME IInv, NEW s \in live
  PROVE  /\ s \in Slots /\ f_desc[s] \in Rows /\ Usable(f_desc[s])
         /\ open[s] = View(f_desc[s])
         /\ DOMAIN open[s] = {fd \in Regular : f_desc[s][fd].flag = 0}
         /\ \A fd \in DOMAIN open[s] : open[s][fd] = Place(f_desc[s][fd])
<1>1. s \in Slots
  BY DEF IInv
<1> QED
  BY <1>1, OpenIsView DEF IInv, SeenBy, View, Used

\* A step that puts a descriptor that is in use into a PCB.
LEMMA SetsPlace ==
  ASSUME IInv, NEW s \in live, NEW fd \in Regular, NEW d, d.flag = 0,
         f_desc' = [f_desc EXCEPT ![s][fd] = d], live' = live
  PROVE  Abstract!Set(s, fd, Place(d))
<1> DEFINE row == [f_desc[s] EXCEPT ![fd] = d]
<1>1. f_desc' = [f_desc EXCEPT ![s] = row]
  OBVIOUS
<1>2. open' = [open EXCEPT ![s] = View(row)]
  BY <1>1, SeenIsOpen, OpenReplaced DEF SeenBy
<1>3. f_desc[s] \in Rows /\ open[s] = View(f_desc[s])
  BY SeenIsOpen
<1>4. View(row) = [x \in DOMAIN open[s] \cup {fd} |->
                     IF x = fd THEN Place(d) ELSE open[s][x]]
  BY <1>3, ViewWith
<1> QED
  BY <1>2, <1>4 DEF Abstract!Set

\* A step that leaves the PCBs alone leaves what is seen.
LEMMA SameOpen == ASSUME UNCHANGED <<live, f_desc>> PROVE open' = open
BY OpenIsView, OpenIsViewAfter

\* open gives a descriptor that was free, at the start of the first entry of
\* this name, and fails only where OpenFiles fails.
LEMMA OpenOpens ==
  ASSUME IInv, NEW s \in Slots, NEW name, Open(s, name)
  PROVE  Abstract!Open(s, name)
<1>1. s \in live /\ live' = live /\ Abstract!Asked("open", s, NULL, name)
  BY DEF Open, OpenCall, Call, Abstract!Asked
<1>2. CASE EntriesFor(name) = {} \/ FreeFds(s) = {}
  <2>1. ret' = Failed /\ UNCHANGED <<live, f_desc>>
    BY <1>1, <1>2 DEF Open
  <2>2. EntriesFor(name) = {} \/ Regular \subseteq DOMAIN open[s]
    <3>1. ASSUME NEW fd \in Regular PROVE f_desc[s][fd].flag \in {0, 1}
      BY <1>1, SeenIsOpen, DescriptorAssumption
         DEF Rows, Descriptor, Regular
    <3> QED
      BY <1>1, <1>2, <3>1, SeenIsOpen DEF FreeFds
  <2> QED
    BY <1>1, <2>1, <2>2, SameOpen, SameImage DEF Abstract!Open
<1>3. CASE EntriesFor(name) # {} /\ FreeFds(s) # {}
  <2>1. PICK i \in EntriesFor(name), fd \in FreeFds(s) :
          /\ \A j \in EntriesFor(name) : i <= j
          /\ f_desc' = [f_desc EXCEPT ![s][fd] = Opened(s, fd, direntries[i])]
          /\ ret' = Code(fd)
    BY <1>3 DEF Open
  <2> DEFINE e == direntries[i]
             d == Opened(s, fd, e)
  <2>2. fd \in Regular \ DOMAIN open[s]
    BY <1>1, <2>1, SeenIsOpen DEF FreeFds
  <2>3. d.flag = 0 /\ Place(d) = [kind |-> e.filetype,
                                inode |-> IF e.filetype = "file"
                                            THEN e.inode_num ELSE 0,
                                offset |-> 0]
    BY DEF Opened, Place, StartPosition
  <2>4. Abstract!Set(s, fd, Place(d))
    <3>1. f_desc' = [f_desc EXCEPT ![s][fd] = d]
      BY <2>1
    <3> HIDE DEF d
    <3> QED
      BY <1>1, <2>2, <2>3, <3>1, SetsPlace
  <2> QED
    BY <1>1, <2>1, <2>2, <2>3, <2>4, SameImage DEF Abstract!Open
<1> QED
  BY <1>2, <1>3

\* close takes away one descriptor in use, and refuses any other number.
LEMMA CloseCloses ==
  ASSUME IInv, NEW s \in Slots, NEW fd \in Int, Close(s, fd)
  PROVE  Abstract!Close(s, fd)
<1>1. s \in live /\ live' = live /\ Abstract!Asked("close", s, fd, <<>>)
  BY DEF Close, FdCall, Call, Abstract!Asked
<1>2. CASE fd < FIRST_REG_FILE \/ fd >= LAST_REG_FILE \/ f_desc[s][fd].flag = 1
  <2>1. ret' = Failed /\ UNCHANGED <<live, f_desc>>
    BY <1>1, <1>2 DEF Close
  <2>2. fd \notin DOMAIN open[s]
    BY <1>1, <1>2, SeenIsOpen, DescriptorAssumption DEF Regular
  <2> QED
    BY <1>1, <2>1, <2>2, SameOpen, SameImage DEF Abstract!Close
<1>3. CASE ~(fd < FIRST_REG_FILE \/ fd >= LAST_REG_FILE
             \/ f_desc[s][fd].flag = 1)
  <2> DEFINE d == [f_desc[s][fd] EXCEPT !.flag = 1]
             row == [f_desc[s] EXCEPT ![fd] = d]
  <2>1. f_desc' = [f_desc EXCEPT ![s][fd].flag = 1] /\ ret' = Code(0)
    BY <1>3 DEF Close
  <2>2. f_desc' = [f_desc EXCEPT ![s] = row]
    BY <2>1
  <2>3. fd \in Regular /\ f_desc[s] \in Rows /\ open[s] = View(f_desc[s])
    BY <1>1, <1>3, DescriptorAssumption, SeenIsOpen DEF Regular
  <2>4. f_desc[s][fd] \in Descriptor
    BY <2>3, DescriptorAssumption DEF Rows, Regular
  <2>5. f_desc[s][fd].flag = 0
    BY <1>3, <2>4 DEF Descriptor
  <2>6. fd \in DOMAIN open[s]
    BY <1>1, <2>3, <2>5, SeenIsOpen
  <2>7. d.flag # 0
    BY <2>4 DEF Descriptor
  <2>8. View(row) = [x \in DOMAIN open[s] \ {fd} |-> open[s][x]]
    <3> HIDE DEF d
    <3> QED
      BY <2>3, <2>7, ViewWithout
  <2>9. open' = [open EXCEPT ![s] = View(row)]
    <3> HIDE DEF row
    <3> QED
      BY <1>1, <2>2, OpenReplaced DEF SeenBy
  <2> HIDE DEF row
  <2> QED
    BY <1>1, <2>1, <2>6, <2>8, <2>9, SameImage DEF Abstract!Close
<1> QED
  BY <1>2, <1>3

\* The blocks that read_data reads hold the text.
LEMMA BlockExists ==
  ASSUME NEW p \in Nat, p < data_count * BLOCK_SIZE
  PROVE  ~(p \div BLOCK_SIZE > data_count)
BY SizeAssumption

\* A read from inside a file gives the next bytes of its text, across blocks
\* that are anywhere in the image.
LEMMA ReadGivesText ==
  ASSUME NEW n \in Inodes, NEW p \in Nat, p < Len(Texts[n]),
         NEW k \in Nat \ {0}
  PROVE  read_data(n, p, FALSE, k)
           = Bytes(SubSeq(Texts[n], p + 1, Least(p + k, Len(Texts[n]))))
<1> DEFINE m == Least(k, Len(Texts[n]) - p)
           b == SubSeq(Texts[n], p + 1, Least(p + k, Len(Texts[n])))
<1>1. Texts[n] \in Seq(STRING) /\ inode[n].length = Len(Texts[n])
      /\ Len(Texts[n]) \in Nat
  BY ImageAssumption DEF Inodes
<1>2. p < data_count * BLOCK_SIZE
  BY <1>1, ImageAssumption, SizeAssumption DEF Inodes
<1>3. Least(p + k, Len(Texts[n])) = p + m /\ m \in Nat
      /\ p + m <= Len(Texts[n])
  BY <1>1 DEF Least
<1>4. b = [i \in 1 .. m |-> Texts[n][p + i]]
  BY <1>1, <1>3
<1>5. ASSUME NEW i \in 1 .. m PROVE ByteAt(n, p + i - 1) = Texts[n][p + i]
  <2>1. p + i - 1 \in 0 .. Len(Texts[n]) - 1
    BY <1>1, <1>3, <1>5
  <2> HIDE DEF m
  <2>2. data_block[inode[n].data_block_num[(p + i - 1) \div BLOCK_SIZE]]
                  [(p + i - 1) % BLOCK_SIZE] = Texts[n][(p + i - 1) + 1]
    BY <2>1, ImageAssumption DEF Inodes
  <2>3. (p + i - 1) + 1 = p + i
    BY <1>3, <1>5
  <2> QED
    BY <2>2, <2>3 DEF ByteAt
<1>6. read_data(n, p, FALSE, k)
        = Bytes([i \in 1 .. m |-> ByteAt(n, p + i - 1)])
  <2>1. /\ ~(n > inode_count) /\ ~(n > ENTRIES_NUM)
        /\ k # 0 /\ ~(p > inode[n].length)
    BY <1>1, SizeAssumption DEF Inodes, ENTRIES_NUM
  <2>2. ~(p \div BLOCK_SIZE > data_count)
    BY <1>2, BlockExists
  <2>3. Least(k, inode[n].length - p) = m
    BY <1>1
  <2> HIDE DEF m
  <2> QED
    BY <2>1, <2>2, <2>3 DEF read_data
<1>7. [i \in 1 .. m |-> ByteAt(n, p + i - 1)] = b
  BY <1>4, <1>5
<1> QED
  BY <1>6, <1>7

\* Moving a position moves the offset.
LEMMA AdvanceSets ==
  ASSUME IInv, NEW s \in live, NEW fd \in DOMAIN open[s], NEW k \in Nat,
         Advance(s, fd, k), live' = live
  PROVE  Abstract!Set(s, fd, [open[s][fd] EXCEPT !.offset = @ + k])
<1> DEFINE old == f_desc[s][fd]
           d == [flag |-> old.flag, ops |-> old.ops, inode |-> old.inode,
                 file_position |-> old.file_position + k]
<1>1. fd \in Regular /\ old.flag = 0 /\ open[s][fd] = Place(old)
  BY SeenIsOpen
<1>2. old \in Descriptor
  BY <1>1, SeenIsOpen, DescriptorAssumption DEF Rows, Regular
<1>3. [old EXCEPT !.file_position = old.file_position + k] = d
  BY <1>2 DEF Descriptor
<1>4. f_desc' = [f_desc EXCEPT ![s][fd] = d]
  BY <1>3 DEF Advance
<1>5. d.flag = 0 /\ Place(d) = [open[s][fd] EXCEPT !.offset = @ + k]
  BY <1>1 DEF Place
<1> HIDE DEF d
<1>6. Abstract!Set(s, fd, Place(d))
  BY <1>1, <1>4, <1>5, SetsPlace
<1> QED
  BY <1>5, <1>6

\* file_read returns the next bytes and moves behind them.
LEMMA FileReadReads ==
  ASSUME IInv, NEW s \in live, NEW fd \in DOMAIN open[s], NEW n \in Int,
         NEW null \in BOOLEAN, live' = live, f_desc[s][fd].ops = "file",
         file_read(s, fd, null, n)
  PROVE  Abstract!ReadFile(s, fd, Unsigned(n), null)
<1> DEFINE old == f_desc[s][fd]
           text == Texts[old.inode]
           k == Unsigned(n)
           r == read_data(old.inode, old.file_position, null, k)
           b == SubSeq(text, old.file_position + 1,
                       Least(old.file_position + k, Len(text)))
<1>1. open[s][fd] = Place(old) /\ InFile(old) /\ old \in Descriptor
  BY SeenIsOpen, DescriptorAssumption DEF Usable, Rows, Regular
<1>2. /\ Len(text) \in Nat /\ inode[old.inode].length = Len(text)
      /\ old.file_position \in Nat /\ old.inode \in Inodes
  BY <1>1, LengthOfText DEF InFile, Descriptor
<1>3. /\ open[s][fd].kind = "file" /\ open[s][fd].inode = old.inode
      /\ open[s][fd].offset = old.file_position
  BY <1>1 DEF Place
<1>4. k \in Nat
  BY SizeAssumption DEF Unsigned
<1>5. CASE old.file_position >= Len(text)
  <2>1. ret' = Code(0) /\ UNCHANGED f_desc
    BY <1>2, <1>5 DEF file_read
  <2> QED
    BY <1>3, <1>5, <2>1, SameOpen, SameImage DEF Abstract!ReadFile
<1>6. CASE old.file_position < Len(text) /\ (k = 0 \/ null)
  <2>1. r = Failed
    BY <1>6 DEF read_data
  <2>2. ret' = Failed /\ UNCHANGED f_desc
    BY <1>2, <1>6, <2>1 DEF file_read, Failed
  <2> QED
    BY <1>3, <1>6, <2>2, SameOpen, SameImage DEF Abstract!ReadFile
<1>7. CASE old.file_position < Len(text) /\ k # 0 /\ ~null
  <2>1. r = Bytes(b)
    BY <1>2, <1>4, <1>7, ReadGivesText
  <2>2. Len(b) \in Nat /\ r.code = Len(b)
    <3>1. text \in Seq(STRING)
      BY <1>2, ImageAssumption DEF Inodes
    <3>2. b \in Seq(STRING)
      <4>1. Least(old.file_position + k, Len(text)) \in 0 .. Len(text)
        BY <1>2, <1>4 DEF Least
      <4>2. ASSUME NEW i \in old.file_position + 1 ..
                              Least(old.file_position + k, Len(text))
            PROVE  text[i] \in STRING
        BY <1>2, <3>1, <4>1
      <4> QED
        BY <1>2, <3>1, <4>1, <4>2
    <3>3. Len(b) \in Nat
      BY <3>2
    <3>4. Bytes(b).code = Len(b)
      BY DEF Bytes
    <3> HIDE DEF b, r
    <3> QED
      BY <2>1, <3>3, <3>4
  <2>3. ret' = Bytes(b) /\ Advance(s, fd, Len(b))
    <3>1. ret' = r /\ (r.code # -1 => Advance(s, fd, r.code))
      BY <1>2, <1>7 DEF file_read
    <3> HIDE DEF r, b
    <3>2. r.code # -1
      BY <2>2
    <3>3. ret' = Bytes(b)
      BY <2>1, <3>1
    <3>4. Advance(s, fd, r.code)
      BY <3>1, <3>2
    <3> QED
      BY <2>2, <3>3, <3>4
  <2>4. Abstract!Set(s, fd, [open[s][fd] EXCEPT !.offset = @ + Len(b)])
    <3> HIDE DEF b
    <3> QED
      BY <2>2, <2>3, AdvanceSets
  <2> DEFINE p == open[s][fd]
             seen == SubSeq(Texts[p.inode], p.offset + 1,
                            Abstract!Least(p.offset + k, Len(Texts[p.inode])))
  <2>5. p.offset < Len(Texts[p.inode]) /\ p.kind = "file"
    BY <1>3, <1>7
  <2>6. b = seen
    BY <1>3, SameImage
  <2>7. ret' = Abstract!Bytes(seen)
        /\ Abstract!Set(s, fd, [p EXCEPT !.offset = @ + Len(seen)])
    <3> HIDE DEF b, seen
    <3> QED
      BY <2>3, <2>4, <2>6, SameImage
  <2> QED
    BY <1>7, <2>5, <2>7 DEF Abstract!ReadFile
<1> QED
  BY <1>2, <1>5, <1>6, <1>7

\* A name that is stored or compared has at most 32 characters.
LEMMA LengthOfCut ==
  ASSUME NEW name \in Seq(STRING)
  PROVE  Cut(name) \in Seq(STRING) /\ Len(Cut(name)) <= DIR_NAME_LENGTH
<1>1. CASE Len(name) <= FILENAME_LEN
  BY <1>1, DescriptorAssumption DEF Cut
<1>2. CASE ~(Len(name) <= FILENAME_LEN)
  <2>1. FILENAME_LEN \in 0 .. Len(name)
    BY <1>2, SizeAssumption
  <2>2. SubSeq(name, 1, FILENAME_LEN) \in Seq(STRING)
        /\ Len(SubSeq(name, 1, FILENAME_LEN)) = FILENAME_LEN
    BY <2>1
  <2> QED
    BY <1>2, <2>2, DescriptorAssumption, SizeAssumption DEF Cut
<1> QED
  BY <1>1, <1>2

\* dir_read returns the next name and moves to the one after it.
LEMMA DirReadReads ==
  ASSUME IInv, NEW s \in live, NEW fd \in DOMAIN open[s], NEW n \in Int,
         NEW null \in BOOLEAN, live' = live, f_desc[s][fd].ops = "dir",
         dir_read(s, fd, null, n)
  PROVE  Abstract!ReadDir(s, fd, n, null)
<1> DEFINE p == f_desc[s][fd].file_position
           name == IF p < Len(direntries)
                     THEN Cut(direntries[p + 1].filename) ELSE <<>>
<1>1. open[s][fd].kind = "dir" /\ open[s][fd].offset = p /\ p \in Nat
  <2>1. fd \in Regular /\ open[s][fd] = Place(f_desc[s][fd])
        /\ f_desc[s] \in Rows
    BY SeenIsOpen
  <2>2. f_desc[s][fd] \in Descriptor
    BY <2>1, DescriptorAssumption DEF Rows, Regular
  <2> QED
    BY <2>1, <2>2 DEF Place, Descriptor
<1>2. CASE null
  BY <1>1, <1>2, SameOpen, SameImage DEF dir_read, Abstract!ReadDir
<1>3. CASE ~null
  <2>1. name \in Seq(STRING) /\ Len(name) <= DIR_NAME_LENGTH
    <3>1. CASE p < Len(direntries)
      <4>1. direntries[p + 1].filename \in Seq(STRING)
        <5>1. p + 1 \in 1 .. Len(direntries)
          BY <1>1, <3>1
        <5> HIDE DEF p
        <5> QED
          BY <5>1, DirectoryAssumption
      <4>2. name = Cut(direntries[p + 1].filename)
        BY <3>1
      <4> HIDE DEF name, p
      <4> QED
        BY <4>1, <4>2, LengthOfCut
    <3>2. CASE ~(p < Len(direntries))
      BY <3>2, SizeAssumption, DescriptorAssumption
    <3> QED
      BY <3>1, <3>2
  <2>2. Least(Len(name), Least(n, DIR_NAME_LENGTH)) = Least(n, Len(name))
    BY <2>1, SizeAssumption, DescriptorAssumption DEF Least
  <2>3. /\ ret' = Bytes(SubSeq(name, 1, Least(n, Len(name))))
        /\ Advance(s, fd, 1)
    BY <1>3, <2>2 DEF dir_read
  <2>4. Abstract!Set(s, fd, [open[s][fd] EXCEPT !.offset = @ + 1])
    BY <2>3, AdvanceSets
  <2> QED
    BY <1>1, <1>3, <2>3, <2>4, SameImage DEF Abstract!ReadDir
<1> QED
  BY <1>2, <1>3

\* What OpenFiles says of a read of this size.
ReadsAs(s, fd, n, null) ==
  /\ s \in live /\ live' = live
  /\ Abstract!Asked("read", s, fd, <<>>)
  /\ \/ /\ fd \in DOMAIN open[s]
        /\ \/ Abstract!ReadFile(s, fd, Unsigned(n), null)
           \/ Abstract!ReadDir(s, fd, n, null)
           \/ Abstract!ReadRtc(s, fd)
     \/ fd = 0 /\ Abstract!ReadTerminal
     \/ fd \notin DOMAIN open[s] \cup {0} /\ ret' = Failed /\ open' = open

\* A call of read is one of OpenFiles: the descriptors that can be read are
\* those in use and standard input.
LEMMA ReadReads ==
  ASSUME IInv, NEW s \in Slots, NEW fd \in Int, NEW n \in Int,
         NEW null \in BOOLEAN, Read(s, fd, n, null)
  PROVE  ReadsAs(s, fd, n, null)
<1>1. s \in live /\ live' = live /\ Abstract!Asked("read", s, fd, <<>>)
  BY DEF Read, FdCall, Call, Abstract!Asked
<1>2. CASE CannotRead(s, fd)
  <2>1. ret' = Failed /\ UNCHANGED <<live, f_desc>>
    BY <1>1, <1>2 DEF Read
  <2>2. fd \notin DOMAIN open[s] \cup {0}
    BY <1>1, <1>2, SeenIsOpen, DescriptorAssumption DEF CannotRead, Regular
  <2> QED
    BY <1>1, <2>1, <2>2, SameOpen, SameImage DEF ReadsAs
<1>3. CASE ~CannotRead(s, fd) /\ fd \notin Regular
  <2>1. fd = 0 /\ f_desc[s][fd].ops = "terminal"
    BY <1>1, <1>3, SeenIsOpen, DescriptorAssumption
       DEF CannotRead, Regular, Usable
  <2>2. ret' = Code(0) /\ UNCHANGED <<live, f_desc>>
    BY <1>1, <1>3, <2>1 DEF Read
  <2> QED
    BY <1>1, <2>1, <2>2, SameOpen, SameImage
       DEF ReadsAs, Abstract!ReadTerminal
<1>4. CASE ~CannotRead(s, fd) /\ fd \in Regular
  <2>1. f_desc[s][fd] \in Descriptor /\ f_desc[s][fd].flag # 1
    BY <1>1, <1>4, SeenIsOpen, DescriptorAssumption
       DEF CannotRead, Regular, Rows
  <2>2. f_desc[s][fd].flag = 0
    BY <2>1 DEF Descriptor
  <2>3. fd \in DOMAIN open[s] /\ open[s][fd] = Place(f_desc[s][fd])
        /\ f_desc[s][fd].ops \in Kinds
    BY <1>1, <1>4, <2>2, SeenIsOpen, DescriptorAssumption DEF Usable, Regular
  <2>4. CASE f_desc[s][fd].ops = "file"
    <3>1. file_read(s, fd, null, n)
      BY <1>4, <2>4 DEF Read
    <3>2. Abstract!ReadFile(s, fd, Unsigned(n), null)
      BY <1>1, <2>3, <2>4, <3>1, FileReadReads, SameImage
    <3> QED
      BY <1>1, <2>3, <3>2 DEF ReadsAs
  <2>5. CASE f_desc[s][fd].ops = "dir"
    <3>1. dir_read(s, fd, null, n)
      BY <1>4, <2>5 DEF Read
    <3>2. Abstract!ReadDir(s, fd, n, null)
      BY <1>1, <2>3, <2>5, <3>1, DirReadReads
    <3> QED
      BY <1>1, <2>3, <3>2 DEF ReadsAs
  <2>6. CASE f_desc[s][fd].ops = "rtc"
    <3>1. ret' = Code(0) /\ UNCHANGED <<live, f_desc>>
      BY <1>1, <1>4, <2>6 DEF Read
    <3>2. Abstract!ReadRtc(s, fd)
      BY <2>3, <2>6, <3>1, SameOpen, SameImage DEF Place, Abstract!ReadRtc
    <3> QED
      BY <1>1, <2>3, <3>2 DEF ReadsAs
  <2> QED
    BY <2>3, <2>4, <2>5, <2>6 DEF Kinds
<1> QED
  BY <1>2, <1>3, <1>4

\* What OpenFiles says of a write of this size.
WritesAs(s, fd, n) ==
  /\ s \in live /\ live' = live /\ open' = open
  /\ Abstract!Asked("write", s, fd, <<>>)
  /\ ret' \in IF fd = 1 THEN {Code(n), Failed}
             ELSE IF fd \in DOMAIN open[s] /\ open[s][fd].kind = "rtc"
               THEN {Code(0), Failed}
             ELSE {Failed}

\* A call of write is one of OpenFiles: only standard output and the clock
\* take what is written.
LEMMA WriteWrites ==
  ASSUME IInv, NEW s \in Slots, NEW fd \in Int, NEW n \in Int,
         NEW null \in BOOLEAN, Write(s, fd, n, null)
  PROVE  WritesAs(s, fd, n)
<1>1. s \in live /\ UNCHANGED <<live, f_desc>>
      /\ Abstract!Asked("write", s, fd, <<>>)
  BY DEF Write, FdCall, Call, Abstract!Asked
<1>2. open' = open
  BY <1>1, SameOpen
<1>3. CASE CannotWrite(s, fd)
  <2>1. ret' = Failed
    BY <1>3 DEF Write
  <2> QED
    BY <1>1, <1>2, <2>1, SameImage DEF WritesAs
<1>4. CASE ~CannotWrite(s, fd) /\ fd \notin Regular
  <2>1. fd = 1 /\ f_desc[s][fd].ops = "terminal"
    BY <1>1, <1>4, SeenIsOpen, DescriptorAssumption
       DEF CannotWrite, Regular, Usable
  <2>2. ret' \in {Failed, Code(n)}
    BY <1>4, <2>1 DEF Write
  <2> QED
    BY <1>1, <1>2, <2>1, <2>2, SameImage DEF WritesAs
<1>5. CASE ~CannotWrite(s, fd) /\ fd \in Regular
  <2>1. f_desc[s][fd] \in Descriptor /\ f_desc[s][fd].flag # 1
    BY <1>1, <1>5, SeenIsOpen, DescriptorAssumption
       DEF CannotWrite, Regular, Rows
  <2>2. f_desc[s][fd].flag = 0
    BY <2>1 DEF Descriptor
  <2>3. fd \in DOMAIN open[s] /\ open[s][fd] = Place(f_desc[s][fd])
        /\ f_desc[s][fd].ops \in Kinds /\ fd # 1
    BY <1>1, <1>5, <2>2, SeenIsOpen, DescriptorAssumption DEF Usable, Regular
  <2>4. CASE f_desc[s][fd].ops = "rtc"
    <3>1. ret' \in {Failed, Code(0)} /\ open[s][fd].kind = "rtc"
      BY <1>5, <2>3, <2>4 DEF Write, Place
    <3> QED
      BY <1>1, <1>2, <2>3, <3>1, SameImage DEF WritesAs
  <2>5. CASE f_desc[s][fd].ops # "rtc"
    <3>1. ret' = Failed
      BY <1>5, <2>3, <2>5 DEF Write, Kinds
    <3> QED
      BY <1>1, <1>2, <2>3, <3>1, SameImage DEF WritesAs
  <2> QED
    BY <2>4, <2>5
<1> QED
  BY <1>3, <1>4, <1>5

\* Before the first process nothing is open.
LEMMA InitAbstract == Init => Abstract!Init
BY OpenIsView DEF Init, Abstract!Init, SeenBy, FdCall, Call, Code,
                  Abstract!Code, NULL, Abstract!NULL

\* Every step of Files is a step of OpenFiles or none.
LEMMA StepAbstract ==
  IInv /\ [Next]_vars => [Abstract!Next]_(Abstract!vars)
<1> SUFFICES ASSUME IInv, [Next]_vars
             PROVE  Abstract!Next \/ UNCHANGED Abstract!vars
  OBVIOUS
<1>1. ASSUME NEW s \in Slots, AnyCall(s) PROVE Abstract!Next
  <2>1. ASSUME NEW name \in Names, Open(s, name) PROVE Abstract!Next
    BY <2>1, OpenOpens DEF Abstract!Next
  <2>2. ASSUME NEW fd \in FdArgs, Close(s, fd) PROVE Abstract!Next
    BY <2>2, CloseCloses, DescriptorAssumption DEF Abstract!Next
  <2>3. ASSUME NEW fd \in FdArgs, NEW n \in Sizes, NEW null \in BOOLEAN,
               Read(s, fd, n, null)
        PROVE  Abstract!Next
    <3>1. ReadsAs(s, fd, n, null)
      BY <2>3, ReadReads, DescriptorAssumption
    <3> QED
      BY <3>1, SameImage DEF ReadsAs, Abstract!Read, Abstract!Next
  <2>4. ASSUME NEW fd \in FdArgs, NEW n \in Sizes, NEW null \in BOOLEAN,
               Write(s, fd, n, null)
        PROVE  Abstract!Next
    <3>1. WritesAs(s, fd, n)
      BY <2>4, WriteWrites, DescriptorAssumption
    <3> QED
      BY <3>1, SameImage DEF WritesAs, Abstract!Write, Abstract!Next
  <2> QED
    BY <1>1, <2>1, <2>2, <2>3, <2>4 DEF AnyCall
<1>2. ASSUME NEW s \in Slots, Execute(s) \/ Halt(s) PROVE Abstract!Next
  BY <1>2, ExecuteStarts, HaltEnds DEF Abstract!Next
<1>3. CASE UNCHANGED vars
  BY <1>3, SameOpen DEF vars, Abstract!vars
<1> QED
  BY <1>1, <1>2, <1>3 DEF Next

\* Files implements OpenFiles: a process sees only descriptors that it opened
\* itself, each read goes on where the last one ended, and a call fails only
\* where OpenFiles lets it; for any image, names, descriptors and sizes.
THEOREM KeepsItsPromises == Spec => Abstract!Spec
BY InitIInv, NextIInv, InitAbstract, StepAbstract, PTL DEF Spec, Abstract!Spec

(***************************************************************************)
(* What the calls of one process do to the descriptors.                    *)
(***************************************************************************)

\* A size is not greater as an unsigned word.
LEMMA UnsignedBelow ==
  ASSUME NEW n \in Nat PROVE Unsigned(n) \in Nat /\ Unsigned(n) <= n
BY SizeAssumption DEF Unsigned

\* The bytes that a read of a file returns are at most as many as asked for.
LEMMA FileBytes ==
  ASSUME NEW n \in Inodes, NEW p \in Nat, p < Len(Texts[n]),
         NEW k \in Nat, NEW r, r = read_data(n, p, FALSE, k)
  PROVE  /\ r.bytes \in Seq(STRING) /\ Len(r.bytes) <= k
         /\ r.code = -1 \/ r.code = Len(r.bytes)
<1>1. CASE k = 0
  BY <1>1 DEF read_data, Failed
<1>2. CASE k # 0
  <2> DEFINE b == SubSeq(Texts[n], p + 1, Least(p + k, Len(Texts[n])))
  <2>1. r = Bytes(b)
    BY <1>2, ReadGivesText
  <2>2. Texts[n] \in Seq(STRING) /\ Len(Texts[n]) \in Nat
    BY ImageAssumption DEF Inodes
  <2>3. Least(p + k, Len(Texts[n])) \in p + 1 .. Len(Texts[n])
        /\ Least(p + k, Len(Texts[n])) <= p + k
    BY <2>2, <1>2 DEF Least
  <2>4. b \in Seq(STRING) /\ Len(b) = Least(p + k, Len(Texts[n])) - p
    BY <2>2, <2>3
  <2> HIDE DEF b
  <2>5. Bytes(b).bytes = b /\ Bytes(b).code = Len(b)
    BY DEF Bytes
  <2>6. Len(b) <= k
    BY <2>2, <2>3, <2>4
  <2> QED
    BY <2>1, <2>4, <2>5, <2>6
<1> QED
  BY <1>1, <1>2

\* What a read changes: at most the position of one descriptor of its process.
Moves(s) ==
  /\ live' = live
  /\ f_desc' \in [Slots -> Rows]
  /\ \A u \in Slots \ {s} : f_desc'[u] = f_desc[u]
  /\ \A d \in 0 .. UPPB : /\ f_desc'[s][d].flag = f_desc[s][d].flag
                          /\ f_desc'[s][d].ops = f_desc[s][d].ops

LEMMA AdvanceMoves ==
  ASSUME IInv, NEW s \in live, NEW fd \in Regular, NEW k \in Nat,
         Advance(s, fd, k), live' = live
  PROVE  Moves(s)
<1> DEFINE old == f_desc[s][fd]
           d == [flag |-> old.flag, ops |-> old.ops, inode |-> old.inode,
                 file_position |-> old.file_position + k]
<1>1. s \in Slots /\ f_desc[s] \in Rows /\ old \in Descriptor
  BY DescriptorAssumption DEF IInv, Rows, Regular
<1>2. d \in Descriptor /\ d = [old EXCEPT !.file_position = @ + k]
  BY <1>1 DEF Descriptor
<1>3. f_desc' = [f_desc EXCEPT ![s] = [f_desc[s] EXCEPT ![fd] = d]]
  BY <1>2 DEF Advance
<1>4. [f_desc[s] EXCEPT ![fd] = d] \in Rows
  BY <1>1, <1>2 DEF Rows
<1>5. d.flag = old.flag /\ d.ops = old.ops
  OBVIOUS
<1>6. fd \in 0 .. UPPB /\ DOMAIN f_desc[s] = 0 .. UPPB /\ DOMAIN f_desc = Slots
  BY <1>1, DescriptorAssumption DEF Regular, Rows, IInv
<1> HIDE DEF d
<1>7. f_desc' \in [Slots -> Rows]
  BY <1>3, <1>4, <1>1 DEF IInv
<1>8. f_desc'[s] = [f_desc[s] EXCEPT ![fd] = d]
  BY <1>3, <1>1, <1>6
<1> QED
  BY <1>3, <1>5, <1>6, <1>7, <1>8, <1>1 DEF Moves

LEMMA StandsStill ==
  ASSUME IInv, NEW s, UNCHANGED <<live, f_desc>> PROVE Moves(s)
BY DEF Moves, IInv

LEMMA NothingRead == <<>> \in Seq(STRING) /\ Len(<<>>) = 0
OBVIOUS

\* A read from inside a file.
LEMMA FileReadDoes ==
  ASSUME IInv, NEW s \in live, NEW fd \in Regular, NEW n \in Int,
         f_desc[s][fd].flag = 0, f_desc[s][fd].ops = "file",
         file_read(s, fd, FALSE, n), live' = live
  PROVE  /\ Moves(s)
         /\ ret'.bytes \in Seq(STRING)
         /\ ret'.code = -1 \/ ret'.code = Len(ret'.bytes)
         /\ n \in Nat => Len(ret'.bytes) <= n
<1> DEFINE old == f_desc[s][fd]
<1>1. s \in Slots /\ f_desc[s] \in Rows /\ Usable(f_desc[s])
  BY DEF IInv
<1>2. old \in Descriptor /\ InFile(old)
  BY <1>1, DescriptorAssumption DEF Rows, Regular, Usable
<1>3. old.inode \in Inodes /\ old.file_position \in Nat
  BY <1>2 DEF InFile, Descriptor
<1>4. inode[old.inode].length = Len(Texts[old.inode])
      /\ Len(Texts[old.inode]) \in Nat
  BY <1>3, LengthOfText
<1>5. Unsigned(n) \in Nat /\ (n \in Nat => Unsigned(n) <= n)
  BY SizeAssumption, UnsignedBelow DEF Unsigned
<1> HIDE DEF old
<1>6. CASE old.file_position >= Len(Texts[old.inode])
  <2>1. ret' = Code(0) /\ UNCHANGED f_desc
    BY <1>4, <1>6 DEF file_read, old
  <2>2. ret'.code = 0 /\ ret'.bytes = <<>>
    BY <2>1 DEF Code
  <2>3. Moves(s)
    BY <2>1, StandsStill
  <2> QED
    BY <2>2, <2>3, NothingRead
<1>7. CASE old.file_position < Len(Texts[old.inode])
  <2> DEFINE r == read_data(old.inode, old.file_position, FALSE, Unsigned(n))
  <2>1. /\ ret' = r
        /\ r.code # -1 => Advance(s, fd, r.code)
        /\ r.code = -1 => UNCHANGED f_desc
    <3>1. ~(old.file_position >= inode[old.inode].length)
      BY <1>3, <1>4, <1>7
    <3> QED
      BY <3>1 DEF file_read, old
  <2>2. /\ r.bytes \in Seq(STRING) /\ Len(r.bytes) <= Unsigned(n)
        /\ r.code = -1 \/ r.code = Len(r.bytes)
    BY <1>3, <1>5, <1>7, FileBytes, ZenonT(60)
  <2> HIDE DEF r
  <2>3. Len(r.bytes) \in Nat
    BY <2>2
  <2>4. Moves(s)
    <3>1. CASE r.code = -1
      BY <2>1, <3>1, StandsStill
    <3>2. CASE r.code # -1
      BY <2>1, <2>2, <2>3, <3>2, AdvanceMoves
    <3> QED
      BY <3>1, <3>2
  <2> QED
    BY <2>1, <2>2, <2>3, <2>4, <1>5
<1> QED
  BY <1>3, <1>4, <1>6, <1>7

\* The name of an entry, cut to what was asked for.
LEMMA DirReadDoes ==
  ASSUME IInv, NEW s \in live, NEW fd \in Regular, NEW n \in Int,
         dir_read(s, fd, FALSE, n), live' = live
  PROVE  /\ Moves(s)
         /\ ret'.bytes \in Seq(STRING)
         /\ ret'.code = -1 \/ ret'.code = Len(ret'.bytes)
         /\ n \in Nat => Len(ret'.bytes) <= n
         /\ ret'.code > 0 /\ n = FILENAME_LEN =>
              \E i \in 1 .. Len(direntries) : ret'.bytes = ListedName(i)
<1> DEFINE p == f_desc[s][fd].file_position
           name == IF p < Len(direntries)
                     THEN Cut(direntries[p + 1].filename) ELSE <<>>
           length == Least(Len(name), Least(n, DIR_NAME_LENGTH))
<1>1. /\ ret' = Bytes(SubSeq(name, 1, length))
      /\ Advance(s, fd, 1)
  BY DEF dir_read
<1>2. p \in Nat
  BY DescriptorAssumption DEF IInv, Rows, Regular, Descriptor
<1> HIDE DEF p
<1>3. /\ name \in Seq(STRING) /\ Len(name) <= DIR_NAME_LENGTH
      /\ Len(name) # 0 =>
           \E i \in 1 .. Len(direntries) : name = ListedName(i)
  <2>1. CASE p < Len(direntries)
    <3>1. p + 1 \in 1 .. Len(direntries)
      BY <1>2, <2>1
    <3>2. direntries[p + 1].filename \in Seq(STRING)
      BY <3>1, DirectoryAssumption
    <3>3. name = Cut(direntries[p + 1].filename)
      BY <2>1
    <3> QED
      BY <3>1, <3>2, <3>3, LengthOfCut DEF ListedName
  <2>2. CASE ~(p < Len(direntries))
    BY <2>2, SizeAssumption, DescriptorAssumption
  <2> QED
    BY <2>1, <2>2
<1> HIDE DEF name
<1>4. /\ length \in Int /\ length <= Len(name)
      /\ n \in Nat => length \in Nat /\ length <= n
      /\ n = FILENAME_LEN => length = Len(name)
  BY <1>3, SizeAssumption, DescriptorAssumption DEF Least
<1> DEFINE b == SubSeq(name, 1, length)
<1>5. /\ b \in Seq(STRING)
      /\ Len(b) = IF length \in Nat THEN length ELSE 0
      /\ length = Len(name) => b = name
  BY <1>3, <1>4
<1> HIDE DEF length, b
<1>6. Bytes(b).bytes = b /\ Bytes(b).code = Len(b)
  BY DEF Bytes
<1>7. ret' = Bytes(b)
  BY <1>1 DEF b
<1>8. Moves(s)
  BY <1>1, AdvanceMoves
<1> QED
  BY <1>3, <1>4, <1>5, <1>6, <1>7, <1>8

\* A read by a process.
LEMMA ReadDoes ==
  ASSUME IInv, NEW s \in Slots, NEW fd \in Int, NEW n \in Int,
         Read(s, fd, n, FALSE)
  PROVE  /\ s \in live /\ Moves(s)
         /\ ret'.bytes \in Seq(STRING)
         /\ ret'.code = -1 \/ ret'.code = Len(ret'.bytes)
         /\ n \in Nat => Len(ret'.bytes) <= n
<1>1. s \in live /\ live' = live
  BY DEF Read
<1>2. Failed.code = -1 /\ Failed.bytes = <<>>
      /\ Code(0).code = 0 /\ Code(0).bytes = <<>>
  BY DEF Failed, Code
<1>3. CASE ret' \in {Failed, Code(0)} /\ UNCHANGED f_desc
  <2>1. ret'.code \in {-1, 0} /\ ret'.bytes = <<>>
    BY <1>2, <1>3
  <2> QED
    BY <1>1, <1>3, <2>1, StandsStill, NothingRead
<1>4. CASE ~(ret' \in {Failed, Code(0)} /\ UNCHANGED f_desc)
  <2>1. ~CannotRead(s, fd)
    BY <1>4 DEF Read
  <2>2. fd \in Regular
    <3>1. Usable(f_desc[s])
      BY <1>1 DEF IInv
    <3>2. fd = 0 => f_desc[s][fd].ops = "terminal"
      BY <3>1, DescriptorAssumption DEF Usable
    <3>3. fd # 0
      BY <3>2, <1>4, <2>1 DEF Read
    <3> QED
      BY <2>1, <3>3, DescriptorAssumption DEF CannotRead, Regular
  <2>3. f_desc[s][fd].flag = 0
    <3>1. f_desc[s][fd] \in Descriptor
      BY <2>2, DescriptorAssumption DEF IInv, Rows, Regular
    <3> QED
      BY <2>1, <2>2, <3>1 DEF CannotRead, Descriptor, Regular
  <2>4. \/ f_desc[s][fd].ops = "file" /\ file_read(s, fd, FALSE, n)
        \/ dir_read(s, fd, FALSE, n)
    BY <1>4, <2>1 DEF Read
  <2> QED
    BY <1>1, <2>2, <2>3, <2>4, FileReadDoes, DirReadDoes
<1> QED
  BY <1>3, <1>4

\* One descriptor of s changes, to one with this flag.
Sets(s, fd, flag) ==
  /\ live' = live
  /\ f_desc' \in [Slots -> Rows]
  /\ \A u \in Slots \ {s} : f_desc'[u] = f_desc[u]
  /\ \A d \in 0 .. UPPB : d # fd => f_desc'[s][d] = f_desc[s][d]
  /\ f_desc'[s][fd].flag = flag

LEMMA ReplacedSets ==
  ASSUME IInv, NEW s \in live, NEW fd \in Regular, NEW d \in Descriptor,
         f_desc' = [f_desc EXCEPT ![s][fd] = d], live' = live
  PROVE  Sets(s, fd, d.flag) /\ f_desc'[s][fd] = d
<1>1. s \in Slots /\ f_desc[s] \in Rows /\ DOMAIN f_desc = Slots
  BY DEF IInv
<1>2. fd \in 0 .. UPPB /\ DOMAIN f_desc[s] = 0 .. UPPB
  BY <1>1, DescriptorAssumption DEF Regular, Rows
<1>3. [f_desc[s] EXCEPT ![fd] = d] \in Rows
  BY <1>1, <1>2 DEF Rows
<1>4. f_desc' = [f_desc EXCEPT ![s] = [f_desc[s] EXCEPT ![fd] = d]]
  OBVIOUS
<1>5. f_desc'[s] = [f_desc[s] EXCEPT ![fd] = d]
  BY <1>1, <1>4
<1>6. f_desc' \in [Slots -> Rows]
  BY <1>1, <1>3, <1>4 DEF IInv
<1> QED
  BY <1>1, <1>2, <1>4, <1>5, <1>6 DEF Sets

\* open takes the first free descriptor for the first entry of this name.
LEMMA OpenDoes ==
  ASSUME IInv, NEW s \in Slots, NEW name, Open(s, name)
  PROVE  /\ s \in live /\ live' = live
         /\ \/ /\ EntriesFor(name) = {} \/ FreeFds(s) = {}
               /\ ret'.code = -1 /\ UNCHANGED f_desc
            \/ /\ EntriesFor(name) # {}
               /\ ret'.code \in FreeFds(s)
               /\ \A d \in FreeFds(s) : ret'.code <= d
               /\ Sets(s, ret'.code, 0)
               /\ \E i \in EntriesFor(name) :
                    f_desc'[s][ret'.code].ops = direntries[i].filetype
<1>1. s \in live /\ live' = live
  BY DEF Open
<1>2. CASE EntriesFor(name) = {} \/ FreeFds(s) = {}
  BY <1>1, <1>2 DEF Open, Failed
<1>3. CASE EntriesFor(name) # {} /\ FreeFds(s) # {}
  <2>1. PICK i \in EntriesFor(name), fd \in FreeFds(s) :
          /\ \A d \in FreeFds(s) : fd <= d
          /\ f_desc' = [f_desc EXCEPT ![s][fd] = Opened(s, fd, direntries[i])]
          /\ ret' = Code(fd)
    BY <1>3 DEF Open
  <2>2. i \in 1 .. Len(direntries) /\ fd \in Regular
    BY DEF EntriesFor, FreeFds
  <2>3. Opened(s, fd, direntries[i]) \in Descriptor
    BY <2>2, OpenedIsGood
  <2>4. /\ Opened(s, fd, direntries[i]).flag = 0
        /\ Opened(s, fd, direntries[i]).ops = direntries[i].filetype
    BY DEF Opened
  <2>5. ret'.code = fd
    BY <2>1 DEF Code
  <2>6. Sets(s, fd, 0)
        /\ f_desc'[s][fd].ops = direntries[i].filetype
    BY <2>1, <2>2, <2>3, <2>4, <1>1, ReplacedSets
  <2> QED
    BY <1>1, <1>3, <2>1, <2>5, <2>6
<1> QED
  BY <1>2, <1>3

\* close frees a regular descriptor that was in use.
LEMMA CloseDoes ==
  ASSUME IInv, NEW s \in Slots, NEW fd \in Int, Close(s, fd)
  PROVE  /\ s \in live /\ live' = live
         /\ \/ /\ fd \notin Regular \/ f_desc[s][fd].flag = 1
               /\ ret'.code = -1 /\ UNCHANGED f_desc
            \/ /\ fd \in Regular /\ f_desc[s][fd].flag = 0
               /\ ret'.code = 0 /\ Sets(s, fd, 1)
<1>1. s \in live /\ live' = live
  BY DEF Close
<1>2. CASE fd \notin Regular \/ f_desc[s][fd].flag = 1
  BY <1>1, <1>2, DescriptorAssumption DEF Close, Failed, Regular
<1>3. CASE fd \in Regular /\ f_desc[s][fd].flag # 1
  <2> DEFINE old == f_desc[s][fd]
             d == [flag |-> 1, ops |-> old.ops, inode |-> old.inode,
                   file_position |-> old.file_position]
  <2>1. old \in Descriptor
    BY <1>1, <1>3, DescriptorAssumption DEF IInv, Rows, Regular
  <2>2. d \in Descriptor /\ d = [old EXCEPT !.flag = 1] /\ d.flag = 1
    BY <2>1 DEF Descriptor
  <2>3. /\ f_desc' = [f_desc EXCEPT ![s][fd].flag = 1]
        /\ ret' = Code(0)
    BY <1>3, DescriptorAssumption DEF Close, Regular
  <2>4. ret'.code = 0
    BY <2>3 DEF Code
  <2>5. f_desc' = [f_desc EXCEPT ![s][fd] = d]
    BY <2>2, <2>3
  <2>6. old.flag = 0
    BY <2>1, <1>3 DEF Descriptor
  <2>7. d \in Descriptor /\ d.flag = 1
    BY <2>2
  <2> HIDE DEF d
  <2>8. Sets(s, fd, d.flag)
    BY <1>1, <1>3, <2>7, <2>5, ReplacedSets
  <2>9. Sets(s, fd, 1)
    BY <2>7, <2>8
  <2> QED
    BY <1>1, <1>3, <2>4, <2>6, <2>9
<1> QED
  BY <1>2, <1>3

\* write changes nothing that a process keeps.
LEMMA WriteDoes ==
  ASSUME IInv, NEW s \in Slots, NEW fd \in Int, NEW n \in Int,
         NEW null \in BOOLEAN, Write(s, fd, n, null)
  PROVE  /\ s \in live /\ UNCHANGED <<live, f_desc>>
         /\ CannotWrite(s, fd) => ret'.code = -1
BY DEF Write, Failed

(***************************************************************************)
(* The invariant.                                                          *)
(***************************************************************************)
NoneOpen(s) == \A fd \in Regular : f_desc[s][fd].flag = 1

\* The shell keeps no file open, and while a program runs it waits.
ShellInv ==
  /\ sh \in {"boot", "prompt", "ready", "wait", "report"}
  /\ sh # "wait" => prog = "none"
  /\ Shell \in live => NoneOpen(Shell)
  /\ sh \in {"ready", "wait"} => line \in Lines

\* How a program ended, until the shell says so.
Ended ==
  /\ ending.how \in {"exit", "fault"} /\ ending.status \in Int
  /\ ending.how = "fault" => ending.status = haltnum
EndInv ==
  /\ sh \in {"boot", "ready"} => ending = NotEnded
  /\ sh = "wait" => IF pc = "exit" THEN Ended ELSE ending = NotEnded
  /\ sh = "report" =>
       \/ ending.how = "refused" /\ rval = -1
       \/ Ended /\ rval = Returned(ending.status)
  /\ ShellReports

\* What parse_command left and sys_execute found.
ArgsOf(c) == SubSeq(c, FnameLength(c) + 2, Len(c))
Parsed(c) ==
  /\ fname \in FnamesParsed(c)
  /\ arg_length = Len(ArgsOf(c))
  /\ CString(arg, 0) = ArgsOf(c)
ArgsInv ==
  sh = "wait" =>
    /\ Parsed(line)
    /\ LET e == direntries[FirstEntry(fname)] IN
       Texts[e.inode_num] # <<>> => prog = Texts[e.inode_num][2]

\* The locals of the programs.
CopyInv ==
  prog \in {"cat", "ls"} =>
    /\ pc \in {"read", "write"} => loc.fd \in Regular
    /\ pc = "write" => /\ ret.bytes \in Seq(STRING)
                       /\ Len(ret.bytes) <= BUFSIZE + FILENAME_LEN

Using(fd, kind) == fd \in Regular /\ f_desc[Child][fd].flag = 0
                   /\ f_desc[Child][fd].ops = kind
FillFields == {"fd", "file", "name", "data", "last", "dirty"}
GrepInv ==
  prog = "grep" =>
    /\ pc \in {"read", "open", "fill", "close"} => Using(loc.fd, "dir")
    /\ pc = "open" => ret.bytes \in AllNames
    /\ pc \in {"fill", "close"} => loc.file \in Regular \ {loc.fd}
    /\ pc = "fill" => loc.last \in 0 .. BUFSIZE /\ FillFields \subseteq DOMAIN loc

SyserrLocals == [tests : Seq(1 .. 8), call : Nat, fail : Nat, refused : Nat,
                 accepted : Nat]
SyserrInv ==
  At("syserr", "call") =>
    /\ loc \in SyserrLocals
    /\ loc.tests # <<>> => loc.call \in 1 .. Len(Tests[Head(loc.tests)])

LocalInv == CopyInv /\ GrepInv /\ SyserrInv
SInv == IInv /\ ShellInv /\ EndInv /\ ArgsInv /\ LocalInv

LEMMA InitSInv == LaunchInit => SInv
<1> SUFFICES ASSUME LaunchInit PROVE SInv
  OBVIOUS
<1>1. IInv /\ live = {}
  BY InitIInv DEF LaunchInit, Init
<1>2. ShellInv
  BY <1>1 DEF LaunchInit, ShellInv
<1>3. EndInv
  BY DEF LaunchInit, EndInv, ShellReports
<1> QED
  BY <1>1, <1>2, <1>3 DEF LaunchInit, SInv, ArgsInv, LocalInv, CopyInv,
       GrepInv, SyserrInv, At

(***************************************************************************)
(* The steps as calls of OpenFiles.                                        *)
(***************************************************************************)
\* A call of one process leaves the PCBs of the others alone.
LEMMA CallFrame ==
  ASSUME IInv, NEW s \in Slots, NEW u \in Slots, u # s,
         \/ \E name : Open(s, name)
         \/ \E fd : Close(s, fd)
         \/ \E fd, n : \E null \in BOOLEAN :
              Read(s, fd, n, null) \/ Write(s, fd, n, null)
  PROVE  live' = live /\ f_desc'[u] = f_desc[u]
<1>1. ASSUME NEW name, Open(s, name) PROVE live' = live /\ f_desc'[u] = f_desc[u]
  BY <1>1 DEF Open, IInv
<1>2. ASSUME NEW fd, Close(s, fd) PROVE live' = live /\ f_desc'[u] = f_desc[u]
  BY <1>2 DEF Close, IInv
<1>3. ASSUME NEW fd, NEW n, NEW null \in BOOLEAN, Read(s, fd, n, null)
      PROVE  live' = live /\ f_desc'[u] = f_desc[u]
  <2>1. live' = live
    BY <1>3 DEF Read
  <2>2. UNCHANGED f_desc \/ \E k : Advance(s, fd, k)
    BY <1>3 DEF Read, file_read, dir_read
  <2> QED
    BY <2>1, <2>2 DEF Advance, IInv
<1>4. ASSUME NEW fd, NEW n, NEW null \in BOOLEAN, Write(s, fd, n, null)
      PROVE  live' = live /\ f_desc'[u] = f_desc[u]
  BY <1>4 DEF Write
<1> QED
  BY <1>1, <1>2, <1>3, <1>4

\* OpenFiles says the same for the names, descriptors and sizes of the
\* programs as for those of Files.
LEMMA SamePromise ==
  /\ Promises!vars = Abstract!vars
  /\ \A s : Promises!Start(s) <=> Abstract!Start(s)
  /\ \A s : Promises!End(s) <=> Abstract!End(s)
  /\ \A s, name : Promises!Open(s, name) <=> Abstract!Open(s, name)
  /\ \A s, fd : Promises!Close(s, fd) <=> Abstract!Close(s, fd)
<1>1. Promises!NoFiles = Abstract!NoFiles /\ Promises!NULL = Abstract!NULL
      /\ Promises!Failed = Abstract!Failed
      /\ \A c : Promises!Code(c) = Abstract!Code(c)
  BY DEF Promises!NoFiles, Abstract!NoFiles, Promises!NULL, Abstract!NULL,
         Promises!Failed, Abstract!Failed, Promises!Code, Abstract!Code
<1>2. \A name : Promises!EntriesFor(name) = Abstract!EntriesFor(name)
  BY DEF Promises!EntriesFor, Abstract!EntriesFor, Promises!Cut, Abstract!Cut
<1>3. Promises!vars = Abstract!vars
  BY DEF Promises!vars, Abstract!vars
<1>4. \A s : Promises!Start(s) <=> Abstract!Start(s)
  BY DEF Promises!Start, Abstract!Start
<1>5. \A s : Promises!End(s) <=> Abstract!End(s)
  BY <1>1 DEF Promises!End, Abstract!End
<1>6. \A op, s, fd, name : Promises!Asked(op, s, fd, name) <=>
                           Abstract!Asked(op, s, fd, name)
  BY DEF Promises!Asked, Abstract!Asked
<1>7. \A s, fd, place : Promises!Set(s, fd, place) <=> Abstract!Set(s, fd, place)
  BY DEF Promises!Set, Abstract!Set
<1>8. \A s, name : Promises!Open(s, name) <=> Abstract!Open(s, name)
  BY <1>1, <1>2, <1>6, <1>7 DEF Promises!Open, Abstract!Open
<1>9. \A s, fd : Promises!Close(s, fd) <=> Abstract!Close(s, fd)
  BY <1>1, <1>6 DEF Promises!Close, Abstract!Close
<1> QED
  BY <1>3, <1>4, <1>5, <1>8, <1>9

LEMMA PromisedRead ==
  ASSUME IInv, NEW s \in Slots, NEW fd \in Int, NEW n \in Int,
         n \in AllSizes \/ fd = 0, NEW null \in BOOLEAN, Read(s, fd, n, null)
  PROVE  Promises!Read(s, fd)
<1>1. ReadsAs(s, fd, n, null)
  BY ReadReads
<1>2. /\ s \in live /\ live' = live
      /\ Promises!Asked("read", s, fd, <<>>)
  BY <1>1 DEF ReadsAs, Abstract!Asked, Promises!Asked
<1>3. /\ Promises!Failed = Failed /\ Promises!Code(0) = Code(0)
      /\ Promises!Unsigned(n) = Unsigned(n)
  BY DEF Promises!Failed, Failed, Promises!Code, Code, Promises!Unsigned,
         Unsigned
<1>4. CASE fd \in DOMAIN open[s] /\ Abstract!ReadRtc(s, fd)
  BY <1>2, <1>4 DEF Promises!Read, Promises!ReadRtc, Abstract!ReadRtc,
       Promises!Code, Abstract!Code
<1>5. CASE fd = 0 /\ Abstract!ReadTerminal
  BY <1>2, <1>5 DEF Promises!Read, Promises!ReadTerminal,
       Abstract!ReadTerminal, Promises!Code, Abstract!Code
<1>6. CASE fd \notin DOMAIN open[s] \cup {0} /\ ret' = Failed /\ open' = open
  BY <1>2, <1>3, <1>6 DEF Promises!Read
<1>7. CASE /\ fd \in DOMAIN open[s]
           /\ \/ Abstract!ReadFile(s, fd, Unsigned(n), null)
              \/ Abstract!ReadDir(s, fd, n, null)
  <2>1. fd # 0
    <3>1. DOMAIN open[s] \subseteq Regular
      BY <1>2, SeenIsOpen
    <3> QED
      BY <1>7, <3>1 DEF Regular
  <2>2. \A d, k, z : Promises!Set(s, d, k) <=> Abstract!Set(s, d, k)
    BY DEF Promises!Set, Abstract!Set
  <2>3. /\ \A i, j : Promises!Least(i, j) = Abstract!Least(i, j)
        /\ \A b : Promises!Bytes(b) = Abstract!Bytes(b)
        /\ \A b : Promises!Cut(b) = Abstract!Cut(b)
        /\ \A c : Promises!Code(c) = Abstract!Code(c)
        /\ Promises!Failed = Abstract!Failed
    BY DEF Promises!Least, Abstract!Least, Promises!Bytes, Abstract!Bytes,
           Promises!Cut, Abstract!Cut, Promises!Code, Abstract!Code,
           Promises!Failed, Abstract!Failed
  <2>4. Abstract!ReadFile(s, fd, Unsigned(n), null) =>
          Promises!ReadFile(s, fd, Unsigned(n), null)
    BY <2>2, <2>3 DEF Promises!ReadFile, Abstract!ReadFile
  <2>5. Abstract!ReadDir(s, fd, n, null) => Promises!ReadDir(s, fd, n, null)
    BY <2>2, <2>3 DEF Promises!ReadDir, Abstract!ReadDir
  <2> QED
    BY <1>2, <1>3, <1>7, <2>1, <2>4, <2>5 DEF Promises!Read
<1> QED
  BY <1>1, <1>4, <1>5, <1>6, <1>7 DEF ReadsAs

LEMMA PromisedWrite ==
  ASSUME IInv, NEW s \in Slots, NEW fd \in Int, NEW n \in Int,
         n \in AllSizes, NEW null \in BOOLEAN, Write(s, fd, n, null)
  PROVE  Promises!Write(s, fd)
<1>1. WritesAs(s, fd, n)
  BY WriteWrites
<1>2. Promises!Failed = Failed /\ \A c : Promises!Code(c) = Code(c)
  BY DEF Promises!Failed, Failed, Promises!Code, Code
<1> QED
  BY <1>1, <1>2
     DEF WritesAs, Promises!Write, Promises!Asked, Abstract!Asked

\* A step of a program is a call or none.
ProgramCall ==
  \/ UNCHANGED vars
  \/ \E name \in AllNames : Open(Child, name)
  \/ \E fd \in AllFdArgs : Close(Child, fd)
  \/ \E fd \in AllFdArgs, n \in Int : \E null \in BOOLEAN :
       /\ n \in AllSizes \/ fd = 0
       /\ Read(Child, fd, n, null)
  \/ \E fd \in AllFdArgs, n \in AllSizes \cap Int : \E null \in BOOLEAN :
       Write(Child, fd, n, null)

LEMMA FdArgsAreInt == AllFdArgs \subseteq Int
BY DescriptorAssumption DEF AllFdArgs, NEG_FD, BIG_FD

LEMMA CallKeepsFiles ==
  ASSUME IInv, ProgramCall
  PROVE  /\ IInv' /\ live' = live /\ f_desc'[Shell] = f_desc[Shell]
         /\ [Promises!Next]_(Promises!vars)
<1> USE LaunchAssumption, FdArgsAreInt
<1>1. CASE UNCHANGED vars
  <2>1. IInv' /\ open' = open
    BY <1>1, SameIInv, SameOpen DEF vars
  <2> QED
    BY <1>1, <2>1 DEF vars, Promises!vars
<1>2. ASSUME NEW name \in AllNames, Open(Child, name)
      PROVE  /\ IInv' /\ live' = live /\ f_desc'[Shell] = f_desc[Shell]
             /\ Promises!Next
  BY <1>2, OpenIInv, CallFrame, OpenOpens, SamePromise DEF Promises!Next
<1>3. ASSUME NEW fd \in AllFdArgs, Close(Child, fd)
      PROVE  /\ IInv' /\ live' = live /\ f_desc'[Shell] = f_desc[Shell]
             /\ Promises!Next
  BY <1>3, CloseIInv, CallFrame, CloseCloses, SamePromise DEF Promises!Next
<1>4. ASSUME NEW fd \in AllFdArgs, NEW n \in Int, NEW null \in BOOLEAN,
             n \in AllSizes \/ fd = 0, Read(Child, fd, n, null)
      PROVE  /\ IInv' /\ live' = live /\ f_desc'[Shell] = f_desc[Shell]
             /\ Promises!Next
  BY <1>4, ReadIInv, CallFrame, PromisedRead DEF Promises!Next
<1>5. ASSUME NEW fd \in AllFdArgs, NEW n \in AllSizes \cap Int,
             NEW null \in BOOLEAN, Write(Child, fd, n, null)
      PROVE  /\ IInv' /\ live' = live /\ f_desc'[Shell] = f_desc[Shell]
             /\ Promises!Next
  <2>1. UNCHANGED <<live, f_desc>>
    BY <1>5 DEF Write
  <2> QED
    BY <1>5, <2>1, SameIInv, PromisedWrite DEF Promises!Next
<1> QED
  BY <1>1, <1>2, <1>3, <1>4, <1>5 DEF ProgramCall

(***************************************************************************)
(* The command line.                                                       *)
(***************************************************************************)
\* What CHOOSE finds for Min and Max.
LEMMA MinIsLeast ==
  ASSUME NEW S, S \subseteq Nat, S # {}
  PROVE  Min(S) \in S /\ \A y \in S : Min(S) <= y
<1>1. \E x \in S : \A y \in S : x <= y
  BY LeastNatural
<1> QED
  BY <1>1 DEF Min

\* A bounded set of naturals has a greatest one: the bound less the least
\* distance to it.
LEMMA MaxIsGreatest ==
  ASSUME NEW b \in Nat, NEW S, S \subseteq 0 .. b, S # {}
  PROVE  Max(S) \in S /\ \A y \in S : Max(S) >= y
<1> DEFINE D == {z \in Nat : \E y \in S : z = b - y}
<1>1. PICK s \in S : TRUE
  OBVIOUS
<1>2. s \in 0 .. b
  BY <1>1
<1>3. b - s \in Nat
  BY <1>2
<1>4. b - s \in D
  BY <1>1, <1>3
<1>5. D \subseteq Nat /\ D # {}
  BY <1>4
<1>6. Min(D) \in D /\ \A z \in D : Min(D) <= z
  <2> HIDE DEF D
  <2> QED
    BY <1>5, MinIsLeast
<1>7. PICK x \in S : Min(D) = b - x
  BY <1>6
<1>8. ASSUME NEW y \in S PROVE x >= y
  <2>1. x \in 0 .. b /\ y \in 0 .. b
    BY <1>8
  <2>2. b - y \in Nat
    BY <2>1
  <2>3. b - y \in D
    BY <1>8, <2>2
  <2>4. b - x <= b - y
    BY <2>3, <1>6, <1>7
  <2> QED
    BY <2>1, <2>4
<1> QED
  BY <1>8 DEF Max

LEMMA FnameLengthFits ==
  ASSUME NEW c \in Lines
  PROVE  /\ c \in Seq(STRING) /\ Len(c) \in Nat
         /\ FnameLength(c) \in 0 .. Len(c) /\ FnameLength(c) <= FILENAME_LEN
         /\ \A k \in 1 .. FnameLength(c) : c[k] # SPACE
         /\ \/ FnameLength(c) \in {Len(c), FILENAME_LEN}
            \/ c[FnameLength(c) + 1] = SPACE
<1> DEFINE S == {Len(c), FILENAME_LEN} \cup
                {n \in 0 .. Len(c) - 1 : c[n + 1] = SPACE}
           m == Min(S)
<1>1. c \in Seq(STRING) /\ Len(c) \in Nat
  BY LaunchAssumption
<1>2. S \subseteq Nat /\ S # {} /\ Len(c) \in S /\ FILENAME_LEN \in S
  BY <1>1, SizeAssumption
<1>3. FnameLength(c) = m
  BY DEF FnameLength
<1>4. m \in S /\ \A y \in S : m <= y
  <2> HIDE DEF S
  <2> QED
    BY <1>2, MinIsLeast
<1>5. \/ m \in {Len(c), FILENAME_LEN}
      \/ c[m + 1] = SPACE
  <2> HIDE DEF m
  <2> QED
    BY <1>4
<1>6. \A i \in 0 .. Len(c) - 1 : c[i + 1] = SPACE => i \in S
  OBVIOUS
<1> HIDE DEF m, S
<1>7. m \in Nat /\ m <= Len(c) /\ m <= FILENAME_LEN
  BY <1>2, <1>4
<1>8. ASSUME NEW k \in 1 .. m, c[k] = SPACE PROVE FALSE
  <2>1. k - 1 \in 0 .. Len(c) - 1 /\ (k - 1) + 1 = k /\ k - 1 < m
    BY <1>1, <1>7
  <2>2. k - 1 \in S
    BY <2>1, <1>6, <1>8
  <2> QED
    BY <2>1, <2>2, <1>4, <1>7
<1> QED
  BY <1>1, <1>3, <1>5, <1>7, <1>8

\* The string in a buffer ends before its first NUL.
LEMMA StringInBuffer ==
  ASSUME NEW b, NEW m \in DOMAIN b, DOMAIN b \subseteq Nat, b[m] = NUL,
         \A i \in DOMAIN b : i < m => b[i] # NUL
  PROVE  CString(b, 0) = [k \in 1 .. m |-> b[k - 1]]
<1> DEFINE S == {i \in DOMAIN b : i >= 0 /\ b[i] = NUL}
<1>1. m \in S /\ S \subseteq Nat
  OBVIOUS
<1>2. Min(S) \in S /\ Min(S) <= m
  BY <1>1, MinIsLeast
<1>3. Min(S) = m
  BY <1>1, <1>2
<1>4. CString(b, 0) = [k \in 1 .. Min(S) - 0 |-> b[0 + k - 1]]
  BY DEF CString
<1> HIDE DEF S
<1>5. m - 0 = m /\ \A k \in 1 .. m : 0 + k - 1 = k - 1
  BY <1>1
<1> QED
  BY <1>3, <1>4, <1>5

\* parse_command leaves the arguments of the line, and nothing behind them.
LEMMA ArgumentsOfLine ==
  ASSUME NEW c \in Lines, NEW old, NEW a, NEW n, NEW m,
         n = FnameLength(c),
         m = (IF n + 1 < Len(c) THEN Len(c) - n - 1 ELSE 0),
         a = [i \in 0 .. ARGLEN - 1 |->
                IF i < m THEN c[n + i + 2]
                ELSE IF i >= ClearFrom(c) THEN NUL ELSE old[i]]
  PROVE  m = Len(ArgsOf(c)) /\ CString(a, 0) = ArgsOf(c)
<1>1. c \in Seq(STRING) /\ Len(c) \in Nat /\ n \in 0 .. Len(c)
  BY FnameLengthFits
<1>2. Len(c) < ARGLEN /\ ARGLEN \in Nat
      /\ \A k \in 1 .. Len(c) : c[k] # NUL
  BY LaunchAssumption
<1>3. m \in 0 .. ARGLEN - 1 /\ ClearFrom(c) <= m /\ n + 1 + m <= Len(c) + 1
  BY <1>1, <1>2 DEF ClearFrom
<1>4. ArgsOf(c) = [k \in 1 .. m |-> c[n + 1 + k]] /\ Len(ArgsOf(c)) = m
  <2>1. CASE n + 1 < Len(c)
    <3>1. ArgsOf(c) = [k \in 1 .. Len(c) - (n + 2) + 1 |-> c[(n + 2) + k - 1]]
          /\ Len(ArgsOf(c)) = Len(c) - (n + 2) + 1
      BY <2>1, <1>1, SMTT(20) DEF ArgsOf
    <3>2. Len(c) - (n + 2) + 1 = m
          /\ \A k \in 1 .. m : (n + 2) + k - 1 = n + 1 + k
      BY <2>1, <1>1
    <3> QED
      BY <3>1, <3>2
  <2>2. CASE ~(n + 1 < Len(c))
    BY <2>2, <1>1 DEF ArgsOf
  <2> QED
    BY <2>1, <2>2
<1>5. DOMAIN a = 0 .. ARGLEN - 1 /\ DOMAIN a \subseteq Nat /\ m \in DOMAIN a
  BY <1>3
<1>6. a[m] = NUL
  BY <1>3, <1>1
<1>7. ASSUME NEW i \in DOMAIN a, i < m
      PROVE  a[i] = c[n + 1 + (i + 1)] /\ a[i] # NUL
  <2>1. n + i + 2 \in 1 .. Len(c) /\ n + i + 2 = n + 1 + (i + 1)
    BY <1>1, <1>3, <1>5, <1>7
  <2> QED
    BY <2>1, <1>2, <1>5, <1>7
<1>8. CString(a, 0) = [k \in 1 .. m |-> a[k - 1]]
  <2>1. m \in DOMAIN a /\ DOMAIN a \subseteq Nat
    BY <1>5
  <2>2. \A i \in DOMAIN a : i < m => a[i] # NUL
    BY <1>7
  <2> DEFINE b == a  q == m
  <2>3. q \in DOMAIN b /\ DOMAIN b \subseteq Nat /\ b[q] = NUL
        /\ \A i \in DOMAIN b : i < q => b[i] # NUL
    BY <2>1, <2>2, <1>6
  <2> HIDE DEF b, q
  <2>4. CString(b, 0) = [k \in 1 .. q |-> b[k - 1]]
    BY <2>3, StringInBuffer
  <2> QED
    BY <2>4 DEF b, q
<1>9. ASSUME NEW k \in 1 .. m PROVE a[k - 1] = c[n + 1 + k]
  <2>1. k - 1 \in 0 .. ARGLEN - 1 /\ k - 1 < m /\ (k - 1) + 1 = k
    BY <1>2, <1>3
  <2> QED
    BY <2>1, <1>5, <1>7
<1>10. [k \in 1 .. m |-> a[k - 1]] = [k \in 1 .. m |-> c[n + 1 + k]]
  BY <1>9, Zenon
<1> QED
  BY <1>4, <1>8, <1>10, Zenon

LEMMA CommandParsed ==
  ASSUME NEW c \in Lines, parse_command(c)
  PROVE  Parsed(c)'
<1>1. /\ fname' \in FnamesParsed(c)
      /\ arg_length' = IF FnameLength(c) + 1 < Len(c)
                         THEN Len(c) - FnameLength(c) - 1 ELSE 0
      /\ arg' = [i \in 0 .. ARGLEN - 1 |->
                   IF i < arg_length' THEN c[FnameLength(c) + i + 2]
                   ELSE IF i >= ClearFrom(c) THEN NUL ELSE arg[i]]
  BY DEF parse_command
<1>2. arg_length' = Len(ArgsOf(c)) /\ CString(arg', 0) = ArgsOf(c)
  BY <1>1, ArgumentsOfLine
<1> QED
  BY <1>1, <1>2 DEF Parsed

(***************************************************************************)
(* The steps of the shell.                                                 *)
(***************************************************************************)
Kept == SInv' /\ [Promises!Next]_(Promises!vars)

\* Between programs and at the two ends of one there are no locals to mind.
LEMMA NoLocalsAfter ==
  prog' = "none" \/ pc' \in {"start", "exit"} => LocalInv'
BY DEF LocalInv, CopyInv, GrepInv, SyserrInv, At

LEMMA SamePromises ==
  ASSUME UNCHANGED vars PROVE UNCHANGED Promises!vars
BY SameOpen DEF vars, Promises!vars

LEMMA BootKept == ASSUME SInv, Boot PROVE Kept
<1>1. IInv' /\ Promises!Start(Shell)
  BY LaunchAssumption, ExecuteIInv, ExecuteStarts, SamePromise DEF SInv, Boot
<1>2. Promises!Next
  BY <1>1, LaunchAssumption DEF Promises!Next
<1>3. sh = "boot" /\ sh' = "prompt" /\ prog' = prog /\ ending' = ending
  BY DEF Boot, child
<1>4. prog = "none" /\ ending = NotEnded
  BY <1>3 DEF SInv, ShellInv, EndInv
<1>5. NoneOpen(Shell)'
  <2>1. f_desc' = [f_desc EXCEPT ![Shell] = Fresh(f_desc[Shell])]
        /\ DOMAIN f_desc = Slots
    BY DEF Boot, Execute, SInv, IInv
  <2>2. f_desc'[Shell] = Fresh(f_desc[Shell])
    BY <2>1, LaunchAssumption
  <2> QED
    BY <2>2, DescriptorAssumption DEF NoneOpen, Fresh, Cleared, Regular
<1>6. ShellInv'
  BY <1>3, <1>4, <1>5 DEF ShellInv
<1>7. EndInv'
  BY <1>3, <1>4 DEF EndInv, ShellReports, NotEnded
<1>8. ArgsInv'
  BY <1>3 DEF ArgsInv
<1> QED
  BY <1>1, <1>2, <1>3, <1>4, <1>6, <1>7, <1>8, NoLocalsAfter DEF SInv, Kept

\* Waiting for a line at the keyboard.
LEMMA KeyboardRead ==
  ASSUME IInv, NEW s \in Slots, Read(s, 0, BUFSIZE - 1, FALSE)
  PROVE  /\ s \in live /\ Moves(s) /\ IInv' /\ Promises!Read(s, 0)
         /\ 0 \in AllFdArgs
<1> DEFINE fd == 0  n == BUFSIZE - 1
<1>1. fd \in Int /\ n \in Int /\ fd = 0 /\ fd \in AllFdArgs
  BY LaunchAssumption, DescriptorAssumption DEF AllFdArgs
<1>2. Read(s, fd, n, FALSE)
  OBVIOUS
<1> HIDE DEF fd, n
<1>3. s \in live /\ Moves(s) /\ IInv'
  BY <1>1, <1>2, ReadDoes, ReadIInv
<1>4. Promises!Read(s, fd)
  BY <1>1, <1>2, PromisedRead
<1> QED
  BY <1>1, <1>3, <1>4

LEMMA ShellReadKept == ASSUME SInv, ShellRead PROVE Kept
<1>1. /\ sh = "prompt" /\ sh' = "ready" /\ prog' = prog /\ line' \in Lines
      /\ ending' = NotEnded /\ Read(Shell, 0, BUFSIZE - 1, FALSE)
  BY DEF ShellRead
<1>2. prog = "none" /\ IInv /\ BUFSIZE - 1 \in Int /\ Shell \in Slots
  BY <1>1, LaunchAssumption DEF SInv, ShellInv
<1>3. /\ Shell \in live /\ Moves(Shell) /\ IInv' /\ Promises!Read(Shell, 0)
      /\ 0 \in AllFdArgs
  BY <1>1, <1>2, KeyboardRead
<1>5. Promises!Next
  BY <1>2, <1>3 DEF Promises!Next
<1>6. NoneOpen(Shell)'
  BY <1>3, DescriptorAssumption DEF SInv, ShellInv, NoneOpen, Moves, Regular
<1>7. ShellInv'
  BY <1>1, <1>2, <1>6 DEF ShellInv
<1>8. EndInv' /\ ArgsInv'
  BY <1>1 DEF EndInv, ShellReports, ArgsInv
<1> QED
  BY <1>1, <1>2, <1>3, <1>5, <1>7, <1>8, NoLocalsAfter DEF SInv, Kept

\* The shell that sys_halt executes in the slot has nothing open, as the one
\* before.
LEMMA ShellExitKept == ASSUME SInv, ShellExit PROVE Kept
<1> DEFINE row == Fresh(Closed(f_desc[Shell]))
<1>1. /\ sh = "ready" /\ sh' = "prompt" /\ prog' = prog /\ ending' = ending
      /\ f_desc' = [f_desc EXCEPT ![Shell] = row]
      /\ UNCHANGED <<live, call, ret>>
  BY DEF ShellExit, child
<1>2. /\ prog = "none" /\ ending = NotEnded /\ IInv /\ Shell \in Slots
      /\ f_desc[Shell] \in Rows /\ DOMAIN f_desc = Slots
  BY <1>1, LaunchAssumption DEF SInv, ShellInv, EndInv, IInv
<1>3. row \in Rows /\ Usable(row)
  BY <1>2, ClosedIsRow, FreshIsUsable
<1>4. IInv'
  BY <1>1, <1>2, <1>3, RowReplaced
<1>5. \A fd \in Regular : row[fd].flag = 1
  BY DescriptorAssumption DEF Fresh, Cleared, Regular
<1>6. open' = open
  <2>1. Used(row) = {}
    BY <1>5 DEF Used
  <2>2. SeenBy(Shell \in live, row) = Abstract!NoFiles
    BY <2>1 DEF SeenBy, View, Abstract!NoFiles
  <2>3. SeenBy(Shell \in live, f_desc[Shell]) = Abstract!NoFiles
    <3>1. CASE Shell \in live
      <4>1. Used(f_desc[Shell]) = {}
        BY <3>1 DEF SInv, ShellInv, NoneOpen, Used
      <4> QED
        BY <4>1 DEF SeenBy, View, Abstract!NoFiles
    <3>2. CASE Shell \notin live
      BY <3>2 DEF SeenBy
    <3> QED
      BY <3>1, <3>2
  <2> HIDE DEF row
  <2>4. open' = [open EXCEPT ![Shell] = Abstract!NoFiles]
    BY <1>1, <1>2, <2>2, OpenReplaced
  <2>5. open[Shell] = Abstract!NoFiles
        /\ open = [s \in Slots |-> SeenBy(s \in live, f_desc[s])]
    BY <1>2, <2>3, OpenIsView
  <2> QED
    BY <2>4, <2>5
<1>7. f_desc'[Shell] = row
  BY <1>1, <1>2
<1>8. ShellInv'
  BY <1>1, <1>2, <1>5, <1>7 DEF ShellInv, NoneOpen
<1>9. EndInv' /\ ArgsInv'
  BY <1>1, <1>2 DEF EndInv, ShellReports, NotEnded, ArgsInv
<1> QED
  BY <1>1, <1>2, <1>4, <1>6, <1>8, <1>9, NoLocalsAfter
     DEF SInv, Kept, Promises!vars

LEMMA ShellSkipKept == ASSUME SInv, ShellSkip PROVE Kept
<1>1. /\ sh = "ready" /\ sh' = "prompt" /\ prog' = prog /\ ending' = ending
      /\ UNCHANGED vars
  BY DEF ShellSkip, child
<1>2. prog = "none" /\ ending = NotEnded /\ IInv
  BY <1>1 DEF SInv, ShellInv, EndInv
<1>3. IInv' /\ UNCHANGED Promises!vars
  BY <1>1, <1>2, SameIInv, SamePromises DEF vars
<1>4. ShellInv' /\ EndInv' /\ ArgsInv'
  BY <1>1, <1>2
     DEF SInv, ShellInv, EndInv, ShellReports, NotEnded, ArgsInv, vars, NoneOpen
<1> QED
  BY <1>1, <1>2, <1>3, <1>4, NoLocalsAfter DEF SInv, Kept

\* What the shell says follows from the value that sys_execute returned.
LEMMA ShellReportKept == ASSUME SInv, ShellReport PROVE Kept
<1>1. /\ sh = "report" /\ sh' = "prompt" /\ prog' = prog /\ ending' = ending
      /\ report' = CASE rval = -1 -> "no such command"
                     [] rval = haltret -> "program terminated by exception"
                     [] rval \notin {-1, 0, haltret} ->
                          "program terminated abnormally"
                     [] rval = 0 -> "none"
      /\ UNCHANGED vars
  BY DEF ShellReport, child
<1>2. /\ prog = "none" /\ IInv
      /\ \/ ending.how = "refused" /\ rval = -1
         \/ Ended /\ rval = Returned(ending.status)
  BY <1>1 DEF SInv, ShellInv, EndInv
<1>3. IInv' /\ UNCHANGED Promises!vars
  BY <1>1, <1>2, SameIInv, SamePromises DEF vars
<1>4. ShellInv' /\ ArgsInv'
  BY <1>1, <1>2 DEF SInv, ShellInv, ArgsInv, vars, NoneOpen
<1>5. /\ rval = -1 => report' = "no such command"
      /\ rval = 256 => report' = "program terminated by exception"
      /\ rval = 0 => report' = "none"
      /\ rval \in 1 .. 254 => report' = "program terminated abnormally"
  <2>1. ASSUME rval = -1 PROVE report' = "no such command"
    <3>1. rval # haltret /\ rval # 0
      BY <2>1 DEF haltret
    <3> QED
      BY <1>1, <2>1, <3>1
  <2>2. ASSUME rval = 256 PROVE report' = "program terminated by exception"
    <3>1. rval # -1 /\ rval # 0 /\ rval = haltret
      BY <2>2 DEF haltret
    <3> QED
      BY <1>1, <3>1
  <2>3. ASSUME rval = 0 PROVE report' = "none"
    <3>1. rval # haltret /\ rval # -1
      BY <2>3 DEF haltret
    <3> QED
      BY <1>1, <2>3, <3>1
  <2>4. ASSUME rval \in 1 .. 254
        PROVE  report' = "program terminated abnormally"
    <3>1. rval \notin {-1, 0, haltret} /\ rval # -1 /\ rval # haltret
          /\ rval # 0
      BY <2>4 DEF haltret
    <3> QED
      BY <1>1, <3>1
  <2> QED
    BY <2>1, <2>2, <2>3, <2>4
<1>6. ShellReports'
  <2>1. CASE ending.how = "refused" /\ rval = -1
    BY <2>1, <1>1, <1>5 DEF ShellReports
  <2>2. CASE Ended /\ rval = Returned(ending.status)
    <3>1. ending.status % 256 \in 0 .. 255
      BY <2>2 DEF Ended
    <3>2. CASE ending.status % 256 = 255
      <4>1. rval = 256
        BY <2>2, <3>2 DEF Returned, haltnum, haltret
      <4> QED
        BY <1>1, <1>5, <2>2, <3>2, <4>1 DEF ShellReports, Ended, haltnum
    <3>3. CASE ending.status % 256 # 255
      <4>1. rval = ending.status % 256 /\ ending.how = "exit"
        BY <2>2, <3>1, <3>3 DEF Returned, haltnum, haltret, Ended
      <4>2. report' = IF ending.status % 256 = 0 THEN "none"
                      ELSE "program terminated abnormally"
        <5>1. CASE ending.status % 256 = 0
          BY <1>5, <4>1, <5>1
        <5>2. CASE ending.status % 256 # 0
          <6>1. rval \in 1 .. 254
            BY <3>1, <3>3, <4>1, <5>2
          <6> QED
            BY <1>5, <5>2, <6>1
        <5> QED
          BY <5>1, <5>2
      <4> QED
        BY <1>1, <4>1, <4>2 DEF ShellReports
    <3> QED
      BY <3>2, <3>3
  <2> QED
    BY <1>2, <2>1, <2>2
<1>7. EndInv'
  BY <1>1, <1>6 DEF EndInv
<1> QED
  BY <1>1, <1>2, <1>3, <1>4, <1>7, NoLocalsAfter DEF SInv, Kept

(***************************************************************************)
(* sys_execute and sys_halt.                                               *)
(***************************************************************************)
\* What is loaded is the file that was found, from its beginning to its end.
LEMMA LoadsFile ==
  ASSUME NEW i \in 1 .. Len(direntries), Texts[direntries[i].inode_num] # <<>>
  PROVE  loader(i) = Texts[direntries[i].inode_num][2]
<1> DEFINE n == direntries[i].inode_num
           t == Texts[n]
           k == WORD - 1
<1>1. n \in Inodes
  BY DirectoryAssumption DEF Inodes
<1>2. t \in Seq(STRING) /\ Len(t) \in Nat /\ Len(t) < WORD
  BY <1>1, ImageAssumption DEF Inodes
<1>3. Len(t) > 0
  BY <1>2
<1>4. k \in Nat \ {0} /\ Least(0 + k, Len(t)) = Len(t)
  BY <1>2, <1>3, SizeAssumption DEF Least
<1>5. read_data(n, 0, FALSE, k) = Bytes(SubSeq(t, 0 + 1, Least(0 + k, Len(t))))
  <2> DEFINE z == 0
  <2>1. z \in Nat /\ z < Len(t)
    BY <1>3
  <2> HIDE DEF z, k, n
  <2>2. read_data(n, z, FALSE, k)
          = Bytes(SubSeq(Texts[n], z + 1, Least(z + k, Len(Texts[n]))))
    BY <1>1, <1>4, <2>1, ReadGivesText
  <2> QED
    BY <2>2 DEF z
<1>6. SubSeq(t, 0 + 1, Least(0 + k, Len(t))) = t
  <2>1. SubSeq(t, 1, Len(t)) = t
    BY <1>2
  <2> HIDE DEF t, k
  <2> QED
    BY <1>4, <2>1
<1>7. Content(i) = t
  <2>1. Bytes(t).bytes = t
    BY DEF Bytes
  <2>2. read_data(n, 0, FALSE, k) = Bytes(t)
    BY <1>5, <1>6
  <2>3. Content(i) = read_data(n, 0, FALSE, k).bytes
    BY DEF Content
  <2> HIDE DEF t, n, k
  <2> QED
    BY <2>1, <2>2, <2>3
<1> HIDE DEF t
<1> QED
  BY <1>3, <1>7 DEF loader, t

LEMMA FoundIsEntry ==
  ASSUME NEW name, EntriesFor(name) # {}
  PROVE  FirstEntry(name) \in 1 .. Len(direntries)
<1>1. EntriesFor(name) \subseteq 1 .. Len(direntries)
  BY DEF EntriesFor
<1>2. EntriesFor(name) \subseteq Nat
  BY <1>1
<1>3. Min(EntriesFor(name)) \in EntriesFor(name)
  BY <1>2, MinIsLeast
<1> QED
  BY <1>1, <1>3 DEF FirstEntry

LEMMA RefusedKept == ASSUME SInv, ShellExecute, Refused PROVE Kept
<1>1. /\ sh = "ready" /\ sh' = "report" /\ rval' = -1
      /\ ending' = [how |-> "refused"] /\ prog' = prog /\ UNCHANGED vars
  BY DEF ShellExecute, Refused
<1>2. prog = "none" /\ IInv
  BY <1>1 DEF SInv, ShellInv
<1>3. IInv' /\ UNCHANGED Promises!vars
  BY <1>1, <1>2, SameIInv, SamePromises DEF vars
<1>4. ShellInv' /\ EndInv' /\ ArgsInv'
  BY <1>1, <1>2
     DEF SInv, ShellInv, EndInv, ShellReports, ArgsInv, vars, NoneOpen
<1> QED
  BY <1>1, <1>2, <1>3, <1>4, NoLocalsAfter DEF SInv, Kept

LEMMA LaunchedKept ==
  ASSUME SInv, ShellExecute, EntriesFor(fname') # {},
         Launched(FirstEntry(fname'))
  PROVE  Kept
<1> DEFINE i == FirstEntry(fname')
<1>1. /\ sh = "ready" /\ sh' = "wait" /\ prog' = loader(i) /\ pc' = "start"
      /\ ending' = ending /\ line' = line /\ Execute(Child)
      /\ parse_command(line)
  BY DEF ShellExecute, Launched, sys_execute
<1>2. /\ ending = NotEnded /\ IInv /\ line \in Lines
      /\ Shell \in Slots /\ Child \in Slots /\ Shell # Child
  BY <1>1, LaunchAssumption DEF SInv, ShellInv, EndInv
<1>3. IInv' /\ Promises!Start(Child)
  BY <1>1, <1>2, ExecuteIInv, ExecuteStarts, SamePromise
<1>4. Promises!Next
  BY <1>2, <1>3 DEF Promises!Next
<1>5. ShellInv'
  <2>1. live' = live \cup {Child} /\ f_desc'[Shell] = f_desc[Shell]
    BY <1>1, <1>2 DEF Execute, IInv
  <2> QED
    BY <1>1, <1>2, <2>1 DEF SInv, ShellInv, NoneOpen
<1>6. EndInv'
  BY <1>1, <1>2 DEF EndInv, ShellReports
<1>7. ArgsInv'
  <2>1. Parsed(line)'
    <3>1. PICK c \in Lines : c = line
      BY <1>2
    <3>2. Parsed(c)'
      BY <1>1, <3>1, CommandParsed
    <3> QED
      BY <1>1, <3>1, <3>2 DEF Parsed
  <2>2. i \in 1 .. Len(direntries)
    BY FoundIsEntry
  <2>3. Texts[direntries[i].inode_num] # <<>> =>
          prog' = Texts[direntries[i].inode_num][2]
    <3> HIDE DEF i
    <3> QED
      BY <1>1, <2>2, LoadsFile
  <2> QED
    BY <1>1, <2>1, <2>3 DEF ArgsInv
<1> QED
  BY <1>1, <1>3, <1>4, <1>5, <1>6, <1>7, NoLocalsAfter DEF SInv, Kept

LEMMA ShellExecuteKept == ASSUME SInv, ShellExecute PROVE Kept
<1>1. sys_execute(line)
  BY DEF ShellExecute
<1>2. \/ Refused
      \/ EntriesFor(fname') # {} /\ Launched(FirstEntry(fname'))
  BY <1>1 DEF sys_execute
<1> QED
  BY <1>2, RefusedKept, LaunchedKept

LEMMA ShellKept == ASSUME SInv, ShellNext PROVE Kept
BY BootKept, ShellReadKept, ShellExitKept, ShellSkipKept, ShellExecuteKept,
   ShellReportKept DEF ShellNext

\* sys_halt gives the shell the status as sys_execute returns it.
LEMMA ChildHaltsKept == ASSUME SInv, ChildHalts PROVE Kept
<1>1. /\ prog # "none" /\ pc = "exit" /\ Halt(Child) /\ sh' = "report"
      /\ rval' = Returned(ending.status) /\ prog' = "none"
      /\ ending' = ending
  BY DEF ChildHalts
<1>2. /\ IInv /\ sh = "wait" /\ Ended
      /\ Shell \in Slots /\ Child \in Slots /\ Shell # Child
  BY <1>1, LaunchAssumption DEF SInv, ShellInv, EndInv
<1>3. IInv' /\ Promises!End(Child)
  BY <1>1, <1>2, HaltIInv, HaltEnds, SamePromise
<1>4. Promises!Next
  BY <1>2, <1>3 DEF Promises!Next
<1>5. ShellInv'
  <2>1. live' = live \ {Child} /\ f_desc'[Shell] = f_desc[Shell]
    BY <1>1, <1>2 DEF Halt, IInv
  <2> QED
    BY <1>1, <1>2, <2>1 DEF SInv, ShellInv, NoneOpen
<1>6. EndInv' /\ ArgsInv'
  BY <1>1, <1>2 DEF EndInv, ShellReports, ArgsInv, Ended
<1> QED
  BY <1>1, <1>3, <1>4, <1>5, <1>6, NoLocalsAfter DEF SInv, Kept

(***************************************************************************)
(* The steps of programs.                                                  *)
(***************************************************************************)
\* A step goes on, or the program comes to an end.
Goes == IF pc' = "exit" THEN Ended' ELSE ending' = NotEnded
Running == prog # "none" /\ pc # "exit"

LEMMA RunningFacts ==
  ASSUME SInv, Running
  PROVE  /\ IInv /\ sh = "wait" /\ ending = NotEnded /\ line \in Lines
         /\ Parsed(line) /\ LocalInv
         /\ Child \in Slots /\ Shell \in Slots /\ Child # Shell
BY LaunchAssumption DEF SInv, Running, ShellInv, EndInv, ArgsInv

LEMMA StepKept ==
  ASSUME SInv, Running, UNCHANGED <<kernel, shell, prog>>,
         ProgramCall, Goes, LocalInv'
  PROVE  Kept
<1>1. /\ IInv /\ sh = "wait" /\ line \in Lines /\ prog # "none"
  BY RunningFacts DEF Running
<1>2. /\ IInv' /\ live' = live /\ f_desc'[Shell] = f_desc[Shell]
      /\ [Promises!Next]_(Promises!vars)
  BY <1>1, CallKeepsFiles
<1>3. /\ sh' = sh /\ line' = line /\ rval' = rval /\ report' = report
      /\ prog' = prog /\ fname' = fname /\ arg' = arg
      /\ arg_length' = arg_length
  BY DEF kernel, shell
<1>4. ShellInv'
  BY <1>1, <1>2, <1>3 DEF SInv, ShellInv, NoneOpen
<1>5. EndInv'
  BY <1>1, <1>3 DEF EndInv, ShellReports, Goes
<1>6. ArgsInv'
  BY <1>1, <1>3 DEF SInv, ArgsInv, Parsed
<1> QED
  BY <1>2, <1>4, <1>5, <1>6 DEF SInv, Kept

LEMMA GoGoes ==
  ASSUME SInv, Running, NEW l, l # "exit", NEW m, Go(l, m)
  PROVE  Goes /\ pc' = l /\ loc' = m
BY RunningFacts DEF Go, Goes

LEMMA ExitGoes ==
  ASSUME NEW status \in Int, Exit(status)
  PROVE  Goes /\ pc' = "exit" /\ LocalInv'
BY NoLocalsAfter DEF Exit, Goes, Ended

LEMMA FailGoes ==
  ASSUME NEW status \in Int, NEW message, Fail(message, status)
  PROVE  Goes /\ pc' = "exit" /\ LocalInv'
BY ExitGoes DEF Fail

LEMMA RaiseKept ==
  ASSUME SInv, Running, UNCHANGED <<kernel, shell, prog>>, NEW v, Raise(v)
  PROVE  Kept
<1>1. /\ pc' = "exit" /\ ending' = [how |-> "fault", status |-> haltnum]
      /\ UNCHANGED vars
  BY DEF Raise, signal_delivery
<1>2. Goes
  BY <1>1 DEF Goes, Ended, haltnum
<1> QED
  BY <1>1, <1>2, StepKept, NoLocalsAfter DEF ProgramCall

\* getargs gives the arguments on the line.
LEMMA ArgumentIsName ==
  ASSUME SInv, Running, sys_getargs(BUFSIZE).code = 0
  PROVE  sys_getargs(BUFSIZE).bytes \in AllNames
<1>1. line \in Lines /\ CString(arg, 0) = ArgsOf(line)
  BY RunningFacts DEF Parsed
<1>2. Failed.code = -1
  BY DEF Failed
<1>3. sys_getargs(BUFSIZE) = [code |-> 0, bytes |-> CString(arg, 0)]
  BY <1>2 DEF sys_getargs
<1> DEFINE b == CString(arg, 0)
<1> HIDE DEF b
<1>4. [code |-> 0, bytes |-> b].bytes = b
  OBVIOUS
<1> QED
  BY <1>1, <1>3, <1>4 DEF ArgsOf, AllNames, b

\* The descriptor that a program goes on with is open.
LEMMA OpenOrFailDoes ==
  ASSUME SInv, Running, NEW name, NEW message, OpenOrFail(name, message)
  PROVE  /\ Goes
         /\ \/ pc' = "exit"
            \/ /\ pc' = "read" /\ loc'.fd \in Regular
               /\ f_desc'[Child][loc'.fd].flag = 0
               /\ \E i \in EntriesFor(name) :
                    f_desc'[Child][loc'.fd].ops = direntries[i].filetype
<1>1. Open(Child, name) /\ IInv /\ Child \in Slots
  BY RunningFacts DEF OpenOrFail
<1>2. CASE ret'.code = -1
  <2>1. Fail(message, 2)
    BY <1>2 DEF OpenOrFail
  <2> QED
    BY <2>1, FailGoes
<1>3. CASE ret'.code # -1
  <2>1. Go("read", [fd |-> ret'.code, dirty |-> FALSE])
    BY <1>3 DEF OpenOrFail
  <2>2. Goes /\ pc' = "read" /\ loc' = [fd |-> ret'.code, dirty |-> FALSE]
    BY <2>1, GoGoes
  <2>3. loc'.fd = ret'.code
    BY <2>2
  <2>4. /\ ret'.code \in FreeFds(Child) /\ Sets(Child, ret'.code, 0)
        /\ \E i \in EntriesFor(name) :
             f_desc'[Child][ret'.code].ops = direntries[i].filetype
    BY <1>1, <1>3, OpenDoes
  <2> QED
    BY <2>2, <2>3, <2>4 DEF FreeFds, Sets
<1> QED
  BY <1>2, <1>3

LEMMA RegularArgs == Regular \subseteq AllFdArgs /\ 0 .. UPPB \subseteq AllFdArgs
BY DescriptorAssumption DEF Regular, AllFdArgs

LEMMA SomeSizes ==
  /\ BUFSIZE \in Nat /\ FILENAME_LEN \in Nat /\ SBUFSIZE = FILENAME_LEN + 1
  /\ 0 .. BUFSIZE + SBUFSIZE \subseteq AllSizes /\ 31 \in AllSizes
BY LaunchAssumption, SizeAssumption, ProgramAssumption DEF AllSizes

\* What a read of an open file by a program may give.
LEMMA ProgramReads ==
  ASSUME IInv, NEW fd \in Regular, NEW n \in Nat, n \in AllSizes,
         Read(Child, fd, n, FALSE)
  PROVE  /\ ProgramCall /\ Child \in live /\ Moves(Child)
         /\ ret'.bytes \in Seq(STRING) /\ Len(ret'.bytes) <= n
         /\ ret'.code = -1 \/ ret'.code = Len(ret'.bytes)
<1>1. fd \in AllFdArgs /\ fd \in Int /\ n \in Int /\ Child \in Slots
  BY RegularArgs, FdArgsAreInt, LaunchAssumption
<1>2. \E null \in BOOLEAN : Read(Child, fd, n, null)
  OBVIOUS
<1>3. ProgramCall
  BY <1>1, <1>2 DEF ProgramCall
<1> QED
  BY <1>1, <1>3, ReadDoes

\* cat and ls only care for the descriptor they read and what it gave.
LEMMA CopyLocals ==
  ASSUME prog' \in {"cat", "ls"}, CopyInv' PROVE LocalInv'
BY DEF LocalInv, GrepInv, SyserrInv, At

LEMMA CatStartKept ==
  ASSUME SInv, UNCHANGED <<kernel, shell, prog>>, CatStart PROVE Kept
<1>1. prog = "cat" /\ pc = "start" /\ Running /\ prog' = prog
  BY DEF CatStart, At, Running
<1>2. CASE sys_getargs(BUFSIZE).code # 0
  <2>1. Fail("could not read arguments", 3) /\ UNCHANGED vars
    BY <1>2 DEF CatStart
  <2>2. Goes /\ LocalInv'
    <3> DEFINE message == "could not read arguments"
    <3>1. Fail(message, 3)
      BY <2>1
    <3> HIDE DEF message
    <3> QED
      BY <3>1, FailGoes
  <2> QED
    BY <1>1, <2>1, <2>2, StepKept DEF ProgramCall
<1>3. CASE sys_getargs(BUFSIZE).code = 0
  <2> DEFINE name == sys_getargs(BUFSIZE).bytes
  <2>1. OpenOrFail(name, "file not found") /\ name \in AllNames
    BY <1>1, <1>3, ArgumentIsName DEF CatStart
  <2> HIDE DEF name
  <2>2. ProgramCall
    BY <2>1 DEF OpenOrFail, ProgramCall
  <2>3. /\ Goes
        /\ pc' = "exit" \/ (pc' = "read" /\ loc'.fd \in Regular)
    BY <1>1, <2>1, OpenOrFailDoes
  <2>4. LocalInv'
    BY <1>1, <2>3, CopyLocals DEF CopyInv
  <2> QED
    BY <1>1, <2>2, <2>3, <2>4, StepKept
<1> QED
  BY <1>2, <1>3

LEMMA LsStartKept ==
  ASSUME SInv, UNCHANGED <<kernel, shell, prog>>, LsStart PROVE Kept
<1>1. /\ prog = "ls" /\ pc = "start" /\ Running /\ prog' = prog
      /\ OpenOrFail(<<".">>, "directory open failed")
  BY DEF LsStart, At, Running
<1>2. ProgramCall
  BY <1>1 DEF OpenOrFail, ProgramCall, AllNames
<1>3. /\ Goes
      /\ pc' = "exit" \/ (pc' = "read" /\ loc'.fd \in Regular)
  BY <1>1, OpenOrFailDoes
<1>4. LocalInv'
  BY <1>1, <1>3, CopyLocals DEF CopyInv
<1> QED
  BY <1>1, <1>2, <1>3, <1>4, StepKept

LEMMA CopyReadKept ==
  ASSUME SInv, UNCHANGED <<kernel, shell, prog>>, NEW p \in {"cat", "ls"},
         NEW size \in {BUFSIZE, SBUFSIZE - 1}, NEW message,
         CopyRead(p, size, message)
  PROVE  Kept
<1>1. /\ prog \in {"cat", "ls"} /\ pc = "read" /\ Running /\ prog' = prog
      /\ Read(Child, loc.fd, size, FALSE)
  BY DEF CopyRead, At, Running
<1>2. /\ IInv /\ Child \in Slots /\ loc.fd \in Regular
      /\ size \in Nat /\ size \in AllSizes /\ size <= BUFSIZE + FILENAME_LEN
  BY <1>1, RunningFacts, SomeSizes DEF LocalInv, CopyInv
<1>3. PICK fd \in Regular : fd = loc.fd
  BY <1>2
<1>4. Read(Child, fd, size, FALSE)
  BY <1>1, <1>3
<1>5. /\ ProgramCall
      /\ ret'.bytes \in Seq(STRING) /\ Len(ret'.bytes) <= size
      /\ ret'.code = -1 \/ ret'.code = Len(ret'.bytes)
  BY <1>2, <1>4, ProgramReads
<1>6. ret'.code = 0 \/ ret'.code = -1 \/ ret'.code > 0
  BY <1>5
<1>7. CASE ret'.code = 0
  <2>1. Exit(0)
    BY <1>7 DEF CopyRead
  <2> QED
    BY <1>1, <1>5, <2>1, ExitGoes, StepKept
<1>8. CASE ret'.code = -1
  <2>1. Fail(message, 3)
    BY <1>8 DEF CopyRead
  <2> QED
    BY <1>1, <1>5, <2>1, FailGoes, StepKept
<1>9. CASE ret'.code > 0
  <2>1. Go("write", loc)
    <3>1. ret'.code # 0 /\ ret'.code # -1
      BY <1>9, <1>5
    <3> QED
      BY <1>9, <3>1 DEF CopyRead
  <2>2. Goes /\ pc' = "write" /\ loc' = loc
    BY <1>1, <2>1, GoGoes
  <2>3. Len(ret'.bytes) <= BUFSIZE + FILENAME_LEN
    BY <1>2, <1>5, SomeSizes
  <2>4. LocalInv'
    BY <1>1, <1>2, <1>5, <2>2, <2>3, CopyLocals DEF CopyInv
  <2> QED
    BY <1>1, <1>5, <2>2, <2>4, StepKept
<1> QED
  BY <1>6, <1>7, <1>8, <1>9

LEMMA CopyWriteKept ==
  ASSUME SInv, UNCHANGED <<kernel, shell, prog>>, NEW p \in {"cat", "ls"},
         NEW tail, CopyWrite(p, tail),
         \A s \in Seq(STRING) : /\ Len(s \o tail) \in Nat
                               /\ Len(s \o tail) <= Len(s) + 1
  PROVE  Kept
<1> DEFINE size == Len(ret.bytes \o tail)
<1>1. /\ prog \in {"cat", "ls"} /\ pc = "write" /\ Running /\ prog' = prog
      /\ Write(Child, 1, size, FALSE)
  BY DEF CopyWrite, At, Running
<1>2. /\ IInv /\ Child \in Slots /\ loc.fd \in Regular
      /\ ret.bytes \in Seq(STRING)
      /\ Len(ret.bytes) <= BUFSIZE + FILENAME_LEN
  BY <1>1, RunningFacts DEF LocalInv, CopyInv
<1>3. size \in Nat /\ size <= BUFSIZE + SBUFSIZE
  BY <1>2, SomeSizes
<1>4. size \in AllSizes \cap Int
  <2> HIDE DEF size
  <2> QED
    BY <1>3, SomeSizes
<1>5. ProgramCall
  <2> HIDE DEF size
  <2>1. 1 \in AllFdArgs
    BY RegularArgs, DescriptorAssumption
  <2> QED
    BY <1>1, <1>4, <2>1 DEF ProgramCall
<1>6. CASE ret'.code = -1
  <2>1. Exit(3)
    BY <1>6 DEF CopyWrite
  <2> QED
    BY <1>1, <1>5, <2>1, ExitGoes, StepKept
<1>7. CASE ret'.code # -1
  <2>1. Go("read", loc)
    BY <1>7 DEF CopyWrite
  <2>2. Goes /\ pc' = "read" /\ loc' = loc
    BY <1>1, <2>1, GoGoes
  <2>3. LocalInv'
    BY <1>1, <1>2, <2>2, CopyLocals DEF CopyInv
  <2> QED
    BY <1>1, <1>5, <2>2, <2>3, StepKept
<1> QED
  BY <1>6, <1>7

LEMMA CatKept == ASSUME SInv, UNCHANGED <<kernel, shell, prog>>, Cat PROVE Kept
<1>1. \A s \in Seq(STRING) : Len(s \o <<>>) \in Nat
                             /\ Len(s \o <<>>) <= Len(s) + 1
  OBVIOUS
<1>2. CASE CatStart
  BY <1>2, CatStartKept
<1>3. CASE CopyRead("cat", BUFSIZE, "file read failed")
  BY <1>3, CopyReadKept
<1>4. CASE CopyWrite("cat", <<>>)
  BY <1>1, <1>4, CopyWriteKept
<1> QED
  BY <1>2, <1>3, <1>4 DEF Cat

LEMMA LsKept == ASSUME SInv, UNCHANGED <<kernel, shell, prog>>, Ls PROVE Kept
<1>1. \A s \in Seq(STRING) : Len(s \o <<NEWLINE>>) \in Nat
                             /\ Len(s \o <<NEWLINE>>) <= Len(s) + 1
  OBVIOUS
<1>2. CASE LsStart
  BY <1>2, LsStartKept
<1>3. CASE CopyRead("ls", SBUFSIZE - 1, "directory entry read failed")
  BY <1>3, CopyReadKept
<1>4. CASE CopyWrite("ls", <<NEWLINE>>)
  BY <1>1, <1>4, CopyWriteKept
<1> QED
  BY <1>2, <1>3, <1>4 DEF Ls

(***************************************************************************)
(* grep.                                                                   *)
(***************************************************************************)
LEMMA GrepLocals ==
  ASSUME prog' = "grep", GrepInv' PROVE LocalInv'
BY DEF LocalInv, CopyInv, SyserrInv, At

\* A read keeps every descriptor what it was.
LEMMA MovesUsing ==
  ASSUME IInv, NEW fd, NEW kind, Using(fd, kind), Moves(Child)
  PROVE  Using(fd, kind)'
BY DescriptorAssumption DEF Using, Moves, Regular

LEMMA GrepStartKept ==
  ASSUME SInv, UNCHANGED <<kernel, shell, prog>>, GrepStart PROVE Kept
<1>1. prog = "grep" /\ pc = "start" /\ Running /\ prog' = prog
  BY DEF GrepStart, At, Running
<1>2. CASE sys_getargs(BUFSIZE).code # 0
  <2>1. Fail("could not read argument", 3) /\ UNCHANGED vars
    BY <1>2 DEF GrepStart
  <2>2. Goes /\ LocalInv'
    <3> DEFINE message == "could not read argument"
    <3>1. Fail(message, 3)
      BY <2>1
    <3> HIDE DEF message
    <3> QED
      BY <3>1, FailGoes
  <2> QED
    BY <1>1, <2>1, <2>2, StepKept DEF ProgramCall
<1>3. CASE sys_getargs(BUFSIZE).code = 0
  <2>1. OpenOrFail(<<".">>, "directory open failed")
    BY <1>3 DEF GrepStart
  <2>2. ProgramCall
    BY <2>1 DEF OpenOrFail, ProgramCall, AllNames
  <2>3. /\ Goes
        /\ \/ pc' = "exit"
           \/ /\ pc' = "read" /\ loc'.fd \in Regular
              /\ f_desc'[Child][loc'.fd].flag = 0
              /\ \E i \in EntriesFor(<<".">>) :
                   f_desc'[Child][loc'.fd].ops = direntries[i].filetype
    BY <1>1, <2>1, OpenOrFailDoes
  <2>4. pc' = "exit" \/ (pc' = "read" /\ Using(loc.fd, "dir")')
    BY <2>3, ProgramAssumption DEF Using
  <2>5. LocalInv'
    BY <1>1, <2>4, GrepLocals DEF GrepInv
  <2> QED
    BY <1>1, <2>2, <2>3, <2>5, StepKept
<1> QED
  BY <1>2, <1>3

\* A read of the directory gives the name of an entry.
LEMMA NameRead ==
  ASSUME IInv, NEW fd \in Regular, NEW n, n = FILENAME_LEN, Using(fd, "dir"),
         Read(Child, fd, n, FALSE), ret'.code > 0
  PROVE  ret'.bytes \in AllNames
<1>1. /\ Child \in live /\ live' = live
      /\ f_desc[Child][fd].flag = 0 /\ f_desc[Child][fd].ops = "dir"
  BY DEF Read, Using
<1>2. ~CannotRead(Child, fd)
  BY <1>1, DescriptorAssumption DEF CannotRead, Regular
<1>3. dir_read(Child, fd, FALSE, n)
  BY <1>1, <1>2 DEF Read
<1>4. n \in Int
  BY SizeAssumption
<1>5. \E i \in 1 .. Len(direntries) : ret'.bytes = ListedName(i)
  BY <1>1, <1>3, <1>4, DirReadDoes
<1>6. DOMAIN direntries = 1 .. Len(direntries)
  BY DirectoryAssumption
<1> QED
  BY <1>5, <1>6 DEF AllNames

LEMMA GrepNameKept ==
  ASSUME SInv, UNCHANGED <<kernel, shell, prog>>, GrepName PROVE Kept
<1> DEFINE size == SBUFSIZE - 1
<1>1. /\ prog = "grep" /\ pc = "read" /\ Running /\ prog' = prog
      /\ Read(Child, loc.fd, size, FALSE)
  BY DEF GrepName, At, Running
<1>2. /\ IInv /\ Child \in Slots /\ Using(loc.fd, "dir")
  BY <1>1, RunningFacts DEF LocalInv, GrepInv
<1>3. size \in Nat /\ size = FILENAME_LEN /\ size \in AllSizes
  BY SomeSizes
<1> HIDE DEF size
<1>4. PICK fd \in Regular : fd = loc.fd
  BY <1>2 DEF Using
<1>5. Read(Child, fd, size, FALSE) /\ Using(fd, "dir")
  BY <1>1, <1>2, <1>4
<1>6. /\ ProgramCall /\ Moves(Child)
      /\ ret'.bytes \in Seq(STRING)
      /\ ret'.code = -1 \/ ret'.code = Len(ret'.bytes)
  BY <1>2, <1>3, <1>5, ProgramReads
<1>7. CASE ret'.code = 0
  <2>1. Exit(0)
    BY <1>7 DEF GrepName
  <2> QED
    BY <1>1, <1>6, <2>1, ExitGoes, StepKept
<1>8. CASE ret'.code = -1
  <2>1. Fail("directory entry read failed", 3)
    <3>1. ret'.code # 0 /\ ~(ret'.code > 0)
      BY <1>8
    <3> QED
      BY <1>8, <3>1 DEF GrepName
  <2>2. Goes /\ LocalInv'
    <3> DEFINE message == "directory entry read failed"
    <3>1. Fail(message, 3)
      BY <2>1
    <3> HIDE DEF message
    <3> QED
      BY <3>1, FailGoes
  <2> QED
    BY <1>1, <1>6, <2>2, StepKept
<1>9. CASE ret'.code > 0
  <2> DEFINE next == IF ret'.bytes[1] = "." THEN "read" ELSE "open"
  <2>1. Go(next, loc)
    <3>1. ret'.code # 0 /\ ret'.code # -1
      BY <1>9, <1>6
    <3> QED
      BY <1>9, <3>1 DEF GrepName
  <2>2. next \in {"read", "open"} /\ next # "exit"
    OBVIOUS
  <2> HIDE DEF next
  <2>3. Goes /\ pc' = next /\ loc' = loc
    BY <1>1, <2>1, <2>2, GoGoes
  <2>4. ret'.bytes \in AllNames
    BY <1>2, <1>3, <1>5, <1>9, NameRead
  <2>5. Using(fd, "dir")'
    BY <1>2, <1>5, <1>6, MovesUsing
  <2>6. Using(loc.fd, "dir")'
    BY <1>4, <2>3, <2>5 DEF Using
  <2>7. LocalInv'
    BY <1>1, <2>2, <2>3, <2>4, <2>6, GrepLocals DEF GrepInv
  <2> QED
    BY <1>1, <1>6, <2>3, <2>7, StepKept
<1> QED
  BY <1>6, <1>7, <1>8, <1>9

\* The descriptor for a file is not that of the directory.
LEMMA GrepOpenKept ==
  ASSUME SInv, UNCHANGED <<kernel, shell, prog>>, GrepOpen PROVE Kept
<1>1. /\ prog = "grep" /\ pc = "open" /\ Running /\ prog' = prog
      /\ Open(Child, ret.bytes)
  BY DEF GrepOpen, At, Running
<1>2. /\ IInv /\ Child \in Slots /\ Using(loc.fd, "dir")
      /\ ret.bytes \in AllNames
  BY <1>1, RunningFacts DEF LocalInv, GrepInv
<1>3. ProgramCall
  BY <1>1, <1>2 DEF ProgramCall
<1>4. CASE ret'.code = -1
  <2> DEFINE message == "file open failed"
  <2>1. Fail(message, 3)
    BY <1>4 DEF GrepOpen
  <2> HIDE DEF message
  <2> QED
    BY <1>1, <1>3, <2>1, FailGoes, StepKept
<1>5. CASE ret'.code # -1
  <2>1. PICK junk \in {NUL, NEWLINE} :
          Go("fill", [fd |-> loc.fd, file |-> ret'.code, name |-> ret.bytes,
                      data |-> [i \in 0 .. BUFSIZE |-> junk], last |-> 0,
                      dirty |-> loc.dirty \/ junk = NEWLINE])
    BY <1>5 DEF GrepOpen
  <2> DEFINE m == [fd |-> loc.fd, file |-> ret'.code, name |-> ret.bytes,
                   data |-> [i \in 0 .. BUFSIZE |-> junk], last |-> 0,
                   dirty |-> loc.dirty \/ junk = NEWLINE]
  <2>2. /\ m.fd = loc.fd /\ m.file = ret'.code /\ m.last = 0
        /\ FillFields \subseteq DOMAIN m
    BY DEF FillFields
  <2>3. Go("fill", m)
    BY <2>1
  <2> HIDE DEF m
  <2>4. Goes /\ pc' = "fill" /\ loc' = m
    BY <1>1, <2>3, GoGoes
  <2>5. ret'.code \in FreeFds(Child) /\ Sets(Child, ret'.code, 0)
    BY <1>1, <1>2, <1>5, OpenDoes
  <2>6. /\ ret'.code \in Regular /\ ret'.code # loc.fd
        /\ f_desc'[Child][loc.fd] = f_desc[Child][loc.fd]
    <3>1. ret'.code \in Regular /\ f_desc[Child][ret'.code].flag = 1
      BY <2>5 DEF FreeFds
    <3>2. ret'.code # loc.fd /\ loc.fd \in 0 .. UPPB
      BY <1>2, <3>1, DescriptorAssumption DEF Using, Regular
    <3> QED
      BY <2>5, <3>1, <3>2 DEF Sets
  <2>7. Using(loc.fd, "dir")'
    BY <1>2, <2>2, <2>4, <2>6 DEF Using
  <2>8. FillFields \subseteq DOMAIN loc'
    BY <2>2, <2>4
  <2>9. loc'.last \in 0 .. BUFSIZE /\ loc'.file \in Regular \ {loc'.fd}
    BY <2>2, <2>4, <2>6, SomeSizes
  <2>10. LocalInv'
    BY <1>1, <2>4, <2>7, <2>8, <2>9, GrepLocals DEF GrepInv
  <2> QED
    BY <1>1, <1>3, <2>4, <2>10, StepKept
<1> QED
  BY <1>4, <1>5

\* The buffer is searched up to its last line, which begins inside it.
LEMMA LinesInside ==
  ASSUME NEW data, NEW last \in Nat, NEW cnt, NEW s
  PROVE  do_lines(data, last, cnt, s).last \in 0 .. last
<1> DEFINE starts == {0} \cup {i + 1 : i \in {j \in 0 .. last - 2 :
                                                 data[j] = NEWLINE}}
           start == Max(starts)
           done == do_lines(data, last, cnt, s).last
<1>1. starts \subseteq 0 .. last /\ starts # {}
  OBVIOUS
<1>2. start \in starts
  <2> HIDE DEF starts
  <2> QED
    BY <1>1, MaxIsGreatest
<1>3. done \in {last - start, 0}
  BY DEF do_lines
<1> HIDE DEF done, start, starts
<1>4. start \in 0 .. last
  BY <1>1, <1>2
<1>5. done \in 0 .. last
  BY <1>3, <1>4
<1> QED
  BY <1>5 DEF done

LEMMA GrepFillKept ==
  ASSUME SInv, UNCHANGED <<kernel, shell, prog>>, GrepFill PROVE Kept
<1> DEFINE size == BUFSIZE - loc.last
<1>1. /\ prog = "grep" /\ pc = "fill" /\ Running /\ prog' = prog
      /\ Read(Child, loc.file, size, FALSE)
  BY DEF GrepFill, At, Running
<1>2. /\ IInv /\ Child \in Slots /\ Using(loc.fd, "dir")
      /\ loc.file \in Regular \ {loc.fd}
      /\ loc.last \in 0 .. BUFSIZE /\ FillFields \subseteq DOMAIN loc
  BY <1>1, RunningFacts DEF LocalInv, GrepInv
<1>3. size \in Nat /\ size \in AllSizes /\ loc.last + size = BUFSIZE
  BY <1>2, SomeSizes
<1> HIDE DEF size
<1>4. PICK fd \in Regular : fd = loc.file
  BY <1>2
<1>5. Read(Child, fd, size, FALSE)
  BY <1>1, <1>4
<1>6. /\ ProgramCall /\ Moves(Child)
      /\ ret'.bytes \in Seq(STRING) /\ Len(ret'.bytes) <= size
      /\ ret'.code = -1 \/ ret'.code = Len(ret'.bytes)
  BY <1>2, <1>3, <1>5, ProgramReads
<1>7. CASE ret'.code = -1
  <2> DEFINE message == "file read failed"
  <2>1. Fail(message, 3)
    BY <1>7 DEF GrepFill
  <2> HIDE DEF message
  <2> QED
    BY <1>1, <1>6, <2>1, FailGoes, StepKept
<1>8. CASE ret'.code # -1
  <2> DEFINE cnt == ret'.code
             end == loc.last + cnt
             filled == [i \in 0 .. BUFSIZE |->
                          IF i \in loc.last .. end - 1
                            THEN ret'.bytes[i - loc.last + 1] ELSE loc.data[i]]
             s == sys_getargs(BUFSIZE).bytes
             done == do_lines(filled, end, cnt, s)
             next == IF EndOfFile(cnt) THEN "close" ELSE "fill"
             m == [loc EXCEPT !.data = done.data, !.last = done.last]
  <2>1. Go(next, m)
    BY <1>8 DEF GrepFill
  <2>2. next \in {"close", "fill"} /\ next # "exit"
    OBVIOUS
  <2>3. end \in Nat /\ end <= BUFSIZE
    BY <1>2, <1>3, <1>6, <1>8, SomeSizes
  <2>4. done.last \in 0 .. BUFSIZE
    <3> HIDE DEF end, filled, s, cnt
    <3>1. done.last \in 0 .. end
      BY <2>3, LinesInside
    <3> HIDE DEF done
    <3> QED
      BY <2>3, <3>1, SomeSizes
  <2> HIDE DEF done
  <2>5. /\ m.fd = loc.fd /\ m.file = loc.file /\ m.last = done.last
        /\ FillFields \subseteq DOMAIN m
    BY <1>2 DEF FillFields
  <2> HIDE DEF m, next
  <2>6. Goes /\ pc' = next /\ loc' = m
    BY <1>1, <2>1, <2>2, GoGoes
  <2>7. /\ loc'.fd = loc.fd /\ loc'.file = loc.file /\ loc'.last = done.last
        /\ FillFields \subseteq DOMAIN loc'
    BY <2>5, <2>6
  <2>8. Using(loc.fd, "dir")'
    BY <1>2, <1>6, <2>7, MovesUsing DEF Using
  <2>9. LocalInv'
    BY <1>1, <1>2, <2>2, <2>4, <2>6, <2>7, <2>8, GrepLocals DEF GrepInv
  <2> QED
    BY <1>1, <1>6, <2>6, <2>9, StepKept
<1> QED
  BY <1>7, <1>8

LEMMA GrepCloseKept ==
  ASSUME SInv, UNCHANGED <<kernel, shell, prog>>, GrepClose PROVE Kept
<1>1. /\ prog = "grep" /\ pc = "close" /\ Running /\ prog' = prog
      /\ Close(Child, loc.file)
  BY DEF GrepClose, At, Running
<1>2. /\ IInv /\ Child \in Slots /\ Using(loc.fd, "dir")
      /\ loc.file \in Regular \ {loc.fd}
  BY <1>1, RunningFacts DEF LocalInv, GrepInv
<1>3. PICK fd \in Regular : fd = loc.file /\ fd # loc.fd
  BY <1>2
<1>4. Close(Child, fd) /\ fd \in AllFdArgs /\ fd \in Int
  BY <1>1, <1>3, RegularArgs, FdArgsAreInt
<1>5. ProgramCall
  BY <1>4 DEF ProgramCall
<1>6. CASE ret'.code = -1
  <2> DEFINE message == "file close failed"
  <2>1. Fail(message, 3)
    BY <1>6 DEF GrepClose
  <2> HIDE DEF message
  <2> QED
    BY <1>1, <1>5, <2>1, FailGoes, StepKept
<1>7. CASE ret'.code # -1
  <2> DEFINE m == [fd |-> loc.fd, dirty |-> loc.dirty]
  <2>1. Go("read", m)
    BY <1>7 DEF GrepClose
  <2>2. m.fd = loc.fd
    OBVIOUS
  <2> HIDE DEF m
  <2>3. Goes /\ pc' = "read" /\ loc' = m
    BY <1>1, <2>1, GoGoes
  <2>4. f_desc'[Child][loc.fd] = f_desc[Child][loc.fd]
    <3>1. Sets(Child, fd, 1)
      BY <1>2, <1>4, <1>7, CloseDoes
    <3>2. loc.fd \in 0 .. UPPB
      BY <1>2, DescriptorAssumption DEF Using, Regular
    <3> QED
      BY <1>3, <3>1, <3>2 DEF Sets
  <2>5. Using(loc.fd, "dir")'
    BY <1>2, <2>2, <2>3, <2>4 DEF Using
  <2>6. LocalInv'
    BY <1>1, <2>3, <2>5, GrepLocals DEF GrepInv
  <2> QED
    BY <1>1, <1>5, <2>3, <2>6, StepKept
<1> QED
  BY <1>6, <1>7

LEMMA GrepKept == ASSUME SInv, UNCHANGED <<kernel, shell, prog>>, Grep PROVE Kept
BY GrepStartKept, GrepNameKept, GrepOpenKept, GrepFillKept, GrepCloseKept
   DEF Grep

(***************************************************************************)
(* counter and sigtest.                                                    *)
(***************************************************************************)
LEMMA ReadKeyboardDoes ==
  ASSUME SInv, Running, ReadKeyboard PROVE ProgramCall
<1>1. IInv /\ Child \in Slots /\ Read(Child, 0, BUFSIZE - 1, FALSE)
  BY RunningFacts DEF ReadKeyboard
<1> DEFINE fd == 0  n == BUFSIZE - 1
<1>2. fd \in AllFdArgs /\ n \in Int /\ fd = 0
  BY SomeSizes, RegularArgs, DescriptorAssumption
<1>3. \E null \in BOOLEAN : Read(Child, fd, n, null)
  BY <1>1
<1> HIDE DEF fd, n
<1> QED
  BY <1>2, <1>3 DEF ProgramCall

LEMMA NoLocalsToMind ==
  ASSUME prog' \notin {"cat", "ls", "grep", "syserr"} PROVE LocalInv'
BY DEF LocalInv, CopyInv, GrepInv, SyserrInv, At

LEMMA CounterKept ==
  ASSUME SInv, UNCHANGED <<kernel, shell, prog>>, Counter PROVE Kept
<1>1. /\ prog = "counter" /\ pc \in {"start", "count"} /\ Running
      /\ prog' = prog
  BY DEF Counter, CounterStart, CounterCount, At, Running
<1>2. LocalInv'
  BY <1>1, NoLocalsToMind
<1>3. CASE CounterStart
  <2>1. ProgramCall
    BY <1>1, <1>3, ReadKeyboardDoes DEF CounterStart
  <2>2. \/ Fail("Wrong Choice!", 0)
        \/ \E m : Go("count", m)
    BY <1>3 DEF CounterStart
  <2>3. Goes
    <3>1. CASE Fail("Wrong Choice!", 0)
      <4> DEFINE message == "Wrong Choice!"
      <4>1. Fail(message, 0)
        BY <3>1
      <4> HIDE DEF message
      <4> QED
        BY <4>1, FailGoes
    <3>2. CASE \E m : Go("count", m)
      BY <1>1, <3>2, GoGoes
    <3> QED
      BY <2>2, <3>1, <3>2
  <2> QED
    BY <1>1, <1>2, <2>1, <2>3, StepKept
<1>4. CASE CounterCount
  <2>1. UNCHANGED vars /\ (Exit(0) \/ \E m : Go("count", m))
    BY <1>4 DEF CounterCount
  <2>2. Goes
    BY <1>1, <2>1, ExitGoes, GoGoes
  <2> QED
    BY <1>1, <1>2, <2>1, <2>2, StepKept DEF ProgramCall
<1> QED
  BY <1>3, <1>4 DEF Counter

LEMMA SigtestKept ==
  ASSUME SInv, UNCHANGED <<kernel, shell, prog>>, Sigtest PROVE Kept
<1>1. /\ prog = "sigtest" /\ pc \in {"start", "store"} /\ Running
      /\ prog' = prog
  BY DEF Sigtest, SigtestStart, SigtestStore, At, Running
<1>2. LocalInv'
  BY <1>1, NoLocalsToMind
<1>3. CASE SigtestStart /\ sys_getargs(BUFSIZE).code # 0
  <2> DEFINE message == "could not read argument"
  <2>1. Fail(message, 3) /\ UNCHANGED vars
    BY <1>3 DEF SigtestStart
  <2> HIDE DEF message
  <2> QED
    BY <1>1, <2>1, FailGoes, StepKept DEF ProgramCall
<1>4. CASE SigtestStart /\ sys_getargs(BUFSIZE).code = 0
  <2>1. ReadKeyboard /\ Go("store", NoLocals)
    BY <1>4 DEF SigtestStart
  <2>2. ProgramCall
    BY <1>1, <2>1, ReadKeyboardDoes
  <2>3. Goes
    BY <1>1, <2>1, GoGoes
  <2> QED
    BY <1>1, <1>2, <2>2, <2>3, StepKept
<1>5. CASE SigtestStore
  BY <1>1, <1>5, RaiseKept DEF SigtestStore
<1> QED
  BY <1>3, <1>4, <1>5 DEF Sigtest

LEMMA AnyProgramKept ==
  ASSUME SInv, UNCHANGED <<kernel, shell, prog>>, AnyProgram PROVE Kept
<1>1. prog = "any" /\ pc = "start" /\ Running /\ prog' = prog
  BY DEF AnyProgram, At, Running
<1>2. LocalInv'
  BY <1>1, NoLocalsToMind
<1>3. CASE AnyCall(Child) /\ UNCHANGED <<pc, loc, shown, ending>>
  <2>1. ProgramCall
    <3>1. FdArgs \subseteq AllFdArgs /\ Names \subseteq AllNames
          /\ Sizes \subseteq AllSizes \cap Int
      BY DescriptorAssumption DEF AllFdArgs, AllNames, AllSizes
    <3> QED
      BY <1>3, <3>1 DEF AnyCall, ProgramCall
  <2>2. Goes
    BY <1>1, <1>3, RunningFacts DEF Goes
  <2> QED
    BY <1>1, <1>2, <2>1, <2>2, StepKept
<1>4. ASSUME NEW status \in Statuses, Exit(status), UNCHANGED vars PROVE Kept
  BY <1>1, <1>4, ExitGoes, StepKept, ProgramAssumption DEF ProgramCall
<1>5. ASSUME NEW v, Raise(v) PROVE Kept
  BY <1>1, <1>5, RaiseKept
<1> QED
  BY <1>3, <1>4, <1>5 DEF AnyProgram

(***************************************************************************)
(* syserr.                                                                 *)
(***************************************************************************)
CallsMade == [op : {"read", "write", "close"}, on : AllFdArgs]
             \cup [op : {"open"}, on : AllNames]
             \cup [op : {"vidmap", "number"}, on : Int]

Good(sq) == sq \in Seq(CallsMade) /\ Len(sq) \in Nat \ {0}

LEMMA CallsAre ==
  ASSUME NEW op, NEW X, NEW fds \in Seq(X), NEW S,
         \A x \in X : [op |-> op, on |-> x] \in S
  PROVE  Calls(op, fds) \in Seq(S) /\ Len(Calls(op, fds)) = Len(fds)
<1>1. DOMAIN fds = 1 .. Len(fds) /\ Len(fds) \in Nat
  OBVIOUS
<1>2. Calls(op, fds) \in [1 .. Len(fds) -> S]
  BY <1>1 DEF Calls
<1> QED
  BY <1>1, <1>2

\* The calls of the tests are among those that OpenFiles is asked about.
LEMMA TestCalls ==
  ASSUME NEW t \in 1 .. 8
  PROVE  Tests[t] \in Seq(CallsMade) /\ Len(Tests[t]) \in Nat \ {0}
<1> DEFINE F == AllFdArgs
<1>1. /\ \A x \in F : /\ [op |-> "read", on |-> x] \in CallsMade
                      /\ [op |-> "write", on |-> x] \in CallsMade
                      /\ [op |-> "close", on |-> x] \in CallsMade
      /\ \A x \in AllNames : [op |-> "open", on |-> x] \in CallsMade
      /\ \A x \in Int : /\ [op |-> "vidmap", on |-> x] \in CallsMade
                        /\ [op |-> "number", on |-> x] \in CallsMade
  BY DEF CallsMade
<1>2. /\ NEG_FD \in F /\ BIG_FD \in F /\ 0 \in F /\ 1 \in F
      /\ NUM_FD - 2 \in Nat \ {0} /\ NUM_FD \in Nat \ {0}
      /\ UPPB \in Nat \ {0}
  BY DescriptorAssumption DEF AllFdArgs
<1>3. /\ <<NEG_FD>> \in Seq(F) /\ <<BIG_FD>> \in Seq(F)
      /\ <<0>> \in Seq(F) /\ <<1>> \in Seq(F)
      /\ Len(<<NEG_FD>>) = 1 /\ Len(<<BIG_FD>>) = 1
      /\ Len(<<0>>) = 1 /\ Len(<<1>>) = 1
  <2> HIDE DEF F
  <2> QED
    BY <1>2
<1>4. /\ AllFds \in Seq(F) /\ Len(AllFds) = NUM_FD
      /\ RegularFds \in Seq(F) /\ Len(RegularFds) = NUM_FD - 2
  <2>1. AllFds \in [1 .. NUM_FD -> F]
    BY DescriptorAssumption DEF AllFds, AllFdArgs
  <2>2. RegularFds \in [1 .. NUM_FD - 2 -> F]
    BY DescriptorAssumption DEF RegularFds, AllFdArgs
  <2> HIDE DEF F
  <2> QED
    BY <1>2, <2>1, <2>2
<1> HIDE DEF F
<1>5. ASSUME NEW fds \in Seq(F), NEW op \in {"read", "write", "close"}
      PROVE  Calls(op, fds) \in Seq(CallsMade)
             /\ Len(Calls(op, fds)) = Len(fds)
  <2>1. \A x \in F : [op |-> op, on |-> x] \in CallsMade
    BY <1>1
  <2> QED
    BY <2>1, CallsAre
<1>6. ASSUME NEW fds \in Seq(AllNames)
      PROVE  Calls("open", fds) \in Seq(CallsMade)
             /\ Len(Calls("open", fds)) = Len(fds)
  <2> DEFINE op == "open"
  <2>1. \A x \in AllNames : [op |-> op, on |-> x] \in CallsMade
    BY <1>1
  <2> HIDE DEF op
  <2>2. Calls(op, fds) \in Seq(CallsMade) /\ Len(Calls(op, fds)) = Len(fds)
    BY <2>1, CallsAre
  <2> QED
    BY <2>2 DEF op
<1>7. ASSUME NEW fds \in Seq(Int), NEW op \in {"vidmap", "number"}
      PROVE  Calls(op, fds) \in Seq(CallsMade)
             /\ Len(Calls(op, fds)) = Len(fds)
  <2>1. \A x \in Int : [op |-> op, on |-> x] \in CallsMade
    BY <1>1
  <2> QED
    BY <2>1, CallsAre
<1>8. ASSUME NEW a \in Seq(CallsMade), NEW b \in Seq(CallsMade)
      PROVE  a \o b \in Seq(CallsMade) /\ Len(a \o b) = Len(a) + Len(b)
  OBVIOUS
<1>9. ASSUME NEW a, NEW b, Good(a), Good(b) PROVE Good(a \o b)
  BY <1>8, <1>9 DEF Good
<1> DEFINE All(fds) == /\ Good(Calls("read", fds))
                       /\ Good(Calls("write", fds))
                       /\ Good(Calls("close", fds))
<1>10. /\ All(<<NEG_FD>>) /\ All(<<BIG_FD>>) /\ All(<<0>>) /\ All(<<1>>)
       /\ All(AllFds) /\ All(RegularFds)
  <2> DEFINE a == <<NEG_FD>>  b == <<BIG_FD>>  c == <<0>>  d == <<1>>
  <2>1. a \in Seq(F) /\ b \in Seq(F) /\ c \in Seq(F) /\ d \in Seq(F)
        /\ Len(a) = 1 /\ Len(b) = 1 /\ Len(c) = 1 /\ Len(d) = 1
    BY <1>3
  <2>2. ASSUME NEW fds \in Seq(F), Len(fds) \in Nat \ {0} PROVE All(fds)
    BY <1>5, <2>2 DEF Good
  <2> HIDE DEF a, b, c, d, All
  <2>3. All(a) /\ All(b) /\ All(c) /\ All(d)
    BY <2>1, <2>2
  <2>4. All(AllFds) /\ All(RegularFds)
    BY <1>2, <1>4, <2>2
  <2> QED
    BY <2>3, <2>4 DEF a, b, c, d
<1>11. Good(Calls("open", WrongNames))
       /\ Good(Calls("open", [i \in 1 .. UPPB |-> <<".">>]))
  <2> DEFINE dots == [i \in 1 .. UPPB |-> <<".">>]
  <2>1. WrongNames \in Seq(AllNames) /\ Len(WrongNames) \in Nat \ {0}
    <3>1. WrongNames \in Seq(Seq(STRING)) /\ WrongNames # <<>>
      BY ProgramAssumption
    <3>2. DOMAIN WrongNames = 1 .. Len(WrongNames)
          /\ Len(WrongNames) \in Nat \ {0}
      BY <3>1
    <3>3. WrongNames \in [1 .. Len(WrongNames) -> AllNames]
      BY <3>1, <3>2 DEF AllNames
    <3> QED
      BY <3>2, <3>3
  <2>2. dots \in Seq(AllNames) /\ Len(dots) = UPPB
    <3>1. <<".">> \in AllNames
      BY DEF AllNames
    <3>2. dots \in [1 .. UPPB -> AllNames]
      BY <3>1
    <3> QED
      BY <1>2, <3>2
  <2> HIDE DEF dots
  <2> QED
    BY <1>2, <2>1, <2>2, <1>6 DEF Good, dots
<1>12. Good(Calls("vidmap", <<0, 4194304>>))
       /\ Good(Calls("number", <<BIG_NUM, NEG_NUM, 0>>))
  <2> DEFINE a == <<0, 4194304>>  b == <<BIG_NUM, NEG_NUM, 0>>
  <2>1. a \in Seq(Int) /\ Len(a) = 2 /\ b \in Seq(Int) /\ Len(b) = 3
    BY SMT DEF BIG_NUM, NEG_NUM
  <2> HIDE DEF a, b
  <2> QED
    <3>1. Good(Calls("vidmap", a)) /\ Good(Calls("number", b))
      <4>1. ASSUME NEW fds \in Seq(Int), Len(fds) \in Nat \ {0},
                   NEW op \in {"vidmap", "number"}
            PROVE  Good(Calls(op, fds))
        BY <1>7, <4>1 DEF Good
      <4>2. Len(a) \in Nat \ {0} /\ Len(b) \in Nat \ {0}
        BY <2>1
      <4> QED
        BY <2>1, <4>1, <4>2
    <3> QED
      BY SMT, <3>1 DEF a, b
<1>13. /\ Good(err_neg_fd) /\ Good(err_big_fd) /\ Good(err_stdin_out)
       /\ Good(err_unopened) /\ Good(err_open) /\ Good(err_open_lots)
       /\ Good(err_vidmap) /\ Good(err_syscall_num)
  <2>1. Good(err_neg_fd) /\ Good(err_big_fd)
    BY <1>9, <1>10 DEF err_neg_fd, err_big_fd
  <2>2. Good(err_stdin_out) /\ Good(err_unopened)
    BY <1>9, <1>10 DEF err_stdin_out, err_unopened
  <2>3. Good(err_open) /\ Good(err_open_lots)
    BY <1>9, <1>10, <1>11 DEF err_open, err_open_lots
  <2> QED
    BY SMT, <2>1, <2>2, <2>3, <1>12 DEF err_vidmap, err_syscall_num
<1>14. Good(Tests[t])
  BY <1>13 DEF Tests
<1> QED
  BY <1>14 DEF Good

\* What syserr goes on with: a test to make the first call of, or none.
SyserrAt(tests, k, fail, refused, accepted) ==
  [tests |-> tests, call |-> k, fail |-> fail, refused |-> refused,
   accepted |-> accepted]

LEMMA SyserrGoesOn ==
  ASSUME NEW tests \in Seq(1 .. 8), NEW k \in Nat, NEW fail \in Nat,
         NEW refused \in Nat, NEW accepted \in Nat,
         tests # <<>> => k \in 1 .. Len(Tests[Head(tests)]),
         prog' = "syserr",
         loc' = SyserrAt(tests, k, fail, refused, accepted)
  PROVE  LocalInv'
<1>1. /\ loc' \in SyserrLocals
      /\ loc'.tests = tests /\ loc'.call = k
  BY DEF SyserrAt, SyserrLocals
<1>2. SyserrInv'
  BY <1>1 DEF SyserrInv
<1> QED
  BY <1>2 DEF LocalInv, CopyInv, GrepInv

LEMMA FirstCall ==
  ASSUME NEW tests \in Seq(1 .. 8), tests # <<>>
  PROVE  1 \in 1 .. Len(Tests[Head(tests)])
<1>1. Head(tests) \in 1 .. 8
  OBVIOUS
<1> QED
  BY <1>1, TestCalls, SMTT(20)

LEMMA SyserrStartKept ==
  ASSUME SInv, UNCHANGED <<kernel, shell, prog>>, SyserrStart PROVE Kept
<1>1. prog = "syserr" /\ pc = "start" /\ Running /\ prog' = prog
  BY DEF SyserrStart, At, Running
<1>2. ProgramCall
  BY <1>1, ReadKeyboardDoes DEF SyserrStart
<1> DEFINE digits == <<"1", "2", "3", "4", "5", "6", "7", "8">>
           message == "Invalid test number."
           all == <<1, 2, 3, 4, 5, 6, 7, 8>>
<1>3. ASSUME NEW choice PROVE
        LET chosen == {t \in 1 .. 8 : digits[t] = choice}
        IN  IF choice = "0" THEN all \in Seq(1 .. 8)
            ELSE IF chosen = {} THEN TRUE
            ELSE <<CHOOSE t \in chosen : TRUE>> \in Seq(1 .. 8)
  <2> DEFINE chosen == {t \in 1 .. 8 : digits[t] = choice}
  <2>1. all \in Seq(1 .. 8)
    OBVIOUS
  <2>2. chosen # {} => (CHOOSE t \in chosen : TRUE) \in 1 .. 8
    OBVIOUS
  <2> HIDE DEF chosen
  <2>3. \A t \in 1 .. 8 : <<t>> \in Seq(1 .. 8)
    OBVIOUS
  <2> QED
    BY <2>1, <2>2, <2>3 DEF chosen
<1>4. \/ Fail(message, 0)
      \/ \E tests \in Seq(1 .. 8) :
           /\ tests # <<>>
           /\ Go("call", SyserrAt(tests, 1, 0, 0, 0))
  <2>1. PICK reply \in Replies :
          LET choice == Append(reply, NEWLINE)[1]
              chosen == {t \in 1 .. 8 : digits[t] = choice}
              tests == IF choice = "0" THEN all
                       ELSE IF chosen = {} THEN <<>>
                       ELSE <<CHOOSE t \in chosen : TRUE>>
          IN IF tests = <<>> THEN Fail(message, 0)
             ELSE Go("call", SyserrAt(tests, 1, 0, 0, 0))
    BY DEF SyserrStart, SyserrAt
  <2> DEFINE choice == Append(reply, NEWLINE)[1]
  <2> HIDE DEF all, digits, message, choice
  <2> QED
    BY <1>3, <2>1 DEF choice
<1> HIDE DEF message
<1>5. CASE Fail(message, 0)
  BY <1>1, <1>2, <1>5, FailGoes, StepKept
<1>6. ASSUME NEW tests \in Seq(1 .. 8), tests # <<>>,
             Go("call", SyserrAt(tests, 1, 0, 0, 0))
      PROVE  Kept
  <2>1. Goes /\ loc' = SyserrAt(tests, 1, 0, 0, 0)
    BY <1>1, <1>6, GoGoes
  <2>2. LocalInv'
    BY <1>1, <1>6, <2>1, FirstCall, SyserrGoesOn
  <2> QED
    BY <1>1, <1>2, <2>1, <2>2, StepKept
<1> QED
  BY <1>4, <1>5, <1>6

LEMMA PerformIsCall ==
  ASSUME SInv, Running, NEW c \in CallsMade, Perform(c) PROVE ProgramCall
<1> DEFINE n == 31
<1>1. n \in AllSizes /\ n \in Int
  BY SomeSizes
<1>2. Perform(c) <=>
        CASE c.op = "read" -> Read(Child, c.on, n, FALSE)
          [] c.op = "write" -> Write(Child, c.on, n, FALSE)
          [] c.op = "open" -> Open(Child, c.on)
          [] c.op = "close" -> Close(Child, c.on)
          [] c.op \in {"vidmap", "number"} -> UNCHANGED vars
  BY DEF Perform
<1> HIDE DEF n
<1>3. CASE c \in [op : {"read", "write", "close"}, on : AllFdArgs]
  <2>1. c.on \in AllFdArgs /\ c.op \in {"read", "write", "close"}
    BY <1>3
  <2>2. CASE c.op = "read"
    <3>1. Read(Child, c.on, n, FALSE)
      BY <1>2, <2>2
    <3> QED
      BY <1>1, <2>1, <3>1 DEF ProgramCall
  <2>3. CASE c.op = "write"
    <3>1. Write(Child, c.on, n, FALSE)
      BY <1>2, <2>3
    <3> QED
      BY <1>1, <2>1, <3>1 DEF ProgramCall
  <2>4. CASE c.op = "close"
    <3>1. Close(Child, c.on)
      BY <1>2, <2>4
    <3> QED
      BY <2>1, <3>1 DEF ProgramCall
  <2> QED
    BY <2>1, <2>2, <2>3, <2>4
<1>4. CASE c \in [op : {"open"}, on : AllNames]
  <2>1. c.on \in AllNames /\ c.op = "open"
    BY <1>4
  <2>2. Open(Child, c.on)
    BY <1>2, <2>1
  <2> QED
    BY <2>1, <2>2 DEF ProgramCall
<1>5. CASE c \in [op : {"vidmap", "number"}, on : Int]
  <2>1. c.op \in {"vidmap", "number"}
    BY <1>5
  <2>2. UNCHANGED vars
    BY <1>2, <2>1
  <2> QED
    BY <2>2 DEF ProgramCall
<1> QED
  BY <1>3, <1>4, <1>5 DEF CallsMade

LEMMA SyserrCallKept ==
  ASSUME SInv, UNCHANGED <<kernel, shell, prog>>, SyserrCall PROVE Kept
<1> DEFINE t == Head(loc.tests)
           c == Tests[t][loc.call]
           refused == loc.refused + IF c.op = "open" /\ ResultOf(c) = -1
                                      THEN 1 ELSE 0
           accepted == loc.accepted + IF ResultOf(c) # -1 THEN 1 ELSE 0
           failed == IF t = 3 THEN refused # 1 ELSE accepted # 0
           more == IF failed THEN 2 ELSE 0
<1>1. /\ prog = "syserr" /\ pc = "call" /\ Running /\ prog' = prog
      /\ loc.tests # <<>>
  BY DEF SyserrCall, At, Running
<1>2. loc \in SyserrLocals /\ loc.call \in 1 .. Len(Tests[t])
  BY <1>1 DEF SInv, LocalInv, SyserrInv, At
<1>3. /\ loc.tests \in Seq(1 .. 8) /\ loc.call \in Nat /\ loc.fail \in Nat
      /\ loc.refused \in Nat /\ loc.accepted \in Nat
      /\ loc = SyserrAt(loc.tests, loc.call, loc.fail, loc.refused,
                        loc.accepted)
  BY <1>2 DEF SyserrLocals, SyserrAt
<1>4. t \in 1 .. 8 /\ Tail(loc.tests) \in Seq(1 .. 8)
  BY <1>1, <1>3
<1>5. c \in CallsMade /\ Len(Tests[t]) \in Nat
  <2>1. \A u \in 1 .. 8 : /\ Tests[u] \in Seq(CallsMade)
                          /\ Len(Tests[u]) \in Nat
    BY TestCalls
  <2>2. ASSUME NEW q \in Seq(CallsMade), NEW k \in 1 .. Len(q)
        PROVE  q[k] \in CallsMade
    OBVIOUS
  <2> HIDE DEF t
  <2> QED
    BY <1>2, <1>4, <2>1, <2>2
<1>6. ProgramCall
  <2>1. Perform(c)
    BY DEF SyserrCall
  <2> HIDE DEF c
  <2> QED
    BY <1>1, <1>5, <2>1, PerformIsCall
<1>7. refused \in Nat /\ accepted \in Nat /\ loc.fail + more \in Nat
  BY <1>3
<1>8. \/ /\ loc.call < Len(Tests[t])
         /\ Go("call", [loc EXCEPT !.call = @ + 1, !.refused = refused,
                                   !.accepted = accepted])
      \/ Go("call", SyserrAt(Tail(loc.tests), 1, loc.fail + more, 0, 0))
  BY DEF SyserrCall, SyserrAt
<1> HIDE DEF c, refused, accepted, failed, more
<1>9. CASE /\ loc.call < Len(Tests[t])
           /\ Go("call", [loc EXCEPT !.call = @ + 1, !.refused = refused,
                                     !.accepted = accepted])
  <2>1. Goes /\ loc' = [loc EXCEPT !.call = @ + 1, !.refused = refused,
                                   !.accepted = accepted]
    BY <1>1, <1>9, GoGoes
  <2>2. loc' = SyserrAt(loc.tests, loc.call + 1, loc.fail, refused, accepted)
    BY <1>3, <2>1 DEF SyserrAt
  <2>3. loc.call + 1 \in 1 .. Len(Tests[t]) /\ loc.call + 1 \in Nat
    BY <1>2, <1>5, <1>9
  <2>4. LocalInv'
    BY <1>1, <1>3, <1>7, <2>2, <2>3, SyserrGoesOn
  <2> QED
    BY <1>1, <1>6, <2>1, <2>4, StepKept
<1>10. CASE Go("call", SyserrAt(Tail(loc.tests), 1, loc.fail + more, 0, 0))
  <2>1. /\ Goes
        /\ loc' = SyserrAt(Tail(loc.tests), 1, loc.fail + more, 0, 0)
    BY <1>1, <1>10, GoGoes
  <2>2. LocalInv'
    BY <1>1, <1>4, <1>7, <2>1, FirstCall, SyserrGoesOn
  <2> QED
    BY <1>1, <1>6, <2>1, <2>2, StepKept
<1> QED
  BY <1>8, <1>9, <1>10

LEMMA SyserrKept ==
  ASSUME SInv, UNCHANGED <<kernel, shell, prog>>, Syserr PROVE Kept
<1>1. CASE SyserrEnd
  <2>1. /\ prog = "syserr" /\ pc = "call" /\ Running
        /\ UNCHANGED vars /\ Exit(loc.fail)
    BY <1>1 DEF SyserrEnd, At, Running
  <2>2. loc.fail \in Int
    BY <2>1 DEF SInv, LocalInv, SyserrInv, At, SyserrLocals
  <2> QED
    BY <2>1, <2>2, ExitGoes, StepKept DEF ProgramCall
<1> QED
  BY <1>1, SyserrStartKept, SyserrCallKept DEF Syserr

(***************************************************************************)
(* All steps together.                                                     *)
(***************************************************************************)
LEMMA ProgramKept ==
  ASSUME SInv, ProgramStep(Supplied) \/ ProgramStep(AnyProgram) PROVE Kept
<1>1. CASE ProgramStep(Supplied)
  BY <1>1, CatKept, LsKept, GrepKept, CounterKept, SigtestKept, SyserrKept
     DEF ProgramStep, Supplied
<1>2. CASE ProgramStep(AnyProgram)
  BY <1>2, AnyProgramKept DEF ProgramStep
<1> QED
  BY <1>1, <1>2

LEMMA StandstillKept ==
  ASSUME SInv, UNCHANGED allvars PROVE Kept
<1>1. /\ UNCHANGED vars
      /\ UNCHANGED <<fname, arg, arg_length, line, sh, rval, report, prog, pc,
                     loc, shown, ending>>
  BY DEF allvars, kernel, shell, child
<1>2. IInv' /\ UNCHANGED Promises!vars
  BY <1>1, SameIInv, SamePromises DEF SInv, vars
<1>3. UNCHANGED <<live, f_desc, call, ret>>
  BY <1>1 DEF vars
<1>4. ShellInv' /\ EndInv'
  BY <1>1, <1>3 DEF SInv, ShellInv, NoneOpen, EndInv, Ended, ShellReports
<1>5. ArgsInv'
  BY <1>1 DEF SInv, ArgsInv, Parsed
<1>6. LocalInv'
  BY <1>1, <1>3
     DEF SInv, LocalInv, CopyInv, GrepInv, SyserrInv, At, Using
<1> QED
  BY <1>2, <1>4, <1>5, <1>6 DEF SInv, Kept

LEMMA SystemKept == SInv /\ [SystemNext]_allvars => Kept
BY ShellKept, ChildHaltsKept, ProgramKept, StandstillKept DEF SystemNext

LEMMA SInvStep == SInv /\ [SystemNext]_allvars => SInv'
BY SystemKept DEF Kept

LEMMA PromiseStep ==
  SInv /\ [SystemNext]_allvars => [Promises!Next]_(Promises!vars)
BY SystemKept DEF Kept

LEMMA PromisesInit == LaunchInit => Promises!Init
<1>1. Promises!Init <=> Abstract!Init
  BY DEF Promises!Init, Abstract!Init, Promises!NoFiles, Abstract!NoFiles,
         Promises!Code, Abstract!Code, Promises!NULL, Abstract!NULL
<1> QED
  BY <1>1, InitAbstract DEF LaunchInit

LEMMA SInvTypes == SInv => TypeOK /\ WithinFile
BY IInvHolds DEF SInv

(***************************************************************************)
(* The arguments.                                                          *)
(***************************************************************************)
\* A word of FILENAME_LEN characters at the end of the line may lose its
\* last one, and the character behind a longer one is lost with its space.
FirstWordFits(l) ==
  \/ FnameLength(l) < FILENAME_LEN
  \/ FILENAME_LEN < Len(l) /\ l[FILENAME_LEN + 1] = SPACE

\* A sequence is made of its two parts.
LEMMA Joined ==
  ASSUME NEW c \in Seq(STRING), NEW v \in Seq(STRING), NEW a \in Seq(STRING),
         Len(c) = Len(v) + Len(a),
         \A k \in 1 .. Len(v) : v[k] = c[k],
         \A k \in 1 .. Len(a) : a[k] = c[Len(v) + k]
  PROVE  c = v \o a
<1>1. v \o a \in Seq(STRING) /\ Len(v \o a) = Len(c)
  OBVIOUS
<1>2. ASSUME NEW k \in 1 .. Len(c) PROVE (v \o a)[k] = c[k]
  <2>1. CASE k <= Len(v)
    BY <2>1
  <2>2. CASE ~(k <= Len(v))
    <3>1. k - Len(v) \in 1 .. Len(a) /\ Len(v) + (k - Len(v)) = k
      BY <2>2
    <3>2. (v \o a)[k] = a[k - Len(v)]
      BY <2>2
    <3> QED
      BY <3>1, <3>2
  <2> QED
    BY <2>1, <2>2
<1> QED
  BY <1>1, <1>2

LEMMA LineInParts ==
  ASSUME NEW c \in Lines, FirstWordFits(c), NEW w, w \in FnamesParsed(c)
  PROVE  /\ SPACE \notin {w[k] : k \in 1 .. Len(w)}
         /\ IF Len(ArgsOf(c)) = 0 THEN c \in {w, w \o <<SPACE>>}
            ELSE c = w \o <<SPACE>> \o ArgsOf(c)
<1> DEFINE n == FnameLength(c)
<1>1. /\ c \in Seq(STRING) /\ Len(c) \in Nat /\ n \in 0 .. Len(c)
      /\ n <= FILENAME_LEN
      /\ \A k \in 1 .. n : c[k] # SPACE
      /\ n \in {Len(c), FILENAME_LEN} \/ c[n + 1] = SPACE
  BY FnameLengthFits
<1>2. FILENAME_LEN \in Nat
  BY SizeAssumption
<1>3. n < Len(c) => c[n + 1] = SPACE
  BY <1>1, <1>2 DEF FirstWordFits
<1>4. w = SubSeq(c, 1, n)
  <2>1. Len(SubSeq(c, 1, n)) = n
    BY <1>1
  <2>2. ClearFrom(c) = Len(c) - n - 1
    BY DEF ClearFrom
  <2>3. ~(ClearFrom(c) = -1 /\ n = FILENAME_LEN)
    BY <1>1, <1>2, <2>2 DEF FirstWordFits
  <2> QED
    BY <2>1, <2>3 DEF FnamesParsed
<1>5. ArgsOf(c) = SubSeq(c, n + 2, Len(c))
  BY DEF ArgsOf
<1> HIDE DEF n
<1>6. w \in Seq(STRING) /\ Len(w) = n /\ \A k \in 1 .. n : w[k] = c[k]
  BY <1>1, <1>4
<1>7. SPACE \notin {w[k] : k \in 1 .. Len(w)}
  BY <1>1, <1>6
<1>8. CASE n = Len(c)
  <2>1. w = c
    BY <1>1, <1>6, <1>8
  <2>2. Len(ArgsOf(c)) = 0
    BY <1>1, <1>5, <1>8
  <2> QED
    BY <1>7, <2>1, <2>2
<1>9. CASE n < Len(c)
  <2> DEFINE a == ArgsOf(c)
  <2>1. /\ a \in Seq(STRING) /\ Len(a) = Len(c) - (n + 1)
        /\ \A k \in 1 .. Len(a) : a[k] = c[n + 1 + k]
    BY <1>1, <1>5, <1>9
  <2> HIDE DEF a
  <2>2. SPACE = c[n + 1]
    BY <1>3, <1>9
  <2> DEFINE sp == SPACE
  <2>3. sp = c[n + 1] /\ sp \in STRING
    BY <1>1, <1>9, <2>2
  <2> HIDE DEF sp
  <2>4. c = w \o <<sp>> \o a
    <3> DEFINE v == w \o <<sp>>
    <3>1. v \in Seq(STRING) /\ Len(v) = n + 1
          /\ \A k \in 1 .. n + 1 : v[k] = c[k]
      BY <1>1, <1>6, <1>9, <2>3
    <3> HIDE DEF v
    <3>2. /\ a \in Seq(STRING) /\ Len(a) = Len(c) - (n + 1)
          /\ \A k \in 1 .. Len(a) : a[k] = c[Len(v) + k]
      BY <2>1, <3>1
    <3>3. Len(c) = Len(v) + Len(a)
      BY <1>1, <3>1, <3>2
    <3>4. v \o a = c
      <4>1. c \in Seq(STRING) /\ \A k \in 1 .. Len(v) : v[k] = c[k]
        BY <1>1, <3>1
      <4> QED
        BY <3>1, <3>2, <3>3, <4>1, Joined
    <3> QED
      BY <3>4 DEF v
  <2>5. Len(a) = 0 => c = w \o <<sp>>
    <3>1. Len(a) = 0 => a = <<>>
      BY <2>1
    <3>2. w \o <<sp>> \in Seq(STRING)
      BY <1>6, <2>3
    <3>3. (w \o <<sp>>) \o <<>> = w \o <<sp>>
      BY <3>2
    <3> QED
      BY <2>4, <3>1, <3>3
  <2> QED
    BY <1>7, <2>4, <2>5 DEF sp, a
<1> QED
  BY <1>1, <1>8, <1>9

LEMMA SInvArgs == ASSUME SInv, FirstWordFits(line) PROVE ArgsAsTyped
<1> SUFFICES ASSUME sh = "wait" PROVE ArgsAsTyped
  BY DEF ArgsAsTyped
<1>1. /\ line \in Lines /\ Parsed(line)
      /\ LET e == direntries[FirstEntry(fname)] IN
         Texts[e.inode_num] # <<>> => prog = Texts[e.inode_num][2]
  BY DEF SInv, ShellInv, ArgsInv
<1>2. /\ SPACE \notin {fname[k] : k \in 1 .. Len(fname)}
      /\ IF Len(ArgsOf(line)) = 0 THEN line \in {fname, fname \o <<SPACE>>}
         ELSE line = fname \o <<SPACE>> \o ArgsOf(line)
  <2>1. PICK c \in Lines : c = line
    BY <1>1
  <2>2. fname \in FnamesParsed(c) /\ FirstWordFits(c)
    BY <1>1, <2>1 DEF Parsed
  <2> QED
    BY <2>1, <2>2, LineInParts
<1>3. arg_length = Len(ArgsOf(line)) /\ CString(arg, 0) = ArgsOf(line)
  BY <1>1 DEF Parsed
<1>4. Len(ArgsOf(line)) \in Nat /\ Len(ArgsOf(line)) <= BUFSIZE
  <2>1. PICK c \in Lines : c = line
    BY <1>1
  <2>2. c \in Seq(STRING) /\ Len(c) \in Nat /\ FnameLength(c) \in 0 .. Len(c)
    BY FnameLengthFits
  <2>3. Len(c) < ARGLEN /\ ARGLEN \in Nat /\ BUFSIZE \in Nat
        /\ ARGLEN <= BUFSIZE
    BY LaunchAssumption
  <2>4. Len(ArgsOf(c)) \in Nat /\ Len(ArgsOf(c)) <= Len(c)
    BY <2>2 DEF ArgsOf
  <2> QED
    BY <2>1, <2>2, <2>3, <2>4
<1>5. CASE arg_length = 0
  BY <1>1, <1>2, <1>3, <1>5 DEF ArgsAsTyped
<1>6. CASE arg_length # 0
  <2>1. BUFSIZE \in Nat /\ ~(arg_length = 0 \/ arg_length > BUFSIZE)
    BY <1>3, <1>4, <1>6, LaunchAssumption
  <2>2. sys_getargs(BUFSIZE) = [code |-> 0, bytes |-> ArgsOf(line)]
    BY <1>3, <2>1 DEF sys_getargs
  <2>3. sys_getargs(BUFSIZE).code = 0
        /\ sys_getargs(BUFSIZE).bytes = ArgsOf(line)
    BY <2>2
  <2> QED
    BY <1>1, <1>2, <1>3, <1>6, <2>3 DEF ArgsAsTyped
<1> QED
  BY <1>5, <1>6

(***************************************************************************)
(* Theorems.                                                               *)
(***************************************************************************)
\* Every reachable state satisfies the inductive invariant.
THEOREM SystemSound == System => []SInv
BY InitSInv, SInvStep, PTL DEF System

\* The descriptors of the shell and of the program that it runs stay well
\* formed, and no program of src/syscalls reads beyond the end of a file.
THEOREM SystemTypeCorrect == System => [](TypeOK /\ WithinFile)
BY SystemSound, SInvTypes, PTL

\* After every command the shell says how it ended: not found, stopped by an
\* exception, or by the status that the program returned.
THEOREM ReportCorrect == System => []ShellReports
<1>1. SInv => ShellReports
  BY DEF SInv, EndInv
<1> QED
  BY <1>1, SystemSound, PTL

\* The program that runs is that of the file named first on the line, and
\* getargs gives it what stands behind, and nothing of earlier lines; for
\* every line whose first word is not longer than a file name can be.
THEOREM ArgsCorrect == System => [](FirstWordFits(line) => ArgsAsTyped)
<1>1. SInv => (FirstWordFits(line) => ArgsAsTyped)
  BY SInvArgs
<1> QED
  BY <1>1, SystemSound, PTL

\* All the calls of the shell and of its programs, the exits included, are
\* steps of OpenFiles.
THEOREM PromisesKept == System => KeepsPromises
BY SystemSound, PromisesInit, PromiseStep, PTL
   DEF System, KeepsPromises, Promises!Spec

(***************************************************************************)
(* syserr passes.                                                          *)
(***************************************************************************)
\* The calls that fail when no regular descriptor is in use.
RefusedCalls ==
  [op : {"read"}, on : AllFdArgs \ {0}]
  \cup [op : {"write"}, on : AllFdArgs \ {1}]
  \cup [op : {"close"}, on : AllFdArgs]
  \cup [op : {"open"}, on : {name \in AllNames : EntriesFor(name) = {}}]
  \cup [op : {"vidmap"}, on : {p \in Int : vidmap_code(p) = -1}]
  \cup [op : {"number"}, on : {n \in Int : number_code(n) = -1}]

LEMMA RefusedRead ==
  ASSUME IInv, NEW s \in Slots, NoneOpen(s), NEW fd \in Int, fd # 0,
         NEW n \in Int, Read(s, fd, n, FALSE)
  PROVE  NoneOpen(s)' /\ ret'.code = -1
<1>1. Moves(s)
  BY ReadDoes
<1>2. CannotRead(s, fd)
  BY DescriptorAssumption DEF CannotRead, NoneOpen, Regular
<1>3. ret' = Failed
  BY <1>2 DEF Read
<1> QED
  BY <1>1, <1>3, DescriptorAssumption DEF Failed, Moves, NoneOpen, Regular

LEMMA RefusedWrite ==
  ASSUME IInv, NEW s \in Slots, NoneOpen(s), NEW fd \in Int, fd # 1,
         NEW n \in Int, Write(s, fd, n, FALSE)
  PROVE  NoneOpen(s)' /\ ret'.code = -1
<1>1. UNCHANGED <<live, f_desc>> /\ (CannotWrite(s, fd) => ret'.code = -1)
  BY WriteDoes
<1>2. CannotWrite(s, fd)
  BY DescriptorAssumption DEF CannotWrite, NoneOpen, Regular
<1> QED
  BY <1>1, <1>2 DEF NoneOpen

LEMMA RefusedCallFails ==
  ASSUME SInv, Running, NoneOpen(Child), NEW c \in RefusedCalls, Perform(c)
  PROVE  NoneOpen(Child)' /\ ResultOf(c) = -1
<1> DEFINE n == 31
<1>1. n \in Int /\ IInv /\ Child \in Slots /\ AllFdArgs \subseteq Int
  BY RunningFacts, FdArgsAreInt
<1>2. Perform(c) <=>
        CASE c.op = "read" -> Read(Child, c.on, n, FALSE)
          [] c.op = "write" -> Write(Child, c.on, n, FALSE)
          [] c.op = "open" -> Open(Child, c.on)
          [] c.op = "close" -> Close(Child, c.on)
          [] c.op \in {"vidmap", "number"} -> UNCHANGED vars
  BY DEF Perform
<1> HIDE DEF n
<1>3. ASSUME c.op \notin {"vidmap", "number"}, NoneOpen(Child)',
             ret'.code = -1
      PROVE  NoneOpen(Child)' /\ ResultOf(c) = -1
  BY <1>3 DEF ResultOf
<1>4. CASE c \in [op : {"read"}, on : AllFdArgs \ {0}]
  <2>1. c.op = "read" /\ c.on \in Int /\ c.on # 0
    BY <1>1, <1>4
  <2>2. Read(Child, c.on, n, FALSE)
    BY <1>2, <2>1
  <2>3. NoneOpen(Child)' /\ ret'.code = -1
    BY <1>1, <2>1, <2>2, RefusedRead
  <2> QED
    BY <1>3, <2>1, <2>3
<1>5. CASE c \in [op : {"write"}, on : AllFdArgs \ {1}]
  <2>1. c.op = "write" /\ c.on \in Int /\ c.on # 1
    BY <1>1, <1>5
  <2>2. Write(Child, c.on, n, FALSE)
    BY <1>2, <2>1
  <2>3. NoneOpen(Child)' /\ ret'.code = -1
    BY <1>1, <2>1, <2>2, RefusedWrite
  <2> QED
    BY <1>3, <2>1, <2>3
<1>6. CASE c \in [op : {"close"}, on : AllFdArgs]
  <2>1. c.op = "close" /\ c.on \in Int
    BY <1>1, <1>6
  <2>2. Close(Child, c.on)
    BY <1>2, <2>1
  <2>3. ret'.code = -1 /\ UNCHANGED f_desc
    BY <1>1, <2>1, <2>2, CloseDoes DEF NoneOpen
  <2>4. NoneOpen(Child)'
    BY <2>3 DEF NoneOpen
  <2> QED
    BY <1>3, <2>1, <2>3, <2>4
<1>7. CASE c \in [op : {"open"},
                  on : {name \in AllNames : EntriesFor(name) = {}}]
  <2>1. c.op = "open" /\ EntriesFor(c.on) = {}
    BY <1>7
  <2>2. Open(Child, c.on)
    BY <1>2, <2>1
  <2>3. ret'.code = -1 /\ UNCHANGED f_desc
    BY <1>1, <2>1, <2>2, OpenDoes
  <2>4. NoneOpen(Child)'
    BY <2>3 DEF NoneOpen
  <2> QED
    BY <1>3, <2>1, <2>3, <2>4
<1>8. CASE \/ c \in [op : {"vidmap"}, on : {p \in Int : vidmap_code(p) = -1}]
           \/ c \in [op : {"number"}, on : {k \in Int : number_code(k) = -1}]
  <2>1. \/ c.op = "vidmap" /\ vidmap_code(c.on) = -1
        \/ c.op = "number" /\ number_code(c.on) = -1
    BY <1>8
  <2>2. UNCHANGED vars
    BY <1>2, <2>1
  <2>3. NoneOpen(Child)'
    BY <2>2 DEF NoneOpen, vars
  <2> QED
    BY <2>1, <2>3 DEF ResultOf
<1> QED
  BY <1>4, <1>5, <1>6, <1>7, <1>8 DEF RefusedCalls

AllRefused(sq) == sq \in Seq(RefusedCalls)

\* All tests but the third ask only for what has to fail.
LEMMA TestsRefused ==
  ASSUME SyserrImage, NEW t \in 1 .. 8, t # 3
  PROVE  Tests[t] \in Seq(RefusedCalls)
<1> DEFINE F == AllFdArgs
           Absent == {name \in AllNames : EntriesFor(name) = {}}
           BadPages == {p \in Int : vidmap_code(p) = -1}
           BadNumbers == {n \in Int : number_code(n) = -1}
<1>1. /\ \A x \in F \ {0} : [op |-> "read", on |-> x] \in RefusedCalls
      /\ \A x \in F \ {1} : [op |-> "write", on |-> x] \in RefusedCalls
      /\ \A x \in F : [op |-> "close", on |-> x] \in RefusedCalls
      /\ \A x \in Absent : [op |-> "open", on |-> x] \in RefusedCalls
      /\ \A x \in BadPages : [op |-> "vidmap", on |-> x] \in RefusedCalls
      /\ \A x \in BadNumbers : [op |-> "number", on |-> x] \in RefusedCalls
  BY DEF RefusedCalls
<1>2. /\ NEG_FD \in F \ {0, 1} /\ BIG_FD \in F \ {0, 1}
      /\ 0 \in F \ {1} /\ 1 \in F \ {0}
      /\ NUM_FD - 2 \in Nat \ {0} /\ NUM_FD \in Nat \ {0}
  <2>1. NEG_FD \in F /\ BIG_FD \in F /\ 0 \in F /\ 1 \in F
        /\ NUM_FD - 2 \in Nat \ {0} /\ NUM_FD \in Nat \ {0}
    BY DescriptorAssumption DEF AllFdArgs
  <2>2. NEG_FD \notin {0, 1} /\ BIG_FD \notin {0, 1}
    BY SMT DEF NEG_FD, BIG_FD
  <2> HIDE DEF F
  <2> QED
    BY <2>1, <2>2
<1>3. AllFds \in Seq(F) /\ RegularFds \in Seq(F \ {0, 1})
  <2>1. AllFds \in [1 .. NUM_FD -> F]
    BY DescriptorAssumption DEF AllFds, AllFdArgs
  <2>2. RegularFds \in [1 .. NUM_FD - 2 -> F \ {0, 1}]
    BY DescriptorAssumption DEF RegularFds, AllFdArgs
  <2> HIDE DEF F
  <2> QED
    BY <1>2, <2>1, <2>2
<1> HIDE DEF F, Absent, BadPages, BadNumbers
<1>4. ASSUME NEW op, NEW X, NEW fds \in Seq(X),
             \A x \in X : [op |-> op, on |-> x] \in RefusedCalls
      PROVE  AllRefused(Calls(op, fds))
  BY <1>4, CallsAre DEF AllRefused
<1>5. ASSUME NEW a, NEW b, AllRefused(a), AllRefused(b)
      PROVE  AllRefused(a \o b)
  BY <1>5 DEF AllRefused
<1>6. ASSUME NEW fds \in Seq(F \ {0, 1})
      PROVE  /\ AllRefused(Calls("read", fds))
             /\ AllRefused(Calls("write", fds))
             /\ AllRefused(Calls("close", fds))
  <2> DEFINE r == "read"  w == "write"  c == "close"
  <2>1. \A x \in F \ {0, 1} : /\ [op |-> r, on |-> x] \in RefusedCalls
                              /\ [op |-> w, on |-> x] \in RefusedCalls
                              /\ [op |-> c, on |-> x] \in RefusedCalls
    BY <1>1
  <2> HIDE DEF r, w, c
  <2>2. /\ AllRefused(Calls(r, fds)) /\ AllRefused(Calls(w, fds))
        /\ AllRefused(Calls(c, fds))
    BY <2>1, <1>4
  <2> QED
    BY <2>2 DEF r, w, c
<1>7. AllRefused(err_neg_fd) /\ AllRefused(err_big_fd)
  <2> DEFINE a == <<NEG_FD>>  b == <<BIG_FD>>
  <2>1. a \in Seq(F \ {0, 1}) /\ b \in Seq(F \ {0, 1})
    BY <1>2
  <2> HIDE DEF a, b
  <2>2. /\ AllRefused(Calls("read", a) \o Calls("write", a)
                      \o Calls("close", a))
        /\ AllRefused(Calls("read", b) \o Calls("write", b)
                      \o Calls("close", b))
    BY <1>5, <1>6, <2>1
  <2> QED
    BY <2>2 DEF err_neg_fd, err_big_fd, a, b
<1>8. AllRefused(err_stdin_out)
  <2> DEFINE a == <<0>>  b == <<1>>  r == "read"  w == "write"
  <2>1. a \in Seq(F \ {1}) /\ b \in Seq(F \ {0})
    BY <1>2
  <2>2. /\ \A x \in F \ {0} : [op |-> r, on |-> x] \in RefusedCalls
        /\ \A x \in F \ {1} : [op |-> w, on |-> x] \in RefusedCalls
    BY <1>1
  <2> HIDE DEF a, b, r, w
  <2>3. AllRefused(Calls(w, a) \o Calls(r, b))
    BY <1>4, <1>5, <2>1, <2>2
  <2> QED
    BY <2>3 DEF err_stdin_out, a, b, r, w
<1>9. AllRefused(err_unopened)
  <2> DEFINE c == "close"
  <2>1. \A x \in F : [op |-> c, on |-> x] \in RefusedCalls
    BY <1>1
  <2> HIDE DEF c
  <2>2. AllRefused(Calls(c, AllFds))
    BY <1>3, <1>4, <2>1
  <2> QED
    BY <1>3, <1>5, <1>6, <2>2 DEF err_unopened, c
<1>10. AllRefused(err_open)
  <2> DEFINE o == "open"
  <2>1. WrongNames \in Seq(Seq(STRING))
    BY ProgramAssumption
  <2>2. DOMAIN WrongNames = 1 .. Len(WrongNames) /\ Len(WrongNames) \in Nat
    BY <2>1
  <2>3. WrongNames \in [1 .. Len(WrongNames) -> Absent]
    BY <2>1, <2>2 DEF SyserrImage, AllNames, Absent
  <2>4. \A x \in Absent : [op |-> o, on |-> x] \in RefusedCalls
    BY <1>1
  <2> HIDE DEF o
  <2>5. WrongNames \in Seq(Absent)
    BY <2>2, <2>3
  <2>6. AllRefused(Calls(o, WrongNames))
    BY <1>4, <2>4, <2>5
  <2> QED
    BY <2>6 DEF err_open, o
<1>11. AllRefused(err_vidmap)
  <2> DEFINE a == <<0, 4194304>>  o == "vidmap"
  <2>1. 0 \in BadPages /\ 4194304 \in BadPages
    BY SMT DEF BadPages, vidmap_code, VIRSTART, VIREND
  <2>2. a \in Seq(BadPages)
    BY SMT, <2>1
  <2>3. \A x \in BadPages : [op |-> o, on |-> x] \in RefusedCalls
    BY <1>1
  <2> HIDE DEF a, o
  <2>4. AllRefused(Calls(o, a))
    BY <1>4, <2>2, <2>3
  <2> QED
    BY SMT, <2>4 DEF err_vidmap, a, o
<1>12. AllRefused(err_syscall_num)
  <2> DEFINE a == <<BIG_NUM, NEG_NUM, 0>>  o == "number"
  <2>1. BIG_NUM \in BadNumbers /\ NEG_NUM \in BadNumbers /\ 0 \in BadNumbers
    BY SMT DEF BadNumbers, number_code, BIG_NUM, NEG_NUM, SIGR_SYS_NUM
  <2>2. a \in Seq(BadNumbers)
    BY <2>1
  <2>3. \A x \in BadNumbers : [op |-> o, on |-> x] \in RefusedCalls
    BY <1>1
  <2> HIDE DEF a, o
  <2>4. AllRefused(Calls(o, a))
    BY <1>4, <2>2, <2>3
  <2> QED
    BY <2>4 DEF err_syscall_num, a, o
<1>13. AllRefused(Tests[t])
  BY <1>7, <1>8, <1>9, <1>10, <1>11, <1>12 DEF Tests
<1> QED
  BY <1>13 DEF AllRefused

\* The third opens the directory once more than there are descriptors, and
\* closes them all.
LEMMA TestOfOpens ==
  /\ Len(Tests[3]) = UPPB + (UPPB - 1)
  /\ \A k \in 1 .. UPPB : Tests[3][k] = [op |-> "open", on |-> <<".">>]
  /\ \A k \in 1 .. UPPB - 1 :
       Tests[3][UPPB + k] = [op |-> "close", on |-> k + 1]
<1> DEFINE dots == [i \in 1 .. UPPB |-> <<".">>]
           a == Calls("open", dots)
           b == Calls("close", RegularFds)
<1>1. UPPB \in Nat /\ UPPB > 1 /\ NUM_FD - 2 = UPPB - 1
  BY DescriptorAssumption
<1>2. a = [i \in 1 .. UPPB |-> [op |-> "open", on |-> <<".">>]]
  BY DEF Calls
<1>3. b = [i \in 1 .. UPPB - 1 |-> [op |-> "close", on |-> i + 1]]
  BY <1>1 DEF Calls, RegularFds
<1>4. a \in Seq(CallsMade) /\ b \in Seq(CallsMade)
      /\ Len(a) = UPPB /\ Len(b) = UPPB - 1
  <2>1. <<".">> \in AllNames
    BY DEF AllNames
  <2> DEFINE c == [op |-> "open", on |-> <<".">>]
  <2>2. c \in CallsMade
    BY <2>1 DEF CallsMade
  <2>3. a = [i \in 1 .. UPPB |-> c]
    BY <1>2
  <2>4. b \in [1 .. UPPB - 1 -> CallsMade]
    BY <1>3, DescriptorAssumption DEF CallsMade, AllFdArgs
  <2> HIDE DEF a, b, c
  <2> QED
    BY <1>1, <2>2, <2>3, <2>4
<1>5. Tests[3] = a \o b
  BY DEF Tests, err_open_lots
<1> HIDE DEF a, b
<1>6. Len(a \o b) = UPPB + (UPPB - 1)
  BY <1>1, <1>4
<1>7. \A k \in 1 .. UPPB : (a \o b)[k] = a[k]
  BY <1>1, <1>4
<1>8. \A k \in 1 .. UPPB - 1 : (a \o b)[UPPB + k] = b[k]
  <2> SUFFICES ASSUME NEW k \in 1 .. UPPB - 1
               PROVE  (a \o b)[UPPB + k] = b[k]
    OBVIOUS
  <2>1. UPPB + k \in 1 .. Len(a) + Len(b) /\ ~(UPPB + k <= Len(a))
        /\ UPPB + k - Len(a) = k
    BY <1>1, <1>4
  <2> QED
    BY <1>4, <2>1
<1> QED
  BY <1>2, <1>3, <1>5, <1>6, <1>7, <1>8

\* The flags of a PCB in the course of the third test.
AllFree(row) == \A fd \in Regular : row[fd].flag = 1
UpTo(row, k) == \A fd \in Regular : row[fd].flag = 0 <=> fd <= k
Beyond(row, k) == \A fd \in Regular : row[fd].flag = 0 <=> fd > k

GoesOnAt(row, tests, k, refused, accepted) ==
  tests # <<>> =>
    IF Head(tests) # 3 THEN AllFree(row) /\ accepted = 0
    ELSE IF k <= UPPB THEN refused = 0 /\ UpTo(row, k)
    ELSE refused = 1 /\ Beyond(row, k - UPPB)

\* What syserr says as long as nothing fails.
Notices == {"Invalid test number.", "PASS"}

Passing ==
  /\ sh = "ready" => shown = <<>>
  /\ prog = "syserr" =>
       /\ shown \in Seq(Notices)
       /\ pc = "start" => AllFree(f_desc[Child])
       /\ pc = "call" =>
            /\ loc.fail = 0
            /\ GoesOnAt(f_desc[Child], loc.tests, loc.call, loc.refused,
                        loc.accepted)
       /\ pc = "exit" /\ ending.how = "exit" => ending.status = 0

LEMMA PassingPasses == Passing => SyserrPasses
<1> SUFFICES ASSUME Passing, pc = "exit", prog = "syserr",
                    ending.how = "exit"
             PROVE  /\ ending.status = 0
                    /\ "FAIL" \notin {shown[i] : i \in DOMAIN shown}
  BY DEF SyserrPasses
<1>1. ending.status = 0 /\ shown \in Seq(Notices)
  BY DEF Passing
<1>2. \A i \in DOMAIN shown : shown[i] \in Notices
  BY <1>1
<1>3. "FAIL" \notin Notices
  BY DEF Notices
<1> QED
  BY <1>1, <1>2, <1>3

LEMMA FirstGoesOn ==
  ASSUME NEW row, AllFree(row), NEW tests
  PROVE  GoesOnAt(row, tests, 1, 0, 0)
BY DescriptorAssumption DEF GoesOnAt, AllFree, UpTo, Regular

\* One more open, or the one too many.
LEMMA OpensOneMore ==
  ASSUME IInv, NEW s \in Slots, NEW name, EntriesFor(name) # {},
         NEW k \in 1 .. UPPB, UpTo(f_desc[s], k), Open(s, name)
  PROVE  IF k < UPPB THEN ret'.code # -1 /\ UpTo(f_desc'[s], k + 1)
         ELSE ret'.code = -1 /\ f_desc' = f_desc
<1>1. f_desc[s] \in Rows /\ \A fd \in Regular : f_desc[s][fd].flag \in {0, 1}
  BY DescriptorAssumption DEF IInv, Rows, Descriptor, Regular
<1>2. FreeFds(s) = {fd \in Regular : fd > k}
  BY <1>1 DEF FreeFds, UpTo, Regular
<1>3. CASE k < UPPB
  <2>1. k + 1 \in FreeFds(s) /\ \A fd \in FreeFds(s) : k + 1 <= fd
    BY <1>2, <1>3, DescriptorAssumption DEF Regular
  <2>2. /\ ret'.code \in FreeFds(s) /\ Sets(s, ret'.code, 0)
        /\ \A fd \in FreeFds(s) : ret'.code <= fd
    BY <2>1, OpenDoes
  <2>3. ret'.code = k + 1
    BY <1>2, <2>1, <2>2 DEF Regular
  <2>4. /\ f_desc'[s][k + 1].flag = 0
        /\ \A d \in 0 .. UPPB : d # k + 1 => f_desc'[s][d] = f_desc[s][d]
    BY <2>2, <2>3 DEF Sets
  <2>5. ASSUME NEW fd \in Regular
        PROVE  f_desc'[s][fd].flag = 0 <=> fd <= k + 1
    <3>1. CASE fd = k + 1
      BY <2>4, <3>1
    <3>2. CASE fd # k + 1
      BY <2>4, <3>2, DescriptorAssumption DEF UpTo, Regular
    <3> QED
      BY <3>1, <3>2
  <2> QED
    BY <1>3, <2>3, <2>5 DEF UpTo
<1>4. CASE ~(k < UPPB)
  <2>1. FreeFds(s) = {}
    BY <1>2, <1>4, DescriptorAssumption DEF Regular
  <2> QED
    BY <1>4, <2>1, OpenDoes
<1> QED
  BY <1>3, <1>4

LEMMA ClosesOne ==
  ASSUME IInv, NEW s \in Slots, NEW k \in 1 .. UPPB - 1,
         Beyond(f_desc[s], k), Close(s, k + 1)
  PROVE  Beyond(f_desc'[s], k + 1)
<1> DEFINE c == k + 1
<1>1. c \in Regular /\ c \in Int /\ f_desc[s][c].flag = 0
  BY DescriptorAssumption DEF Beyond, Regular
<1>2. Close(s, c)
  OBVIOUS
<1> HIDE DEF c
<1>3. Sets(s, c, 1)
  BY <1>1, <1>2, CloseDoes
<1>4. /\ f_desc'[s][c].flag = 1
      /\ \A d \in 0 .. UPPB : d # c => f_desc'[s][d] = f_desc[s][d]
  BY <1>3 DEF Sets
<1>5. ASSUME NEW fd \in Regular PROVE f_desc'[s][fd].flag = 0 <=> fd > k + 1
  <2>1. CASE fd = c
    BY <1>4, <2>1 DEF c
  <2>2. CASE fd # c
    BY <1>4, <2>2, DescriptorAssumption DEF Beyond, Regular, c
  <2> QED
    BY <2>1, <2>2
<1> QED
  BY <1>5 DEF Beyond

\* The third test goes on.
LEMMA OpensGoOn ==
  ASSUME NEW row, NEW tests, Head(tests) = 3, NEW k, NEW refused, NEW accepted,
         k <= UPPB, refused = 0, UpTo(row, k)
  PROVE  GoesOnAt(row, tests, k, refused, accepted)
BY DEF GoesOnAt

LEMMA ClosesGoOn ==
  ASSUME NEW row, NEW tests, Head(tests) = 3, NEW k, NEW refused, NEW accepted,
         ~(k <= UPPB), refused = 1, NEW j, j = k - UPPB, Beyond(row, j)
  PROVE  GoesOnAt(row, tests, k, refused, accepted)
BY DEF GoesOnAt

LEMMA InitPassing == LaunchInit => Passing
BY DEF LaunchInit, Passing

LEMMA ShellPasses ==
  ASSUME SInv, Passing, ShellNext PROVE Passing'
<1>1. CASE Boot \/ ShellExit \/ ShellSkip \/ ShellReport
  <2>1. sh' \in {"prompt"} /\ prog' = prog /\ sh # "wait"
    BY <1>1 DEF Boot, ShellExit, ShellSkip, ShellReport, child
  <2> QED
    BY <2>1 DEF Passing, SInv, ShellInv
<1>2. CASE ShellRead
  <2>1. sh = "prompt" /\ prog' = prog /\ shown' = <<>>
    BY <1>2 DEF ShellRead
  <2> QED
    BY <2>1 DEF Passing, SInv, ShellInv
<1>3. CASE ShellExecute
  <2>1. sh = "ready" /\ shown = <<>> /\ prog = "none" /\ IInv
        /\ Child \in Slots
    BY <1>3, LaunchAssumption DEF ShellExecute, Passing, SInv, ShellInv
  <2>2. Refused \/ \E i : Launched(i)
    BY <1>3 DEF ShellExecute, sys_execute
  <2>3. CASE Refused
    BY <2>1, <2>3 DEF Refused, Passing
  <2>4. CASE \E i : Launched(i)
    <3>1. /\ sh' = "wait" /\ pc' = "start" /\ shown' = shown
          /\ f_desc' = [f_desc EXCEPT ![Child] = Fresh(f_desc[Child])]
      BY <2>4 DEF Launched, Execute
    <3>2. f_desc'[Child] = Fresh(f_desc[Child])
      BY <2>1, <3>1 DEF IInv
    <3>3. AllFree(f_desc'[Child])
      BY <3>2, DescriptorAssumption DEF AllFree, Fresh, Cleared, Regular
    <3>4. shown' \in Seq(Notices)
      BY <2>1, <3>1
    <3> QED
      BY <3>1, <3>3, <3>4 DEF Passing
  <2> QED
    BY <2>2, <2>3, <2>4
<1> QED
  BY <1>1, <1>2, <1>3 DEF ShellNext

LEMMA OtherPasses ==
  ASSUME SInv, UNCHANGED <<kernel, shell, prog>>, prog \notin {"none", "syserr"}
  PROVE  Passing'
BY DEF Passing, SInv, ShellInv, shell

LEMMA NoticeIsSaid ==
  ASSUME NEW said \in Seq(Notices), NEW notice \in Notices
  PROVE  said \o <<notice>> \in Seq(Notices)
OBVIOUS

LEMMA SyserrStartPasses ==
  ASSUME SInv, Passing, UNCHANGED <<kernel, shell, prog>>, SyserrStart
  PROVE  Passing'
<1>1. /\ prog = "syserr" /\ pc = "start" /\ Running /\ prog' = prog
      /\ sh = "wait" /\ sh' = sh
  BY RunningFacts DEF SyserrStart, At, Running, shell
<1>2. shown \in Seq(Notices) /\ AllFree(f_desc[Child])
  BY <1>1 DEF Passing
<1>3. AllFree(f_desc'[Child])
  <2>1. Moves(Child)
    BY <1>1, RunningFacts, KeyboardRead DEF SyserrStart, ReadKeyboard
  <2> QED
    BY <1>2, <2>1, DescriptorAssumption DEF AllFree, Moves, Regular
<1> DEFINE message == "Invalid test number."
<1>4. message \in Notices
  BY DEF Notices
<1>5. \/ Fail(message, 0)
      \/ \E tests : /\ Go("call", SyserrAt(tests, 1, 0, 0, 0))
                    /\ shown' = shown
  BY DEF SyserrStart, SyserrAt
<1> HIDE DEF message
<1>6. CASE Fail(message, 0)
  <2>1. /\ shown' = shown \o <<message>> /\ pc' = "exit"
        /\ ending'.status = 0
    BY <1>6 DEF Fail, Say, Exit
  <2>2. shown' \in Seq(Notices)
    BY <1>2, <1>4, <2>1, NoticeIsSaid
  <2> QED
    BY <1>1, <2>1, <2>2 DEF Passing
<1>7. ASSUME NEW tests, Go("call", SyserrAt(tests, 1, 0, 0, 0)),
             shown' = shown
      PROVE  Passing'
  <2>1. pc' = "call" /\ loc' = SyserrAt(tests, 1, 0, 0, 0)
    BY <1>7 DEF Go
  <2>2. GoesOnAt(f_desc'[Child], loc'.tests, loc'.call, loc'.refused,
                 loc'.accepted)
    BY <1>3, <2>1, FirstGoesOn DEF SyserrAt
  <2>3. loc'.fail = 0
    BY <2>1 DEF SyserrAt
  <2> QED
    BY <1>1, <1>2, <1>7, <2>1, <2>2, <2>3 DEF Passing
<1> QED
  BY <1>5, <1>6, <1>7

\* What a call leaves is what the next call of its test begins with, and a
\* test that is over has passed.
LEMMA TestGoesOn ==
  ASSUME SyserrImage, SInv, Passing, UNCHANGED <<kernel, shell, prog>>,
         SyserrCall, NEW t, t = Head(loc.tests), NEW c, c = Tests[t][loc.call],
         NEW refused, NEW accepted,
         refused = loc.refused + (IF c.op = "open" /\ ResultOf(c) = -1
                                    THEN 1 ELSE 0),
         accepted = loc.accepted + (IF ResultOf(c) # -1 THEN 1 ELSE 0)
  PROVE  /\ loc.call < Len(Tests[t]) =>
              GoesOnAt(f_desc'[Child], loc.tests, loc.call + 1, refused,
                       accepted)
         /\ ~(loc.call < Len(Tests[t])) =>
              /\ AllFree(f_desc'[Child])
              /\ IF t = 3 THEN refused = 1 ELSE accepted = 0
<1>1. /\ prog = "syserr" /\ pc = "call" /\ Running /\ loc.tests # <<>>
      /\ Perform(c)
  BY DEF SyserrCall, At, Running
<1>2. loc \in SyserrLocals /\ loc.call \in 1 .. Len(Tests[t])
  BY <1>1 DEF SInv, LocalInv, SyserrInv, At
<1>3. loc.tests \in Seq(1 .. 8) /\ loc.call \in Nat
  BY <1>2 DEF SyserrLocals
<1>4. t \in 1 .. 8
  BY <1>1, <1>3
<1>5. GoesOnAt(f_desc[Child], loc.tests, loc.call, loc.refused, loc.accepted)
  BY <1>1 DEF Passing
<1>6. IInv /\ Child \in Slots
  BY <1>1, RunningFacts
<1>7. CASE t # 3
  <2>1. AllFree(f_desc[Child]) /\ loc.accepted = 0
    BY <1>1, <1>5, <1>7 DEF GoesOnAt
  <2>2. c \in RefusedCalls
    <3>1. Tests[t] \in Seq(RefusedCalls)
      BY <1>4, <1>7, TestsRefused
    <3> DEFINE q == Tests[t]  k == loc.call
    <3>2. q \in Seq(RefusedCalls) /\ k \in 1 .. Len(q) /\ c = q[k]
      BY <1>2, <3>1
    <3> HIDE DEF q, k
    <3> QED
      BY <3>2
  <2>3. NoneOpen(Child)' /\ ResultOf(c) = -1
    BY <1>1, <2>1, <2>2, RefusedCallFails DEF NoneOpen, AllFree
  <2>4. AllFree(f_desc'[Child]) /\ accepted = 0
    BY <2>1, <2>3 DEF NoneOpen, AllFree
  <2> QED
    BY <1>1, <1>7, <2>4 DEF GoesOnAt
<1>8. CASE t = 3 /\ loc.call <= UPPB
  <2> DEFINE name == <<".">>  k == loc.call
  <2>1. k \in 1 .. UPPB /\ loc.refused = 0 /\ UpTo(f_desc[Child], k)
    BY <1>1, <1>2, <1>3, <1>5, <1>8 DEF GoesOnAt
  <2>2. c = [op |-> "open", on |-> name]
    BY <1>8, <2>1, TestOfOpens
  <2>3. c.op = "open" /\ c.on = name
    BY <2>2
  <2>4. Open(Child, name) /\ ResultOf(c) = ret'.code
    BY <1>1, <2>3 DEF Perform, ResultOf
  <2>5. EntriesFor(name) # {}
    BY DEF SyserrImage
  <2> HIDE DEF name
  <2>6. IF k < UPPB THEN ret'.code # -1 /\ UpTo(f_desc'[Child], k + 1)
        ELSE ret'.code = -1 /\ f_desc' = f_desc
    BY <1>6, <2>1, <2>4, <2>5, OpensOneMore
  <2>7. Len(Tests[t]) = UPPB + (UPPB - 1) /\ UPPB \in Nat /\ UPPB > 1
    BY <1>8, TestOfOpens, DescriptorAssumption
  <2>8. k < Len(Tests[t])
    BY <2>1, <2>7
  <2>9. CASE k < UPPB
    <3>1. ResultOf(c) # -1
      BY <2>4, <2>6, <2>9
    <3>2. refused = 0
      BY <2>1, <3>1
    <3>3. k + 1 <= UPPB
      BY <2>1, <2>7, <2>9
    <3>4. UpTo(f_desc'[Child], k + 1)
      BY <2>6, <2>9
    <3>5. GoesOnAt(f_desc'[Child], loc.tests, k + 1, refused, accepted)
      BY <1>8, <3>2, <3>3, <3>4, OpensGoOn
    <3> QED
      BY <2>8, <3>5
  <2>10. CASE ~(k < UPPB)
    <3>1. k = UPPB
      BY <2>1, <2>7, <2>10
    <3>2. refused = 1
      <4>1. ResultOf(c) = -1
        BY <2>4, <2>6, <2>10
      <4> QED
        BY <2>1, <2>3, <4>1
    <3>5. ~(k + 1 <= UPPB) /\ 1 = k + 1 - UPPB
      <4>1. k \in Int /\ UPPB \in Int
        BY <1>3, <2>7
      <4> HIDE DEF k, UPPB
      <4> QED
        BY <3>1, <4>1
    <3>3. UpTo(f_desc[Child], UPPB) /\ f_desc' = f_desc
      BY <2>1, <2>6, <2>10, <3>1
    <3>4. Beyond(f_desc'[Child], 1)
      BY <3>3, DescriptorAssumption DEF UpTo, Beyond, Regular
    <3>6. GoesOnAt(f_desc'[Child], loc.tests, k + 1, refused, accepted)
      <4> DEFINE m == k + 1  j == 1
      <4>1. ~(m <= UPPB) /\ j = m - UPPB /\ Beyond(f_desc'[Child], j)
        <5>1. ~(m <= UPPB) /\ j = m - UPPB
          BY <1>3, <2>7, <3>1, <3>5, DescriptorAssumption
        <5>2. Beyond(f_desc'[Child], j)
          BY <3>4
        <5> QED
          BY <5>1, <5>2
      <4>2. Head(loc.tests) = 3
        BY <1>8
      <4> HIDE DEF m, j
      <4>3. GoesOnAt(f_desc'[Child], loc.tests, m, refused, accepted)
        BY <3>2, <4>1, <4>2, ClosesGoOn
      <4> QED
        BY <4>3 DEF m
    <3> QED
      BY <2>8, <3>6
  <2> QED
    BY <2>9, <2>10
<1>9. CASE t = 3 /\ ~(loc.call <= UPPB)
  <2> DEFINE k == loc.call - UPPB
  <2>1. Len(Tests[t]) = UPPB + (UPPB - 1) /\ UPPB \in Nat /\ UPPB > 1
    BY <1>9, TestOfOpens, DescriptorAssumption
  <2>2. k \in 1 .. UPPB - 1 /\ loc.call = UPPB + k
    BY <1>2, <1>9, <2>1
  <2>3. loc.refused = 1 /\ Beyond(f_desc[Child], k)
    BY <1>1, <1>5, <1>9 DEF GoesOnAt
  <2> HIDE DEF k
  <2>4. c = [op |-> "close", on |-> k + 1]
    BY <1>9, <2>2, TestOfOpens
  <2>5. c.op = "close" /\ c.on = k + 1
    BY <2>4
  <2>6. Close(Child, k + 1)
    BY <1>1, <2>5 DEF Perform
  <2>7. refused = 1
    BY <2>3, <2>5
  <2>8. Beyond(f_desc'[Child], k + 1)
    BY <1>6, <2>2, <2>3, <2>6, ClosesOne
  <2>9. CASE loc.call < Len(Tests[t])
    <3>1. ~(loc.call + 1 <= UPPB) /\ loc.call + 1 - UPPB = k + 1
      BY <1>3, <1>9, <2>1, <2>2
    <3>2. GoesOnAt(f_desc'[Child], loc.tests, loc.call + 1, refused, accepted)
      <4> DEFINE m == loc.call + 1  j == k + 1
      <4>1. ~(m <= UPPB) /\ j = m - UPPB /\ Beyond(f_desc'[Child], j)
        <5>1. ~(m <= UPPB) /\ j = m - UPPB
          BY <1>3, <1>9, <2>1, <2>2, <3>1, DescriptorAssumption
        <5>2. Beyond(f_desc'[Child], j)
          BY <2>8
        <5> QED
          BY <5>1, <5>2
      <4>2. Head(loc.tests) = 3
        BY <1>9
      <4> HIDE DEF m, j
      <4>3. GoesOnAt(f_desc'[Child], loc.tests, m, refused, accepted)
        BY <2>7, <4>1, <4>2, ClosesGoOn
      <4> QED
        BY <4>3 DEF m
    <3> QED
      BY <2>9, <3>2
  <2>10. CASE ~(loc.call < Len(Tests[t]))
    <3>1. k + 1 = UPPB
      BY <1>2, <2>1, <2>2, <2>10
    <3>2. IInv'
      BY SInvStep, SyserrCallKept DEF Kept, SInv
    <3>3. \A fd \in Regular : f_desc'[Child][fd].flag \in {0, 1}
      <4>1. f_desc'[Child] \in Rows
        BY <1>6, <3>2 DEF IInv
      <4> QED
        BY <4>1, DescriptorAssumption DEF Rows, Descriptor, Regular
    <3>4. AllFree(f_desc'[Child])
      BY <2>8, <3>1, <3>3, DescriptorAssumption DEF AllFree, Beyond, Regular
    <3> QED
      BY <1>9, <2>7, <2>10, <3>4
  <2> QED
    BY <2>9, <2>10
<1> QED
  BY <1>7, <1>8, <1>9

LEMMA SyserrCallPasses ==
  ASSUME SyserrImage, SInv, Passing, UNCHANGED <<kernel, shell, prog>>,
         SyserrCall
  PROVE  Passing'
<1> DEFINE t == Head(loc.tests)
           c == Tests[t][loc.call]
           refused == loc.refused + IF c.op = "open" /\ ResultOf(c) = -1
                                      THEN 1 ELSE 0
           accepted == loc.accepted + IF ResultOf(c) # -1 THEN 1 ELSE 0
           failed == IF t = 3 THEN refused # 1 ELSE accepted # 0
           more == IF failed THEN 2 ELSE 0
           notice == IF failed THEN "FAIL" ELSE "PASS"
<1>1. /\ prog = "syserr" /\ pc = "call" /\ Running /\ prog' = prog
      /\ sh = "wait" /\ sh' = sh /\ loc.tests # <<>>
  BY RunningFacts DEF SyserrCall, At, Running, shell
<1>2. shown \in Seq(Notices) /\ loc.fail = 0 /\ loc \in SyserrLocals
  BY <1>1 DEF Passing, SInv, LocalInv, SyserrInv, At
<1>3. /\ loc.call < Len(Tests[t]) =>
           GoesOnAt(f_desc'[Child], loc.tests, loc.call + 1, refused,
                    accepted)
      /\ ~(loc.call < Len(Tests[t])) => AllFree(f_desc'[Child]) /\ ~failed
  <2> DEFINE r == refused  a == accepted  d == c  u == t
  <2>1. u = Head(loc.tests) /\ d = Tests[u][loc.call]
    OBVIOUS
  <2>2. /\ r = loc.refused + (IF d.op = "open" /\ ResultOf(d) = -1
                                THEN 1 ELSE 0)
        /\ a = loc.accepted + (IF ResultOf(d) # -1 THEN 1 ELSE 0)
    OBVIOUS
  <2> HIDE DEF r, a, d, u
  <2>3. /\ loc.call < Len(Tests[u]) =>
             GoesOnAt(f_desc'[Child], loc.tests, loc.call + 1, r, a)
        /\ ~(loc.call < Len(Tests[u])) =>
             AllFree(f_desc'[Child]) /\ IF u = 3 THEN r = 1 ELSE a = 0
    BY <2>1, <2>2, TestGoesOn
  <2> QED
    BY <2>3 DEF r, a, d, u
<1>4. \/ /\ loc.call < Len(Tests[t])
         /\ Go("call", [loc EXCEPT !.call = @ + 1, !.refused = refused,
                                   !.accepted = accepted])
         /\ shown' = shown
      \/ /\ ~(loc.call < Len(Tests[t]))
         /\ Go("call", SyserrAt(Tail(loc.tests), 1, loc.fail + more, 0, 0))
         /\ shown' = shown \o <<notice>>
  BY DEF SyserrCall, SyserrAt, Say
<1> HIDE DEF t, c, refused, accepted
<1>5. CASE /\ loc.call < Len(Tests[t])
           /\ Go("call", [loc EXCEPT !.call = @ + 1, !.refused = refused,
                                     !.accepted = accepted])
           /\ shown' = shown
  <2>1. /\ pc' = "call"
        /\ loc' = [loc EXCEPT !.call = @ + 1, !.refused = refused,
                              !.accepted = accepted]
    BY <1>5 DEF Go
  <2>2. /\ loc'.tests = loc.tests /\ loc'.call = loc.call + 1
        /\ loc'.fail = 0 /\ loc'.refused = refused
        /\ loc'.accepted = accepted
    BY <1>2, <2>1 DEF SyserrLocals
  <2>3. GoesOnAt(f_desc'[Child], loc'.tests, loc'.call, loc'.refused,
                 loc'.accepted)
    BY <1>3, <1>5, <2>2
  <2> QED
    BY <1>1, <1>2, <1>5, <2>1, <2>2, <2>3 DEF Passing
<1>6. CASE /\ ~(loc.call < Len(Tests[t]))
           /\ Go("call", SyserrAt(Tail(loc.tests), 1, loc.fail + more, 0, 0))
           /\ shown' = shown \o <<notice>>
  <2>1. AllFree(f_desc'[Child]) /\ ~failed
    BY <1>3, <1>6
  <2>2. /\ pc' = "call"
        /\ loc' = SyserrAt(Tail(loc.tests), 1, 0, 0, 0)
    BY <1>2, <1>6, <2>1 DEF Go
  <2>3. loc'.fail = 0 /\ GoesOnAt(f_desc'[Child], loc'.tests, loc'.call,
                                  loc'.refused, loc'.accepted)
    BY <2>1, <2>2, FirstGoesOn DEF SyserrAt
  <2>4. notice \in Notices
    BY <2>1 DEF Notices
  <2> HIDE DEF notice
  <2>5. shown' \in Seq(Notices)
    BY <1>2, <1>6, <2>4, NoticeIsSaid
  <2> QED
    BY <1>1, <2>2, <2>3, <2>5 DEF Passing
<1> QED
  BY <1>4, <1>5, <1>6

LEMMA SyserrEndPasses ==
  ASSUME SInv, Passing, UNCHANGED <<kernel, shell, prog>>, SyserrEnd
  PROVE  Passing'
<1>1. /\ prog = "syserr" /\ pc = "call" /\ Running /\ prog' = prog
      /\ sh = "wait" /\ sh' = sh /\ Exit(loc.fail) /\ shown' = shown
  BY RunningFacts DEF SyserrEnd, At, Running, shell
<1>2. shown \in Seq(Notices) /\ loc.fail = 0
  BY <1>1 DEF Passing
<1>3. pc' = "exit" /\ ending' = [how |-> "exit", status |-> 0]
  BY <1>1, <1>2 DEF Exit
<1> QED
  BY <1>1, <1>2, <1>3 DEF Passing

LEMMA ProgramPasses ==
  ASSUME SyserrImage, SInv, Passing,
         ProgramStep(Supplied) \/ ProgramStep(AnyProgram)
  PROVE  Passing'
<1>1. UNCHANGED <<kernel, shell, prog>>
  BY DEF ProgramStep
<1>2. CASE Syserr
  BY <1>1, <1>2, SyserrStartPasses, SyserrCallPasses, SyserrEndPasses
     DEF Syserr
<1>3. CASE prog \notin {"none", "syserr"}
  BY <1>1, <1>3, OtherPasses
<1>4. Syserr \/ prog \in {"cat", "ls", "grep", "counter", "sigtest", "any"}
  BY DEF ProgramStep, Supplied, AnyProgram, At, Cat, CatStart, CopyRead,
         CopyWrite, Ls, LsStart, Grep, GrepStart, GrepName, GrepOpen, GrepFill,
         GrepClose, Counter, CounterStart, CounterCount, Sigtest, SigtestStart,
         SigtestStore
<1> QED
  BY <1>2, <1>3, <1>4

LEMMA PassingStep ==
  SyserrImage /\ SInv /\ Passing /\ [SystemNext]_allvars => Passing'
<1> SUFFICES ASSUME SyserrImage, SInv, Passing, [SystemNext]_allvars
             PROVE  Passing'
  OBVIOUS
<1>1. CASE ChildHalts
  <2>1. sh' = "report" /\ prog' = "none"
    BY <1>1 DEF ChildHalts
  <2> QED
    BY <2>1 DEF Passing
<1>2. CASE UNCHANGED allvars
  BY <1>2 DEF allvars, vars, shell, child, Passing
<1> QED
  BY <1>1, <1>2, ShellPasses, ProgramPasses DEF SystemNext

\* syserr finds no test that fails, with any number of descriptors and
\* whatever programs ran before it in its slot: what an earlier process left
\* in the PCB is never a descriptor of the next one, and the one open that is
\* refused is the one too many.
THEOREM SyserrCorrect == ASSUME SyserrImage PROVE System => []SyserrPasses
<1>1. LaunchInit => Passing
  BY InitPassing
<1>2. SInv /\ Passing /\ [SystemNext]_allvars => Passing'
  BY PassingStep
<1>3. Passing => SyserrPasses
  BY PassingPasses
<1> QED
  BY <1>1, <1>2, <1>3, SystemSound, PTL DEF System
=============================================================================
