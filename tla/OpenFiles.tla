------------------------------ MODULE OpenFiles ------------------------------
(***************************************************************************)
(* What the file system calls promise to a process: descriptors of its     *)
(* own, each with a place in one file that starts at the beginning and     *)
(* moves with every read; and nothing left over from the process that had  *)
(* the same slot before.                                                   *)
(***************************************************************************)
EXTENDS FileSystem

CONSTANTS
  Slots,       \* process slots
  Fds,         \* the descriptors that open may give
  Names,       \* the names that programs pass
  FdArgs,      \* the descriptors that programs pass
  Sizes        \* the sizes that programs pass

VARIABLES
  live,        \* the slots with a process
  open,        \* the open descriptors of each slot
  call,        \* the last call: operation, process, descriptor or name
  ret          \* what it returned

vars == <<live, open, call, ret>>

NoFiles == [fd \in {} |-> NULL]
Code(c) == [code |-> c, bytes |-> <<>>]
Asked(op, s, fd, name) ==
  call' = [op |-> op, by |-> s, fd |-> fd, name |-> name]

Init ==
  /\ live = {}
  /\ open = [s \in Slots |-> NoFiles]
  /\ call = [op |-> "none", by |-> NULL, fd |-> NULL, name |-> <<>>]
  /\ ret = Code(0)

Start(s) ==
  /\ s \notin live
  /\ live' = live \cup {s}
  /\ UNCHANGED <<open, call, ret>>

\* The files of a process end with it.
End(s) ==
  /\ s \in live
  /\ live' = live \ {s}
  /\ open' = [open EXCEPT ![s] = NoFiles]
  /\ UNCHANGED <<call, ret>>

Set(s, fd, place) ==
  open' = [open EXCEPT ![s] = [d \in DOMAIN @ \cup {fd} |->
                                 IF d = fd THEN place ELSE @[d]]]

\* A descriptor that is not in use, at the beginning of the file; -1 only
\* for a name that is not there or when all descriptors are in use.
Open(s, name) ==
  /\ s \in live
  /\ Asked("open", s, NULL, name)
  /\ \/ \E i \in EntriesFor(name), fd \in Fds \ DOMAIN open[s] :
          /\ \A j \in EntriesFor(name) : i <= j
          /\ LET e == direntries[i] IN
             Set(s, fd, [kind |-> e.filetype,
                         inode |-> IF e.filetype = "file" THEN e.inode_num
                                   ELSE 0,
                         offset |-> 0])
          /\ ret' = Code(fd)
     \/ /\ EntriesFor(name) = {} \/ Fds \subseteq DOMAIN open[s]
        /\ ret' = Failed
        /\ UNCHANGED open
  /\ UNCHANGED live

Close(s, fd) ==
  /\ s \in live
  /\ Asked("close", s, fd, <<>>)
  /\ \/ /\ fd \in DOMAIN open[s]
        /\ open' = [open EXCEPT ![s] = [d \in DOMAIN @ \ {fd} |-> @[d]]]
        /\ ret' = Code(0)
     \/ /\ fd \notin DOMAIN open[s]
        /\ ret' = Failed
        /\ UNCHANGED open
  /\ UNCHANGED live

\* The next bytes of the file, as many as there are and as were asked for.
ReadFile(s, fd, n, null) ==
  LET p == open[s][fd]
      text == Texts[p.inode]
      b == SubSeq(text, p.offset + 1, Least(p.offset + n, Len(text)))
  IN
  /\ p.kind = "file"
  /\ \/ /\ p.offset >= Len(text)
        /\ ret' = Code(0)
        /\ UNCHANGED open
     \/ /\ p.offset < Len(text) /\ (n = 0 \/ null)
        /\ ret' = Failed
        /\ UNCHANGED open
     \/ /\ p.offset < Len(text) /\ n # 0 /\ ~null
        /\ ret' = Bytes(b)
        /\ Set(s, fd, [p EXCEPT !.offset = @ + Len(b)])

\* The next name of the directory; no name when they have all been read.
ReadDir(s, fd, n, null) ==
  LET p == open[s][fd]
      name == IF p.offset < Len(direntries)
                THEN Cut(direntries[p.offset + 1].filename) ELSE <<>>
  IN
  /\ p.kind = "dir"
  /\ \/ null /\ ret' = Failed /\ UNCHANGED open
     \/ /\ ~null
        /\ ret' = Bytes(SubSeq(name, 1, Least(n, Len(name))))
        /\ Set(s, fd, [p EXCEPT !.offset = @ + 1])

ReadRtc(s, fd) ==
  open[s][fd].kind = "rtc" /\ ret' = Code(0) /\ UNCHANGED open

\* Standard input; what it returns is the matter of LineInput.
ReadTerminal == ret' = Code(0) /\ UNCHANGED open

Read(s, fd) ==
  /\ s \in live
  /\ Asked("read", s, fd, <<>>)
  /\ \/ /\ fd \in DOMAIN open[s]
        /\ \/ \E n \in Sizes, null \in BOOLEAN :
                ReadFile(s, fd, Unsigned(n), null) \/ ReadDir(s, fd, n, null)
           \/ ReadRtc(s, fd)
     \/ fd = 0 /\ ReadTerminal
     \/ /\ fd \notin DOMAIN open[s] \cup {0}
        /\ ret' = Failed
        /\ UNCHANGED open
  /\ UNCHANGED live

\* Only standard output and the clock can be written.
Write(s, fd) ==
  /\ s \in live
  /\ Asked("write", s, fd, <<>>)
  /\ ret' \in IF fd = 1 THEN {Code(n) : n \in Sizes} \cup {Failed}
             ELSE IF fd \in DOMAIN open[s] /\ open[s][fd].kind = "rtc"
               THEN {Code(0), Failed}
             ELSE {Failed}
  /\ UNCHANGED <<live, open>>

Next ==
  \E s \in Slots :
    \/ Start(s) \/ End(s)
    \/ \E name \in Names : Open(s, name)
    \/ \E fd \in FdArgs : Close(s, fd) \/ Read(s, fd) \/ Write(s, fd)

Spec == Init /\ [][Next]_vars
=============================================================================
