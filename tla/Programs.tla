------------------------------ MODULE Programs ------------------------------
(***************************************************************************)
(* The programs of src/syscalls that use files, arguments and the keyboard *)
(* (cat, ls, grep, counter, sigtest, syserr), run by the shell of Launch,  *)
(* and one that makes any calls and ends in any way.                       *)
(***************************************************************************)
EXTENDS Launch, Answers
LOCAL INSTANCE FiniteSetsExt
LOCAL INSTANCE SequencesExt

CONSTANTS
  SBUFSIZE,       \* length of the buffers for names
  Replies,        \* what is typed when a program reads the keyboard
  CountOf,        \* how far counter counts for each choice
  WrongNames,     \* names that syserr opens, close to those of programs
  Statuses,       \* what the arbitrary program returns
  Faults,         \* the exceptions that it causes
  Softints,       \* the INT instructions that it executes
  Strays,         \* vectors of interrupts that went away: 39, 47
  MaxAnyReads     \* bound: directory reads of the arbitrary program

ASSUME ProgramAssumption ==
  /\ SBUFSIZE = FILENAME_LEN + 1 /\ LongestLine = BUFSIZE
  /\ Faults \subseteq Vectors /\ Statuses \subseteq Int
  /\ WrongNames \in Seq(Seq(STRING)) /\ WrongNames # <<>>
  /\ \A c \in DOMAIN CountOf : CountOf[c] \in Nat
  /\ \A i \in EntriesFor(<<".">>) : direntries[i].filetype = "dir"

\* The characters that programs write; that literals are strings is a fact of
\* TLA+ for which the provers have no rule.
ASSUME CharacterAssumption ==
  {NUL, NEWLINE, ":", "0", "1", "2", "3", "4", "5", "6", "7", "8", "9"}
    \subseteq STRING

At(p, l) == prog = p /\ pc = l
Go(l, m) == pc' = l /\ loc' = m /\ UNCHANGED ending
Say(pieces) == shown' = shown \o pieces
Fail(message, status) == Say(<<message>>) /\ Exit(status)

\* Waits for a line; LineInput has how it comes.
ReadKeyboard == Read(Child, 0, BUFSIZE - 1, FALSE)

(***************************************************************************)
(* cat and ls: copy what a descriptor gives to the terminal.               *)
(***************************************************************************)
OpenOrFail(name, message) ==
  /\ Open(Child, name)
  /\ IF ret'.code = -1 THEN Fail(message, 2)
     ELSE Go("read", [fd |-> ret'.code, dirty |-> FALSE]) /\ UNCHANGED shown

CatStart ==
  /\ At("cat", "start")
  /\ IF sys_getargs(BUFSIZE).code # 0
       THEN Fail("could not read arguments", 3) /\ UNCHANGED vars
       ELSE OpenOrFail(sys_getargs(BUFSIZE).bytes, "file not found")

LsStart ==
  At("ls", "start") /\ OpenOrFail(<<".">>, "directory open failed")

CopyRead(p, size, message) ==
  /\ At(p, "read")
  /\ Read(Child, loc.fd, size, FALSE)
  /\ CASE ret'.code = 0 -> Exit(0) /\ UNCHANGED shown
       [] ret'.code = -1 -> Fail(message, 3)
       [] ret'.code > 0 -> Go("write", loc) /\ UNCHANGED shown

CopyWrite(p, tail) ==
  /\ At(p, "write")
  /\ Write(Child, 1, Len(ret.bytes \o tail), FALSE)
  /\ IF ret'.code = -1 THEN Exit(3) /\ UNCHANGED shown
     ELSE Say(ret.bytes \o tail) /\ Go("read", loc)

Cat == \/ CatStart \/ CopyRead("cat", BUFSIZE, "file read failed")
       \/ CopyWrite("cat", <<>>)
Ls == \/ LsStart
      \/ CopyRead("ls", SBUFSIZE - 1, "directory entry read failed")
      \/ CopyWrite("ls", <<NEWLINE>>)

(***************************************************************************)
(* grep: the files of the directory, searched in a buffer that is filled   *)
(* again behind an unfinished line.                                        *)
(***************************************************************************)
\* The line of data from start that ends before end, searched for s.
Matches(data, start, end, s) ==
  \E check \in start .. end - 1 :
    /\ check + Len(s) <= end
    /\ \A k \in 1 .. Len(s) : data[check + k - 1] = s[k]

\* ece391_strcpy(data, data + start), up to the first NUL.
ece391_strcpy(data, tail) ==
  [i \in DOMAIN data |-> IF i < Len(tail) THEN tail[i + 1]
                         ELSE IF i = Len(tail) THEN NUL ELSE data[i]]
ShiftedPast(data, start) == ece391_strcpy(data, CString(data, start + 1))
Shifted(data, start) == ece391_strcpy(data, CString(data, start))

EndIsError(cnt) == cnt = -1
EndOfFile(cnt) == cnt = 0

\* The inner loop of do_one_file after a read of cnt bytes: the buffer and
\* last that it leaves, and the lines that it prints.  It goes from newline to
\* newline up to the last line, which may be unfinished.  Where no newline
\* comes before last, data[last] is looked at as well.
do_lines(data, last, cnt, s) ==
  LET starts == {0} \cup {i + 1 : i \in {j \in 0 .. last - 2 :
                                             data[j] = NEWLINE}}
      line_end(p) == Min({i \in p .. last - 1 : data[i] = NEWLINE}
                         \cup {last})
      line_start == Max(starts)
      unfinished == data[line_end(line_start)] # NEWLINE /\ cnt # 0
                    /\ line_start # 0
      cut == [i \in DOMAIN data |->
                IF \E p \in starts : i = line_end(p) THEN NUL ELSE data[i]]
      found(p) == /\ p \in starts /\ Matches(cut, p, line_end(p), s)
                  /\ ~(unfinished /\ p = line_start)
  IN
  [data |-> IF unfinished THEN Shifted(cut, line_start) ELSE cut,
   last |-> IF unfinished THEN last - line_start ELSE 0,
   lines |-> FlattenSeq([k \in 1 .. last + 1 |->
               IF found(k - 1) THEN <<CString(cut, k - 1)>> ELSE <<>>])]

GrepStart ==
  /\ At("grep", "start")
  /\ IF sys_getargs(BUFSIZE).code # 0
       THEN Fail("could not read argument", 3) /\ UNCHANGED vars
       ELSE OpenOrFail(<<".">>, "directory open failed")

GrepName ==
  /\ At("grep", "read")
  /\ Read(Child, loc.fd, SBUFSIZE - 1, FALSE)
  /\ CASE ret'.code = 0 -> Exit(0) /\ UNCHANGED shown
       [] ret'.code = -1 -> Fail("directory entry read failed", 3)
       [] ret'.code > 0 -> /\ Go(IF ret'.bytes[1] = "." THEN "read" ELSE "open",
                                loc)
                           /\ UNCHANGED shown

\* data is on the stack: it begins with what was there.
GrepOpen ==
  /\ At("grep", "open")
  /\ Open(Child, ret.bytes)
  /\ IF ret'.code = -1 THEN Fail("file open failed", 3)
     ELSE /\ \E junk \in {NUL, NEWLINE} :
               Go("fill", [fd |-> loc.fd, file |-> ret'.code, name |-> ret.bytes,
                           data |-> [i \in 0 .. BUFSIZE |-> junk], last |-> 0,
                           dirty |-> loc.dirty \/ junk = NEWLINE])
          /\ UNCHANGED shown

GrepFill ==
  /\ At("grep", "fill")
  /\ Read(Child, loc.file, BUFSIZE - loc.last, FALSE)
  /\ IF ret'.code = -1 THEN Fail("file read failed", 3)
     ELSE LET cnt == ret'.code
              end == loc.last + cnt
              filled == [i \in 0 .. BUFSIZE |->
                           IF i \in loc.last .. end - 1
                             THEN ret'.bytes[i - loc.last + 1] ELSE loc.data[i]]
              done == do_lines(filled, end, cnt, sys_getargs(BUFSIZE).bytes)
          IN /\ Say(FlattenSeq([k \in DOMAIN done.lines |->
                       loc.name \o <<":">> \o done.lines[k] \o <<NEWLINE>>]))
             /\ Go(IF EndOfFile(cnt) THEN "close" ELSE "fill",
                   [loc EXCEPT !.data = done.data, !.last = done.last])

GrepClose ==
  /\ At("grep", "close")
  /\ Close(Child, loc.file)
  /\ IF ret'.code = -1 THEN Fail("file close failed", 3)
     ELSE /\ Go("read", [fd |-> loc.fd, dirty |-> loc.dirty])
          /\ UNCHANGED shown

Grep == GrepStart \/ GrepName \/ GrepOpen \/ GrepFill \/ GrepClose

(***************************************************************************)
(* counter and its conversion of numbers.                                  *)
(***************************************************************************)
lookup == <<"0", "1", "2", "3", "4", "5", "6", "7", "8", "9">>

\* The digits, lowest place first; strrev puts them in order.
Digits(value, radix) ==
  LET place[newval \in 0 .. value] ==
        IF newval > 0
          THEN <<lookup[(newval % radix) + 1]>> \o place[newval \div radix]
          ELSE <<>>
  IN place[value]
strrev(s) == [i \in DOMAIN s |-> s[Len(s) + 1 - i]]
itoa(value, radix) ==
  IF value = 0 THEN <<"0">> ELSE strrev(Digits(value, radix))

CounterStart ==
  /\ At("counter", "start")
  /\ ReadKeyboard
  /\ \E reply \in Replies :
       LET buf == Append(reply, NEWLINE) IN
       IF Len(buf) > 2 \/ (Len(buf) = 2 /\ buf[1] \notin DOMAIN CountOf)
         THEN Fail("Wrong Choice!", 0)
         ELSE /\ Go("count", [i |-> 0, max |-> IF buf[1] \in DOMAIN CountOf
                                                THEN CountOf[buf[1]] ELSE 0])
              /\ UNCHANGED shown

CounterCount ==
  /\ At("counter", "count")
  /\ IF loc.i < loc.max
       THEN Say(Append(itoa(loc.i + 1, 10), NEWLINE))
            /\ Go("count", [loc EXCEPT !.i = @ + 1])
       ELSE Exit(0) /\ UNCHANGED shown
  /\ UNCHANGED vars

Counter == CounterStart \/ CounterCount

(***************************************************************************)
(* sigtest: sys_set_handler refuses its handlers, then it stores through   *)
(* a null pointer.                                                         *)
(***************************************************************************)
SigtestStart ==
  /\ At("sigtest", "start")
  /\ IF sys_getargs(BUFSIZE).code # 0
       THEN Fail("could not read argument", 3) /\ UNCHANGED vars
       ELSE /\ ReadKeyboard
            /\ Go("store", NoLocals)
            /\ IF sys_getargs(BUFSIZE).bytes[1] = "1"
                 THEN Say(<<"Installing signal handlers">>) ELSE UNCHANGED shown

SigtestStore == At("sigtest", "store") /\ Raise(14)

Sigtest == SigtestStart \/ SigtestStore

(***************************************************************************)
(* syserr: calls that have to fail.                                        *)
(***************************************************************************)
NEG_FD == -1073741823
BIG_FD == 1073741823
NEG_NUM == -1073741823
BIG_NUM == 1073741823
VIRSTART == 134217728
VIREND == 138412032
SIGR_SYS_NUM == 10

Calls(op, fds) == [i \in DOMAIN fds |-> [op |-> op, on |-> fds[i]]]
AllFds == [i \in 1 .. NUM_FD |-> i - 1]
RegularFds == [i \in 1 .. NUM_FD - FIRST_REG_FILE |-> i + 1]

err_neg_fd == Calls("read", <<NEG_FD>>) \o Calls("write", <<NEG_FD>>)
              \o Calls("close", <<NEG_FD>>)
err_big_fd == Calls("read", <<BIG_FD>>) \o Calls("write", <<BIG_FD>>)
              \o Calls("close", <<BIG_FD>>)
\* One open more than there are descriptors for.
err_open_lots == Calls("open", [i \in 1 .. UPPB |-> <<".">>])
                 \o Calls("close", RegularFds)
err_open == Calls("open", WrongNames)
err_unopened == Calls("close", AllFds) \o Calls("read", RegularFds)
                \o Calls("write", RegularFds)
err_vidmap == Calls("vidmap", <<0, 4194304>>)
err_stdin_out == Calls("write", <<0>>) \o Calls("read", <<1>>)
err_syscall_num == Calls("number", <<BIG_NUM, NEG_NUM, 0>>)

Tests == <<err_neg_fd, err_big_fd, err_open_lots, err_open, err_unopened,
           err_vidmap, err_stdin_out, err_syscall_num>>

vidmap_code(p) == IF p = 0 \/ ~(p > VIRSTART /\ p < VIREND) THEN -1 ELSE 0

\* The comparisons of syscall_wrapper are unsigned.
number_code(n) == IF n < 0 \/ n < 1 \/ n > SIGR_SYS_NUM THEN -1 ELSE 0

Perform(c) ==
  CASE c.op = "read" -> Read(Child, c.on, 31, FALSE)
    [] c.op = "write" -> Write(Child, c.on, 31, FALSE)
    [] c.op = "open" -> Open(Child, c.on)
    [] c.op = "close" -> Close(Child, c.on)
    [] c.op \in {"vidmap", "number"} -> UNCHANGED vars
ResultOf(c) == CASE c.op = "vidmap" -> vidmap_code(c.on)
                 [] c.op = "number" -> number_code(c.on)
                 [] c.op \notin {"vidmap", "number"} -> ret'.code

SyserrStart ==
  /\ At("syserr", "start")
  /\ ReadKeyboard
  /\ \E reply \in Replies :
       LET choice == Append(reply, NEWLINE)[1]
           digits == <<"1", "2", "3", "4", "5", "6", "7", "8">>
           chosen == {t \in 1 .. 8 : digits[t] = choice}
           tests == IF choice = "0" THEN <<1, 2, 3, 4, 5, 6, 7, 8>>
                    ELSE IF chosen = {} THEN <<>>
                    ELSE <<CHOOSE t \in chosen : TRUE>>
       IN IF tests = <<>> THEN Fail("Invalid test number.", 0)
          ELSE /\ Go("call", [tests |-> tests, call |-> 1, fail |-> 0,
                             refused |-> 0, accepted |-> 0])
               /\ UNCHANGED shown

\* refused counts the opens that fail, accepted all calls that do not: the
\* test of opens has to be refused once, the others always.
SyserrCall ==
  /\ At("syserr", "call") /\ loc.tests # <<>>
  /\ LET t == Head(loc.tests)
         c == Tests[t][loc.call]
     IN
     /\ Perform(c)
     /\ LET refused == loc.refused + IF c.op = "open" /\ ResultOf(c) = -1
                                       THEN 1 ELSE 0
            accepted == loc.accepted + IF ResultOf(c) # -1 THEN 1 ELSE 0
            failed == IF t = 3 THEN refused # 1 ELSE accepted # 0
        IN IF loc.call < Len(Tests[t])
             THEN /\ Go("call", [loc EXCEPT !.call = @ + 1, !.refused = refused,
                                           !.accepted = accepted])
                  /\ UNCHANGED shown
             ELSE /\ Go("call", [tests |-> Tail(loc.tests), call |-> 1,
                                 fail |-> loc.fail + IF failed THEN 2 ELSE 0,
                                 refused |-> 0, accepted |-> 0])
                  /\ Say(<<IF failed THEN "FAIL" ELSE "PASS">>)

SyserrEnd ==
  /\ At("syserr", "call") /\ loc.tests = <<>>
  /\ Exit(loc.fail)
  /\ UNCHANGED <<vars, shown>>

Syserr == SyserrStart \/ SyserrCall \/ SyserrEnd

(***************************************************************************)
(* Any program, and all of them together.                                  *)
(***************************************************************************)
\* Stray interrupts come at vectors of the controllers whose gates are not
\* present.
AnyProgram ==
  /\ At("any", "start")
  /\ \/ /\ AnyCall(Child)
        /\ \A fd \in Regular : f_desc'[Child][fd].ops = "dir" =>
                               f_desc'[Child][fd].file_position <= MaxAnyReads
        /\ UNCHANGED <<pc, loc, shown, ending>>
     \/ \E status \in Statuses : Exit(status) /\ UNCHANGED <<shown, vars>>
     \/ \E v \in Faults : Raise(v)
     \/ \E n \in Softints : Raise(ByInstruction(n))
     \/ \E n \in Strays : Raise(ByController(n))

Supplied ==
  Cat \/ Ls \/ Grep \/ Counter \/ Sigtest \/ Syserr
ProgramStep(A) == A /\ UNCHANGED <<kernel, shell, prog>>

allvars == <<vars, kernel, shell, child>>

SystemNext ==
  \/ ShellNext \/ ChildHalts
  \/ ProgramStep(Supplied) \/ ProgramStep(AnyProgram)

\* The timer gives every terminal its turns (TimerGoesOn of Interrupts), and
\* somebody types when a program waits for a line.
Fairness ==
  /\ WF_allvars(ProgramStep(Supplied))
  /\ WF_allvars(ChildHalts)
  /\ WF_allvars(ShellReport)

System == LaunchInit /\ [][SystemNext]_allvars /\ Fairness

(***************************************************************************)
(* Properties.                                                             *)
(***************************************************************************)
\* cat prints the file, the directory or nothing for the clock; ls the names;
\* grep every line of every text that contains its argument, wherever the
\* pieces it reads end, if the newline that data[BUFSIZE] may hold from
\* before does not mislead it; counter the numbers from 1 in order.
ShowsAnswer ==
  LET args == sys_getargs(BUFSIZE) IN
  pc = "exit" /\ ending.how = "exit" =>
    CASE prog = "cat" ->
           shown = IF args.code # 0 THEN <<"could not read arguments">>
                   ELSE IF EntriesFor(args.bytes) = {} THEN <<"file not found">>
                   ELSE CatAnswer(args.bytes)
      [] prog = "ls" -> shown = LsAnswer
      [] prog = "grep" ->
           args.code = 0 /\ ~loc.dirty =>
             FromTexts(LinesOf(shown)) = GrepAnswer(args.bytes)
      [] prog = "counter" /\ loc # NoLocals ->
           /\ Len(LinesOf(shown)) = loc.max
           /\ \A i \in 1 .. loc.max : IsNumeralOf(LinesOf(shown)[i], i)
      [] OTHER -> TRUE

\* syserr finds no test that fails, whatever ran before it in its slot.
SyserrPasses ==
  pc = "exit" /\ prog = "syserr" /\ ending.how = "exit" =>
    ending.status = 0 /\ "FAIL" \notin {shown[i] : i \in DOMAIN shown}

\* What the two properties above need of the image: the directory is there;
\* none of the names with which syserr expects to fail is; the names are
\* distinct, not empty, and fit the buffer of cat; they have no ":"
\* and no newline, so that a line of grep tells which text it is from; and
\* grep, which skips names that begin with a ".", skips no text.
SyserrImage ==
  /\ EntriesFor(<<".">>) # {}
  /\ \A i \in DOMAIN WrongNames : EntriesFor(WrongNames[i]) = {}
  /\ NUM_FD <= BIG_FD

ListedImage ==
  /\ EntriesFor(<<".">>) # {}
  /\ \A i \in DOMAIN direntries : ListedName(i) # <<>>
  /\ FILENAME_LEN <= BUFSIZE /\ BUFSIZE < WORD

SearchedImage ==
  /\ ListedImage /\ NUM_FD > 3
  /\ \A i, j \in DOMAIN direntries : ListedName(i) = ListedName(j) => i = j
  /\ \A i \in DOMAIN direntries : \A k \in 1 .. Len(ListedName(i)) :
       ListedName(i)[k] \notin {":", NEWLINE}
  /\ \A i \in TextFiles : ListedName(i)[1] # "."

\* Every program but the arbitrary one comes to its end and back to the
\* prompt.
CommandEnds == (prog \notin {"none", "any"}) ~> (sh = "prompt")

\* All the calls, those of the shell and of exiting included, keep what
\* OpenFiles promises.
AllNames == Names \cup {<<".">>}
            \cup {ListedName(i) : i \in DOMAIN direntries}
            \cup {WrongNames[i] : i \in DOMAIN WrongNames}
            \cup {SubSeq(l, FnameLength(l) + 2, Len(l)) : l \in Lines}
AllFdArgs == FdArgs \cup 0 .. UPPB \cup {NEG_FD, BIG_FD}
AllSizes == Sizes \cup 0 .. BUFSIZE + SBUFSIZE \cup {31}
Promises == INSTANCE OpenFiles WITH Fds <- Regular, Names <- AllNames,
                                    FdArgs <- AllFdArgs, Sizes <- AllSizes
KeepsPromises == Promises!Spec
=============================================================================
