-------------------------------- MODULE Jobs --------------------------------
(***************************************************************************)
(* What execute, halt and the scheduler promise to programs.  Every        *)
(* terminal has a stack of them, a shell at the bottom; the one on top     *)
(* runs when the terminal has the CPU.  execute puts on top what was asked *)
(* for on that terminal, halt takes the top off, and nothing that is done  *)
(* on another terminal shows.                                              *)
(***************************************************************************)
EXTENDS Integers, Sequences, FiniteSets

CONSTANTS
  TERM_NUM,          \* number of terminals
  MAX_NUM_PROCESS,   \* how many programs there may be
  Commands,          \* what execute can be asked for
  Executables,       \* what of it can be run
  Shell

Terminals == 0 .. TERM_NUM - 1
NONE == -1

VARIABLES
  jobs,      \* the programs of each terminal, the one on top last
  asked,     \* what the execute in progress on it was asked for, or NONE
  running,   \* the terminal that has the CPU
  seen       \* the program whose instructions the CPU executes, or NONE

vars == <<jobs, asked, running, seen>>

Init ==
  /\ jobs = [t \in Terminals |-> <<>>]
  /\ asked = [t \in Terminals |-> IF t = 0 THEN Shell ELSE NONE]
  /\ running = 0
  /\ seen = NONE

Top(t) == jobs[t][Len(jobs[t])]

\* The program on top calls execute.
Ask(c) ==
  /\ seen # NONE
  /\ asked' = [asked EXCEPT ![running] = c]
  /\ UNCHANGED <<jobs, running>>

\* A terminal without programs asks for its shell, for the first time, when
\* the last shell has ended or when an attempt came to nothing.
AskShell(t) ==
  /\ jobs[t] = <<>>
  /\ asked' = [asked EXCEPT ![t] = Shell]
  /\ running' = t
  /\ UNCHANGED jobs

\* The program that was asked for on this terminal, and no other.
Start ==
  /\ asked[running] \in Executables
  /\ jobs' = [jobs EXCEPT ![running] = Append(@, asked[running])]
  /\ asked' = [asked EXCEPT ![running] = NONE]
  /\ UNCHANGED running

\* execute returns -1 only for what cannot be run or when programs, and
\* calls that are about to start one, take all places.  The CPU goes back to
\* the terminal it was taken from for a shell.
Taken ==
  {p \in Terminals \X (1 .. MAX_NUM_PROCESS) : p[2] \in DOMAIN jobs[p[1]]}
Starting == {t \in Terminals \ {running} : asked[t] # NONE}

Refuse ==
  /\ asked[running] # NONE
  /\ \/ asked[running] \notin Executables
     \/ Cardinality(Taken) + Cardinality(Starting) >= MAX_NUM_PROCESS
  /\ asked' = [asked EXCEPT ![running] = NONE]
  /\ jobs[running] # <<>> => running' = running
  /\ running' \in Terminals
  /\ UNCHANGED jobs

\* The program on top halts.
End ==
  /\ jobs[running] # <<>> /\ asked[running] = NONE
  /\ jobs' = [jobs EXCEPT ![running] = SubSeq(@, 1, Len(@) - 1)]
  /\ UNCHANGED <<asked, running>>

\* The timer.  What a terminal without programs had begun may be forgotten.
Switch ==
  /\ running' \in Terminals \ {running}
  /\ \A t \in Terminals :
       asked'[t] = asked[t] \/ (jobs[t] = <<>> /\ asked'[t] = NONE)
  /\ UNCHANGED jobs

\* A call that has nothing to do with programs.
Other == UNCHANGED <<jobs, asked, running>>

\* Instructions of a program are executed only of the one on top, between
\* its calls.
OnlyTopRuns ==
  seen' # NONE =>
    /\ jobs'[running'] # <<>> /\ asked'[running'] = NONE
    /\ seen' = Top(running)'

Next ==
  /\ \/ \E c \in Commands : Ask(c)
     \/ \E t \in Terminals : AskShell(t)
     \/ Start \/ Refuse \/ End \/ Switch \/ Other
  /\ OnlyTopRuns

Spec == Init /\ [][Next]_vars
=============================================================================
