------------------------------ MODULE Display ------------------------------
(***************************************************************************)
(* Which page the output of each terminal goes to: switch_active_terminal  *)
(* and the user page table of the video pages (paging.c), terminal_init    *)
(* and terminal_write (terminal.c), the echo of keys (keyboard.c, lib.c)   *)
(* and sys_vidmap (syscall.c).                                             *)
(*                                                                         *)
(* Besides the page that is on the screen, terminal t has two: page t + 1  *)
(* keeps its picture while it is hidden, and page t + 4 takes what its     *)
(* program writes through vidmap meanwhile.  The kernel never reads page   *)
(* t + 4, so what is in it is not part of the state.  vidmap hands out the *)
(* same user address for good; switch_active_terminal changes where that   *)
(* address goes.  A picture is a function from Cells to Chars: the place   *)
(* of the cursor and scrolling are in module Screen.                       *)
(***************************************************************************)
EXTENDS Integers

CONSTANTS
  TERM_NUM,     \* number of terminals
  Cells,        \* places on a screen
  Chars,        \* what can be printed
  Blank         \* an empty cell

ASSUME TerminalsAssumption == TERM_NUM \in Nat \ {0}
ASSUME BlankAssumption == Blank \notin Chars

Terminals == 0 .. TERM_NUM - 1
Pictures == [Cells -> Chars \cup {Blank}]
Empty == [c \in Cells |-> Blank]

\* Where the vidmap address of a terminal may go.
VIDADDR == "screen"
Hidden == "hidden"

VARIABLES
  displayed_terminal, executing_terminal,
  video,       \* the page on the screen
  backing,     \* page t + 1 of each terminal
  table,       \* user_video_page_table of the vidmap address of each terminal
  tlb,         \* the entries as the TLB holds them
  mapped,      \* the terminals whose program called vidmap
  picture,     \* history: what each terminal should show
  apart,       \* history: terminals between which displayed_terminal went
               \* without their pages, until the user shows or leaves them
  mixed        \* history: terminals whose picture was lost by that

vars == <<displayed_terminal, executing_terminal, video, backing,
          table, tlb, mapped, picture, apart, mixed>>
pages == <<video, backing>>
slip == <<apart, mixed>>

\* After terminal_init; the process_map of the first shell has flushed the
\* TLB.
Init ==
  /\ displayed_terminal = 0 /\ executing_terminal = 0
  /\ video = Empty
  /\ backing = [t \in Terminals |-> Empty]
  /\ table = [t \in Terminals |-> IF t = 0 THEN VIDADDR ELSE Hidden]
  /\ tlb = table
  /\ mapped = {}
  /\ picture = [t \in Terminals |-> Empty]
  /\ apart = {}
  /\ mixed = {}

\* putc: on the screen, for the displayed terminal.
putc(c, ch) ==
  /\ video' = [video EXCEPT ![c] = ch]
  /\ UNCHANGED backing

\* putc_non_displayed: on the page behind the executing terminal.
OnDisplayedPage(c, ch) ==
  /\ backing' = [backing EXCEPT ![displayed_terminal][c] = ch]
  /\ UNCHANGED video
putc_non_displayed(c, ch) ==
  /\ backing' = [backing EXCEPT ![executing_terminal][c] = ch]
  /\ UNCHANGED video

\* A character of terminal_write, which runs with interrupts disabled.
terminal_write(c, ch) ==
  /\ IF executing_terminal = displayed_terminal THEN putc(c, ch)
     ELSE putc_non_displayed(c, ch)
  /\ picture' = [picture EXCEPT ![executing_terminal][c] = ch]
  /\ UNCHANGED <<displayed_terminal, executing_terminal, table, tlb, mapped,
                 slip>>

\* A key is echoed, whichever terminal executes.
Echo(c, ch) ==
  /\ putc(c, ch)
  /\ picture' = [picture EXCEPT ![displayed_terminal][c] = ch]
  /\ UNCHANGED <<displayed_terminal, executing_terminal, table, tlb, mapped,
                 slip>>

\* Ctrl+L.
clear ==
  /\ video' = Empty
  /\ picture' = [picture EXCEPT ![displayed_terminal] = Empty]
  /\ mixed' = mixed \ {displayed_terminal}
  /\ UNCHANGED <<displayed_terminal, executing_terminal, backing, table, tlb,
                 mapped, apart>>

\* The address of its own page t + 4, for the executing terminal.
sys_vidmap ==
  /\ mapped' = mapped \cup {executing_terminal}
  /\ UNCHANGED <<displayed_terminal, executing_terminal, pages, table, tlb,
                 picture, slip>>

\* The program stores a character at the address that vidmap gave it: the
\* TLB decides where it goes.
VidmapWrite(c, ch) ==
  LET t == executing_terminal IN
  /\ t \in mapped
  /\ video' = IF tlb[t] = VIDADDR THEN [video EXCEPT ![c] = ch] ELSE video
  /\ picture' = IF t = displayed_terminal
                  THEN [picture EXCEPT ![t][c] = ch] ELSE picture
  /\ mixed' = IF tlb[t] = VIDADDR <=> t = displayed_terminal
                THEN mixed ELSE mixed \cup {displayed_terminal}
  /\ UNCHANGED <<displayed_terminal, executing_terminal, backing, table, tlb,
                 mapped, apart>>

\* The two entries that switch_active_terminal writes, in their order: the
\* second one counts when the terminal is displayed already.
SwappedOrder(n) ==
  [table EXCEPT ![n] = VIDADDR, ![displayed_terminal] = Hidden]
Remapped(n) ==
  [table EXCEPT ![displayed_terminal] = Hidden, ![n] = VIDADDR]

flush_TLB == table'

\* The page on the screen is saved before that of n replaces it.
Saved == [backing EXCEPT ![displayed_terminal] = video]

\* In the keyboard handler, with interrupts disabled.
switch_active_terminal(n) ==
  /\ backing' = Saved
  /\ video' = backing'[n]
  /\ table' = Remapped(n)
  /\ displayed_terminal' = n
  /\ tlb' = flush_TLB
  /\ apart' = apart \ {displayed_terminal, n}
  /\ UNCHANGED <<executing_terminal, mapped, picture, mixed>>

NextTooFar == (executing_terminal + 1) % (TERM_NUM + 1)
next_scheduled_terminal == (executing_terminal + 1) % TERM_NUM

\* To the next terminal, on which a shell is started if it has none;
\* process_map flushes the TLB.
context_switch ==
  /\ executing_terminal' = next_scheduled_terminal
  /\ tlb' = table
  /\ UNCHANGED <<displayed_terminal, pages, table, mapped, picture, slip>>

\* The execute of a first shell failed on the terminal that context_switch
\* had made the executing one: both terminals go back to the interrupted
\* one, and no page moves.
LaunchFails ==
  /\ displayed_terminal' = executing_terminal
  /\ IF displayed_terminal = executing_terminal THEN UNCHANGED slip
     ELSE /\ apart' = apart \cup {displayed_terminal, executing_terminal}
          /\ mixed' = mixed \cup {displayed_terminal, executing_terminal}
  /\ UNCHANGED <<executing_terminal, pages, table, tlb, mapped, picture>>

Next ==
  \/ \E c \in Cells, ch \in Chars :
       terminal_write(c, ch) \/ Echo(c, ch) \/ VidmapWrite(c, ch)
  \/ clear \/ sys_vidmap \/ context_switch \/ LaunchFails
  \/ \E n \in Terminals : switch_active_terminal(n)

Spec == Init /\ [][Next]_vars

(***************************************************************************)
(* Properties.                                                             *)
(***************************************************************************)
\* Pages hold pictures, entries one of two targets.
TypeOK ==
  /\ displayed_terminal \in Terminals /\ executing_terminal \in Terminals
  /\ video \in Pictures
  /\ backing \in [Terminals -> Pictures]
  /\ table \in [Terminals -> {VIDADDR, Hidden}]
  /\ tlb \in [Terminals -> {VIDADDR, Hidden}]
  /\ mapped \subseteq Terminals
  /\ picture \in [Terminals -> Pictures]
  /\ apart \subseteq Terminals /\ mixed \subseteq Terminals

\* The screen shows the picture of the displayed terminal, and the page
\* behind each other terminal keeps its own: whatever is printed, echoed or
\* stored through vidmap by whom, and however often the user switches,
\* no terminal's picture gets what belongs to another and none is lost.  A
\* failed launch that moves displayed_terminal without its pages costs the
\* pictures of the two terminals it moved between, and of terminals that are
\* displayed while a program stores through an address the launch left
\* astray; Ctrl+L makes a picture right again.
OwnPicture ==
  /\ displayed_terminal \notin mixed => video = picture[displayed_terminal]
  /\ \A t \in Terminals \ (mixed \cup {displayed_terminal}) :
       backing[t] = picture[t]

\* The address that vidmap gave to a program long ago goes to the screen
\* exactly while its terminal is displayed, in the table and in the TLB.
\* After a failed launch this holds again of a terminal as soon as the user
\* has gone to it or away from it.
PointerFollows ==
  \A t \in Terminals :
    /\ t \notin apart => (table[t] = VIDADDR <=> t = displayed_terminal)
    /\ tlb[t] = table[t]

=============================================================================
