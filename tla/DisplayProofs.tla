--------------------------- MODULE DisplayProofs ---------------------------
(***************************************************************************)
(* Display: its type invariant, and that each terminal keeps its own       *)
(* picture, for any number of terminals and pictures of any size.          *)
(*                                                                         *)
(* OwnPicture is not inductive: a store through vidmap goes where the TLB  *)
(* says, so the proof carries PointerFollows along.                        *)
(***************************************************************************)
EXTENDS Display, TLAPS

\* A picture with one cell changed is a picture.
LEMMA PictureWith ==
  ASSUME NEW p \in Pictures, NEW c \in Cells, NEW ch \in Chars
  PROVE  [p EXCEPT ![c] = ch] \in Pictures
BY DEF Pictures

LEMMA PicturesWith ==
  ASSUME NEW f \in [Terminals -> Pictures], NEW t \in Terminals,
         NEW c \in Cells, NEW ch \in Chars
  PROVE  [f EXCEPT ![t][c] = ch] \in [Terminals -> Pictures]
BY PictureWith

LEMMA EmptyIsPicture == Empty \in Pictures
BY DEF Pictures, Empty

\* The terminal that pit_interrupt computes exists.
LEMMA NextTerminal ==
  ASSUME executing_terminal \in Terminals
  PROVE  next_scheduled_terminal \in Terminals
BY TerminalsAssumption DEF next_scheduled_terminal, Terminals

\* The pages and tables of switch_active_terminal, terminal_write, the echo
\* of keys and sys_vidmap keep their types.
THEOREM TypeCorrect == Spec => []TypeOK
<1>1. Init => TypeOK
  <2> SUFFICES ASSUME Init PROVE TypeOK
    OBVIOUS
  <2>1. 0 \in Terminals
    BY TerminalsAssumption DEF Terminals
  <2>2. table \in [Terminals -> {VIDADDR, Hidden}] /\ tlb = table
    BY DEF Init
  <2>3. /\ backing \in [Terminals -> Pictures]
        /\ picture \in [Terminals -> Pictures]
    BY EmptyIsPicture DEF Init
  <2> QED
    BY <2>1, <2>2, <2>3, EmptyIsPicture DEF Init, TypeOK
<1>2. TypeOK /\ [Next]_vars => TypeOK'
  <2> SUFFICES ASSUME TypeOK, [Next]_vars PROVE TypeOK'
    OBVIOUS
  <2> USE DEF TypeOK, slip
  <2>1. ASSUME NEW c \in Cells, NEW ch \in Chars, terminal_write(c, ch)
        PROVE  TypeOK'
    <3>1. picture' \in [Terminals -> Pictures]
      BY <2>1, PicturesWith DEF terminal_write
    <3>2. video' \in Pictures
      BY <2>1, PictureWith DEF terminal_write, putc, putc_non_displayed
    <3>3. backing' \in [Terminals -> Pictures]
      BY <2>1, PicturesWith DEF terminal_write, putc, putc_non_displayed
    <3> QED
      BY <2>1, <3>1, <3>2, <3>3 DEF terminal_write
  <2>2. ASSUME NEW c \in Cells, NEW ch \in Chars, Echo(c, ch)
        PROVE  TypeOK'
    BY <2>2, PictureWith, PicturesWith DEF Echo, putc
  <2>3. ASSUME NEW c \in Cells, NEW ch \in Chars, VidmapWrite(c, ch)
        PROVE  TypeOK'
    BY <2>3, PictureWith, PicturesWith DEF VidmapWrite
  <2>4. CASE clear
    BY <2>4, EmptyIsPicture DEF clear
  <2>5. CASE sys_vidmap
    BY <2>5 DEF sys_vidmap, pages
  <2>6. CASE context_switch
    BY <2>6, NextTerminal DEF context_switch, pages
  <2>7. CASE LaunchFails
    BY <2>7 DEF LaunchFails, pages
  <2>8. ASSUME NEW n \in Terminals, switch_active_terminal(n)
        PROVE  TypeOK'
    BY <2>8 DEF switch_active_terminal, Saved, Remapped, flush_TLB
  <2>9. CASE UNCHANGED vars
    BY <2>9 DEF vars
  <2> QED
    BY <2>1, <2>2, <2>3, <2>4, <2>5, <2>6, <2>7, <2>8, <2>9 DEF Next
<1> QED
  BY <1>1, <1>2, PTL DEF Spec

\* The address that vidmap handed out goes to the screen exactly while its
\* terminal is displayed: switch_active_terminal remaps both terminals and
\* flushes the TLB.
THEOREM PointerCorrect == Spec => []PointerFollows
<1>1. Init => PointerFollows
  BY DEF Init, PointerFollows, VIDADDR, Hidden
<1>2. TypeOK /\ PointerFollows /\ [Next]_vars => PointerFollows'
  <2> SUFFICES ASSUME TypeOK, PointerFollows, [Next]_vars
               PROVE  PointerFollows'
    OBVIOUS
  <2> USE DEF TypeOK, PointerFollows, slip
  <2>1. CASE UNCHANGED <<displayed_terminal, table, tlb, apart>>
    BY <2>1
  <2>2. CASE context_switch
    BY <2>2 DEF context_switch
  <2>3. CASE LaunchFails
    BY <2>3 DEF LaunchFails
  <2>4. ASSUME NEW n \in Terminals, switch_active_terminal(n)
        PROVE  PointerFollows'
    BY <2>4 DEF switch_active_terminal, Remapped, flush_TLB, VIDADDR, Hidden
  <2> QED
    BY <2>1, <2>2, <2>3, <2>4
       DEF Next, terminal_write, Echo, VidmapWrite, clear, sys_vidmap, vars
<1> QED
  BY <1>1, <1>2, TypeCorrect, PTL DEF Spec

\* No terminal's picture gets what belongs to another, and none is lost:
\* what terminal_write, the echo and vidmap print is on the screen or on
\* the page behind it, whenever the user switches.
THEOREM PictureCorrect == Spec => []OwnPicture
<1> DEFINE IInv == TypeOK /\ PointerFollows
<1>1. Init => OwnPicture
  BY TerminalsAssumption DEF Init, OwnPicture, Terminals
<1>2. IInv /\ OwnPicture /\ [Next]_vars => OwnPicture'
  <2> SUFFICES ASSUME TypeOK, PointerFollows, OwnPicture, [Next]_vars
               PROVE  OwnPicture'
    OBVIOUS
  <2> USE DEF TypeOK, OwnPicture, slip
  <2>1. ASSUME NEW c \in Cells, NEW ch \in Chars, terminal_write(c, ch)
        PROVE  OwnPicture'
    <3>1. CASE executing_terminal = displayed_terminal
      BY <2>1, <3>1 DEF terminal_write, putc
    <3>2. CASE executing_terminal # displayed_terminal
      BY <2>1, <3>2 DEF terminal_write, putc_non_displayed
    <3> QED BY <3>1, <3>2
  <2>2. ASSUME NEW c \in Cells, NEW ch \in Chars, Echo(c, ch)
        PROVE  OwnPicture'
    BY <2>2 DEF Echo, putc
  <2>3. ASSUME NEW c \in Cells, NEW ch \in Chars, VidmapWrite(c, ch)
        PROVE  OwnPicture'
    BY <2>3 DEF VidmapWrite, PointerFollows
  <2>4. CASE clear
    BY <2>4 DEF clear
  <2>5. CASE UNCHANGED <<displayed_terminal, pages, picture, mixed>>
    BY <2>5 DEF pages
  <2>6. CASE LaunchFails
    BY <2>6 DEF LaunchFails, pages
  <2>7. ASSUME NEW n \in Terminals, switch_active_terminal(n)
        PROVE  OwnPicture'
    BY <2>7 DEF switch_active_terminal, Saved
  <2> QED
    BY <2>1, <2>2, <2>3, <2>4, <2>5, <2>6, <2>7
       DEF Next, sys_vidmap, context_switch, vars, pages
<1> QED
  BY <1>1, <1>2, TypeCorrect, PointerCorrect, PTL DEF Spec
=============================================================================
