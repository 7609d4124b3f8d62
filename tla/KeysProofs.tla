----------------------------- MODULE KeysProofs -----------------------------
(***************************************************************************)
(* Proofs about Keys, for any letters and symbols.                         *)
(***************************************************************************)
EXTENDS Keys, TLAPS

\* The flags follow the keys that are held, except that of shift while the
\* two shift keys are mixed up; caps lock is in the row whatever shift and
\* control do.
FlagsFollow ==
  /\ (CTRL <=> ControlHeld) /\ (ALT <=> AltHeld)
  /\ ~both => (SHIFT <=> ShiftHeld)
  /\ both => ShiftHeld
  /\ Shifts \subseteq down => both
  /\ mode \in {CAP_SHIFT_MODE, CAP_MODE} <=> caps

KeysInv == TypeOK /\ FlagsFollow /\ ModeFollowsKeys /\ DoesAsAsked

\* Nothing is held and nothing was asked.
LEMMA InitKeysInv == Init => KeysInv
<1> SUFFICES ASSUME Init PROVE KeysInv
    OBVIOUS
<1>1. ~ShiftHeld /\ ~ControlHeld /\ ~AltHeld
  BY DEF Init, ShiftHeld, ControlHeld, AltHeld
<1>2. TypeOK
  <2>1. code \in Code
    BY DEF Init, Code, Keyboard
  <2>2. mode \in Modes
    BY DEF Init, Modes, ORIG_MODE
  <2>3. QED
    BY <2>1, <2>2, Zenon DEF Init, TypeOK
<1>3. FlagsFollow
  BY <1>1 DEF Init, FlagsFollow, Shifts, ORIG_MODE, CAP_SHIFT_MODE, CAP_MODE
<1>4. ModeFollowsKeys
  BY <1>1 DEF Init, ModeFollowsKeys, RowOf
<1>5. DoesAsAsked
  BY DEF Init, DoesAsAsked, AskedOf
<1>6. QED
  BY <1>2, <1>3, <1>4, <1>5 DEF KeysInv

\* What caps lock and shift make of a row.
LEMMA Rows ==
  ASSUME NEW m \in Modes, NEW shift \in BOOLEAN
  PROVE  /\ AfterCaps(m) \in Modes
         /\ AfterShift(m, shift) \in Modes
         /\ AfterCaps(m) \in {CAP_SHIFT_MODE, CAP_MODE}
              <=> m \notin {CAP_SHIFT_MODE, CAP_MODE}
         /\ AfterShift(m, shift)
              = RowOf(m \in {CAP_SHIFT_MODE, CAP_MODE}, shift)
BY DEF Modes, AfterCaps, AfterShift, RowOf,
       ORIG_MODE, ORIG_SHIFT_MODE, CAP_SHIFT_MODE, CAP_MODE

LEMMA CapsOfRow ==
  ASSUME NEW lock \in BOOLEAN, NEW shift \in BOOLEAN
  PROVE  /\ RowOf(lock, shift) \in Modes
         /\ RowOf(lock, shift) \in {CAP_SHIFT_MODE, CAP_MODE} <=> lock
BY DEF Modes, RowOf,
       ORIG_MODE, ORIG_SHIFT_MODE, CAP_SHIFT_MODE, CAP_MODE

\* What the handler's control keys, enter, alt and the character come to
\* together, for every key and whatever is held.
LEMMA Effects ==
  ASSUME NEW c \in Code, NEW ctrl \in BOOLEAN, NEW alt \in BOOLEAN,
         NEW lock \in BOOLEAN, NEW shift \in BOOLEAN, NEW row \in Modes,
         ~ctrl => row = RowOf(lock, shift)
  PROVE  Controls(c, ctrl) \cup Line(c) \cup Switch(c, alt)
           \cup Stored(c, row, ctrl)
         = AskedOf(c, ctrl, alt, lock, shift)
<1>1. CASE ~c.on
  BY <1>1 DEF Controls, Line, Switch, Stored, AskedOf
<1>2. CASE c.on /\ c.key \in CharKeys
  <2>1. c.key \notin FunctionKeys /\ c.key # "enter" /\ c.key # "backspace"
    BY <1>2, NamesAssumption DEF CharKeys
  <2>2. CASE ctrl
    BY <1>2, <2>1, <2>2, KeysAssumption
       DEF Controls, Line, Switch, Stored, AskedOf, Effect
  <2>3. CASE ~ctrl
    <3>1. IF c.key \in Letters THEN Capital(row) = (lock # shift)
                               ELSE Upper(row) = shift
      BY <2>3 DEF RowOf, Capital, Upper,
                  ORIG_MODE, ORIG_SHIFT_MODE, CAP_SHIFT_MODE, CAP_MODE
    <3>2. Scancode(row, c.key)
            = <<c.key, IF c.key \in Letters THEN lock # shift ELSE shift>>
      BY <3>1, Zenon DEF Scancode
    <3>3. QED
      BY <1>2, <2>1, <2>3, <3>2 DEF Controls, Line, Switch, Stored, AskedOf
  <2>4. QED
    BY <2>2, <2>3
<1>3. CASE c.on /\ c.key \notin CharKeys
  <2>1. c.key # L /\ c.key # C
    BY <1>3, KeysAssumption DEF CharKeys
  <2>2. Controls(c, ctrl) = {}
    BY <2>1 DEF Controls, Effect
  <2>3. QED
    BY <1>3, <2>2 DEF Line, Switch, Stored, AskedOf, FunctionKeys
<1>4. QED
  BY <1>1, <1>2, <1>3

\* What the user does to the keys, and one run of the handler.
Handled(c) ==
  /\ getScancode(c)
  /\ code' = c
  /\ ~c.on /\ c.key \in Modifiers => c.key \in down
  /\ down' = IF c.on THEN down \cup ({c.key} \cap Modifiers)
                     ELSE down \ {c.key}
  /\ caps' = IF c.on /\ c.key = "caps lock" THEN ~caps ELSE caps
  /\ both' = IF c.on THEN both \/ Shifts \subseteq down'
                     ELSE both /\ Shifts \cap down' # {}

LEMMA NextIsHandled ==
  ASSUME Next
  PROVE  \E c \in Code : Handled(c)
<1>1. PICK k \in Keyboard : Press(k) \/ Release(k)
  BY DEF Next
<1>2. CASE Press(k)
  <2> DEFINE c == [key |-> k, on |-> TRUE]
  <2>1. c \in Code /\ c.key = k /\ c.on
    BY DEF Code
  <2>2. Handled(c)
    BY <1>2, <2>1 DEF Press, Handled
  <2>3. QED
    BY <2>1, <2>2
<1>3. CASE Release(k)
  <2> DEFINE c == [key |-> k, on |-> FALSE]
  <2>1. c \in Code /\ c.key = k /\ ~c.on
    BY DEF Code
  <2>2. Handled(c)
    BY <1>3, <2>1 DEF Release, Handled
  <2>3. QED
    BY <2>1, <2>2
<1>4. QED
  BY <1>1, <1>2, <1>3

\* The inductive step: first the flags, then the row, then the effect.
LEMMA HandledKeepsInv ==
  ASSUME KeysInv, NEW c \in Code, Handled(c)
  PROVE  KeysInv'
<1> DEFINE m == IF c.on /\ c.key = "caps lock" THEN AfterCaps(mode) ELSE mode
           InCaps(r) == r \in {CAP_SHIFT_MODE, CAP_MODE}
<1>1. /\ mode \in Modes /\ SHIFT \in BOOLEAN /\ CTRL \in BOOLEAN
      /\ ALT \in BOOLEAN /\ caps \in BOOLEAN /\ both \in BOOLEAN
      /\ down \subseteq Modifiers /\ c.on \in BOOLEAN
  BY DEF KeysInv, TypeOK, Code
<1>2. /\ CTRL' \in BOOLEAN /\ (CTRL' <=> ControlHeld')
      /\ ALT' \in BOOLEAN /\ (ALT' <=> AltHeld')
  BY <1>1 DEF KeysInv, FlagsFollow, Handled, getScancode, Flag, ControlHeld,
              AltHeld, Modifiers
<1>3. SHIFT' \in BOOLEAN /\ caps' \in BOOLEAN /\ both' \in BOOLEAN
  BY <1>1 DEF Handled, getScancode, Flag
<1>4. down' \subseteq Modifiers
  BY <1>1 DEF Handled
<1>5. /\ ~both' => (SHIFT' <=> ShiftHeld')
      /\ both' => ShiftHeld'
      /\ Shifts \subseteq down' => both'
  BY <1>1 DEF KeysInv, FlagsFollow, Handled, getScancode, Flag, ShiftHeld,
              Shifts, Modifiers
<1>6. m \in Modes /\ (InCaps(m) <=> caps')
  BY <1>1, Rows DEF KeysInv, FlagsFollow, Handled
<1>7. mode' = IF CTRL' THEN m ELSE RowOf(InCaps(m), SHIFT')
  BY <1>2, <1>3, <1>6, Rows DEF Handled, getScancode
<1>8. mode' \in Modes /\ (InCaps(mode') <=> caps')
  <2>1. CASE CTRL'
    BY <1>6, <1>7, <2>1
  <2>2. CASE ~CTRL'
    <3>1. mode' = RowOf(caps', SHIFT')
      BY <1>3, <1>6, <1>7, <2>2 DEF RowOf
    <3>2. QED
      BY <1>3, <3>1, CapsOfRow
  <2>3. QED
    BY <2>1, <2>2
<1>9. ~CTRL' /\ ~both' => mode' = RowOf(caps', ShiftHeld')
  BY <1>2, <1>3, <1>5, <1>6, <1>7 DEF RowOf
<1>10. DoesAsAsked'
  <2> SUFFICES ASSUME ~both'
               PROVE  effect' = AskedOf(c, ControlHeld', AltHeld', caps',
                                        ShiftHeld')
      BY DEF DoesAsAsked, Handled
  <2>1. effect' = Controls(c, CTRL') \cup Line(c) \cup Switch(c, ALT')
                  \cup Stored(c, mode', CTRL')
    BY DEF Handled, getScancode
  <2>2. ShiftHeld' \in BOOLEAN
    BY DEF ShiftHeld
  <2>3. effect' = AskedOf(c, CTRL', ALT', caps', ShiftHeld')
    BY <1>2, <1>3, <1>8, <1>9, <2>1, <2>2, Effects
  <2>4. CTRL' = ControlHeld' /\ ALT' = AltHeld'
    BY <1>2 DEF ControlHeld, AltHeld
  <2>5. QED
    BY <2>3, <2>4
<1>11. QED
  <2>1. TypeOK'
    BY <1>2, <1>3, <1>4, <1>8 DEF TypeOK, Handled
  <2>2. FlagsFollow'
    BY <1>2, <1>5, <1>8 DEF FlagsFollow
  <2>3. ModeFollowsKeys'
    BY <1>2, <1>9 DEF ModeFollowsKeys
  <2>4. QED
    BY <1>10, <2>1, <2>2, <2>3 DEF KeysInv

LEMMA InductiveKeysInv == KeysInv /\ [Next]_vars => KeysInv'
<1>1. CASE Next
  BY <1>1, NextIsHandled, HandledKeepsInv
<1>2. CASE UNCHANGED vars
  BY <1>2 DEF vars, KeysInv, TypeOK, FlagsFollow, ModeFollowsKeys,
              DoesAsAsked, ShiftHeld, ControlHeld, AltHeld
<1>3. QED
  BY <1>1, <1>2

LEMMA KeysInvariant == Spec => []KeysInv
<1>1. QED
  BY InitKeysInv, InductiveKeysInv, PTL DEF Spec

\* getScancode never leaves the table of rows.
THEOREM TypeCorrect == Spec => []TypeOK
<1>1. KeysInv => TypeOK
  BY DEF KeysInv
<1>2. QED
  BY <1>1, KeysInvariant, PTL

\* Once control is up the row follows caps lock and shift, whatever was
\* pressed and released while getScancode did not look at shift.
THEOREM RowCorrect == Spec => []ModeFollowsKeys
<1>1. KeysInv => ModeFollowsKeys
  BY DEF KeysInv
<1>2. QED
  BY <1>1, KeysInvariant, PTL

\* Every key does what it says for the modifiers that are held.
THEOREM EffectCorrect == Spec => []DoesAsAsked
<1>1. KeysInv => DoesAsAsked
  BY DEF KeysInv
<1>2. QED
  BY <1>1, KeysInvariant, PTL
=============================================================================
