-------------------------------- MODULE Keys --------------------------------
(***************************************************************************)
(* The keys: what getScancode (keyboard.c) makes of the scan codes that    *)
(* arrive while shift, control, alt and caps lock are pressed and          *)
(* released in any order.  What a character, enter, backspace, a clear or  *)
(* a switch then does is in LineInput, Screen and Display; here it is an   *)
(* effect.                                                                 *)
(*                                                                         *)
(* The handler runs with interrupts disabled and is one step.  A key that  *)
(* is held sends its code again.                                           *)
(***************************************************************************)
EXTENDS Integers

CONSTANTS
  Letters,     \* keys that caps lock is for
  Symbols,     \* keys with two characters that it is not for
  L, C         \* the letters that control is for

ASSUME KeysAssumption ==
  /\ L \in Letters /\ C \in Letters /\ L # C
  /\ Letters \cap Symbols = {}

Shifts == {"left shift", "right shift"}
Modifiers == Shifts \cup {"control", "alt"}
FunctionKeys == {"F1", "F2", "F3"}

ASSUME NamesAssumption ==
  (Letters \cup Symbols)
    \cap (Modifiers \cup FunctionKeys \cup {"caps lock", "enter", "backspace"})
  = {}

CharKeys == Letters \cup Symbols
Keyboard == CharKeys \cup Modifiers \cup FunctionKeys
            \cup {"caps lock", "enter", "backspace"}

ORIG_MODE == 0
ORIG_SHIFT_MODE == 1
CAP_SHIFT_MODE == 2
CAP_MODE == 3
Modes == 0 .. 3

VARIABLES
  mode,               \* the row of Scancode
  SHIFT, CTRL, ALT,   \* pressed?
  effect,             \* what the last code led to
  code,               \* history: the last code,
  down,               \* the modifiers that are held,
  caps,               \* caps lock was sent an odd number of times,
  both                \* both shifts were held since none was

vars == <<mode, SHIFT, CTRL, ALT, effect, code, down, caps, both>>

Code == [key : Keyboard, on : BOOLEAN]
Effect(kind, what) == [kind |-> kind, what |-> what]

Init ==
  /\ mode = ORIG_MODE
  /\ SHIFT = FALSE /\ CTRL = FALSE /\ ALT = FALSE
  /\ effect = {}
  /\ code = [key |-> "enter", on |-> FALSE]
  /\ down = {} /\ caps = FALSE /\ both = FALSE

\* The character of a key in a row: of a letter the small or the capital
\* one, of a symbol the lower or the upper one.
Capital(m) == m \in {ORIG_SHIFT_MODE, CAP_MODE}
Upper(m) == m \in {ORIG_SHIFT_MODE, CAP_SHIFT_MODE}
Scancode(m, k) == <<k, IF k \in Letters THEN Capital(m) ELSE Upper(m)>>

\* Caps lock goes on, or off; in the last case the row of shift is taken
\* later, by AfterShift.
AlwaysOn(m) == IF m = ORIG_MODE THEN CAP_MODE ELSE CAP_SHIFT_MODE
AddRows(m) == m + CAP_MODE
AfterCaps(m) == CASE m = ORIG_MODE -> CAP_MODE
                  [] m = ORIG_SHIFT_MODE -> CAP_SHIFT_MODE
                  [] m \in {CAP_SHIFT_MODE, CAP_MODE} -> ORIG_MODE

AfterShift(m, shift) ==
  IF m \in {ORIG_MODE, ORIG_SHIFT_MODE}
    THEN IF shift THEN ORIG_SHIFT_MODE ELSE ORIG_MODE
    ELSE IF shift THEN CAP_SHIFT_MODE ELSE CAP_MODE

Flag(c, keys, old) == IF c.key \in keys THEN c.on ELSE old

\* Control + L and control + C.  signal_delivery gets the signal of the
\* displayed terminal.
Controls(c, ctrl) ==
  IF ~ctrl \/ ~c.on THEN {}
  ELSE {e \in {Effect("clear", L), Effect("signal", C)} : e.what = c.key}

Line(c) == IF c.on /\ c.key = "enter" THEN {Effect("line", "enter")} ELSE {}

Switch(c, alt) == IF alt /\ c.on /\ c.key \in FunctionKeys
                    THEN {Effect("switch", c.key)} ELSE {}

\* store_in_buffer: a character, but not that of enter, or backspace.
EvenControlled(c, m, ctrl) ==
  IF ~c.on THEN {}
  ELSE IF c.key \in CharKeys THEN {Effect("char", Scancode(m, c.key))}
  ELSE IF c.key = "backspace" THEN {Effect("erase", "backspace")} ELSE {}
Stored(c, m, ctrl) ==
  IF ~c.on THEN {}
  ELSE IF c.key \in CharKeys
    THEN IF ctrl THEN {} ELSE {Effect("char", Scancode(m, c.key))}
  ELSE IF c.key = "backspace" THEN {Effect("erase", "backspace")} ELSE {}

\* Control is looked at first, then caps lock, shift and, unless control is
\* pressed, the row; then enter, alt, and the character of that row.
getScancode(c) ==
  LET ctrl == Flag(c, {"control"}, CTRL)
      shift == Flag(c, Shifts, SHIFT)
      alt == Flag(c, {"alt"}, ALT)
      m == IF c.on /\ c.key = "caps lock" THEN AfterCaps(mode) ELSE mode
      row == IF ctrl THEN m ELSE AfterShift(m, shift)
  IN
  /\ CTRL' = ctrl /\ SHIFT' = shift /\ ALT' = alt
  /\ mode' = row
  /\ effect' = Controls(c, ctrl) \cup Line(c) \cup Switch(c, alt)
               \cup Stored(c, row, ctrl)

(***************************************************************************)
(* The user.                                                               *)
(***************************************************************************)
Press(k) ==
  LET now == down \cup ({k} \cap Modifiers) IN
  /\ getScancode([key |-> k, on |-> TRUE])
  /\ code' = [key |-> k, on |-> TRUE]
  /\ down' = now
  /\ caps' = IF k = "caps lock" THEN ~caps ELSE caps
  /\ both' = (both \/ Shifts \subseteq now)

Release(k) ==
  LET now == down \ {k} IN
  /\ k \in Modifiers => k \in down
  /\ getScancode([key |-> k, on |-> FALSE])
  /\ code' = [key |-> k, on |-> FALSE]
  /\ down' = now
  /\ both' = (both /\ Shifts \cap now # {})
  /\ UNCHANGED caps

Next == \E k \in Keyboard : Press(k) \/ Release(k)

Spec == Init /\ [][Next]_vars

(***************************************************************************)
(* Properties.                                                             *)
(***************************************************************************)
\* The row stays in the table.
TypeOK ==
  /\ mode \in Modes
  /\ SHIFT \in BOOLEAN /\ CTRL \in BOOLEAN /\ ALT \in BOOLEAN
  /\ code \in Code
  /\ down \subseteq Modifiers
  /\ caps \in BOOLEAN /\ both \in BOOLEAN

ShiftHeld == Shifts \cap down # {}
ControlHeld == "control" \in down
AltHeld == "alt" \in down

\* The row that caps lock and shift ask for.
RowOf(lock, shift) ==
  IF lock THEN IF shift THEN CAP_SHIFT_MODE ELSE CAP_MODE
          ELSE IF shift THEN ORIG_SHIFT_MODE ELSE ORIG_MODE

\* Whatever was pressed while control was held, and in whatever order shift,
\* caps lock and control came and went: as soon as control is up the row is
\* the one of caps lock and of the shift key that is held.  With both shift
\* keys the release of one ends the shift, and the row is right again when
\* both are up.
ModeFollowsKeys == ~ControlHeld /\ ~both => mode = RowOf(caps, ShiftHeld)

\* What a key is for while these modifiers are on.
AskedOf(c, ctrl, alt, lock, shift) ==
  LET k == c.key IN
  IF ~c.on THEN {}
  ELSE IF k = "enter" THEN {Effect("line", k)}
  ELSE IF k = "backspace" THEN {Effect("erase", k)}
  ELSE IF k \in FunctionKeys
    THEN IF alt THEN {Effect("switch", k)} ELSE {}
  ELSE IF k \in CharKeys
    THEN IF ctrl
           THEN (IF k = L THEN {Effect("clear", k)} ELSE {})
                \cup (IF k = C THEN {Effect("signal", k)} ELSE {})
         ELSE {Effect("char",
                      <<k, IF k \in Letters THEN lock # shift
                           ELSE shift>>)}
  ELSE {}

\* The last key did what it says for the modifiers that were held, and
\* nothing else: a letter is a capital when one of shift and caps lock is
\* on, a symbol the upper one when shift is held; with control no key
\* writes; alt switches terminals.
DoesAsAsked ==
  ~both => effect = AskedOf(code, ControlHeld, AltHeld, caps, ShiftHeld)
=============================================================================
