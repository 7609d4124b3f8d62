-------------------------- MODULE InterruptsProofs --------------------------
(***************************************************************************)
(* Interrupts: for any number of terminals and stacks of any depth, every  *)
(* service bit belongs to one handler that will clear it, the timer is     *)
(* never left masked, and the clock's line is never left high unless       *)
(* rtc_write came in between.                                              *)
(*                                                                         *)
(* All of this is about which points are on which stacks, so the first     *)
(* part says what a step of a handler does to the set of these points.     *)
(* The invariant adds that only the first point of a stack is not a        *)
(* handler's, that a masked timer is not in service, and that register C   *)
(* is selected while a handler is about to read it.                        *)
(***************************************************************************)
EXTENDS Interrupts, FiniteSetTheorems, TLAPS

USE DEF PIT_NUM, keyboard_irq_num, NMILINE, RTC_IRQ

Points == BasePoints \cup HandlerPoints

\* A stack is a program or call below handlers; the first terminal boots.
Stack(s) ==
  /\ s \in Seq(Points) /\ Len(s) <= MaxDepth
  /\ \A k \in 1 .. Len(s) : k = 1 <=> s[k] \in BasePoints
StacksOK ==
  /\ executing_terminal \in Terminals
  /\ frames \in [Terminals -> Seq(Points)]
  /\ \A t \in Terminals : Stack(frames[t])
  /\ frames[executing_terminal] # <<>>
  /\ \A t \in Terminals : OnStack(t, {"boot"}) => t = 0

RegistersOK ==
  /\ IF_flag \in BOOLEAN /\ special_mask \in BOOLEAN
  /\ irr \subseteq Sources /\ isr \subseteq Irqs /\ imr \subseteq {PIT_NUM}
  /\ rtc_index \in {"A", "C"}
  /\ periodic \in BOOLEAN /\ stolen \in BOOLEAN
  /\ interrupt_flag \in [Terminals -> BOOLEAN]

Held(i) == IF i \in isr THEN \E x : BeforeEoi(i) = {x} ELSE BeforeEoi(i) = {}
ServiceInv ==
  /\ \A i \in Sources : Held(i)
  /\ NMILINE \in isr <=> RTC_IRQ \in isr

TimerInv ==
  /\ PIT_NUM \in imr =>
       OnStack(executing_terminal, {"enable"}) /\ PIT_NUM \notin isr
  /\ \A t \in Terminals \ {executing_terminal} :
       HasProcess(t) => frames[t][Len(frames[t])] = "resume"

ClockInv ==
  /\ RtcNotLost
  /\ ~stolen /\ (\E t \in Terminals : OnStack(t, {"ack"})) => rtc_index = "C"

IInv == StacksOK /\ RegistersOK /\ ServiceInv /\ TimerInv /\ ClockInv

(***************************************************************************)
(* What a step does to a stack.                                            *)
(***************************************************************************)
\* Which points are on the stacks after the one on top of r, p, was replaced
\* by q or taken off (q = "none").
Replaced(r, p, q) ==
  /\ \A i \in Sources : q # EntryOf(i) =>
       BeforeEoi(i)' = BeforeEoi(i) \ {<<r, Len(frames[r])>>}
  /\ \A t \in Terminals, pts \in SUBSET Points :
       /\ OnStack(t, pts) => OnStack(t, pts)' \/ (t = r /\ p \in pts)
       /\ OnStack(t, pts)' => OnStack(t, pts) \/ (t = r /\ q \in pts)
       /\ t = r /\ q \in pts => OnStack(t, pts)'

\* What the stacks are after such a step.
After(r, p, q) ==
  /\ frames' \in [Terminals -> Seq(Points)]
  /\ \A t \in Terminals : Stack(frames'[t])
  /\ frames'[r] # <<>>
  /\ \A t \in Terminals \ {r} : frames'[t] = frames[t]
  /\ Replaced(r, p, q)

\* The top of a stack is replaced.
LEMMA TopReplaced ==
  ASSUME StacksOK, NEW r \in Terminals, r = executing_terminal,
         NEW p \in Points, At(p), NEW q \in Points,
         p \in BasePoints <=> q \in BasePoints,
         Goto(q)
  PROVE  After(r, p, q) /\ frames'[r][Len(frames'[r])] = q
<1> DEFINE s == frames[r]
           n == Len(s)
           new == [s EXCEPT ![n] = q]
<1>1. s \in Seq(Points) /\ n \in Nat /\ n >= 1 /\ Stack(s) /\ s[n] = p
  BY DEF StacksOK, At, Depth, run
<1>2. frames' = [frames EXCEPT ![r] = new]
  BY DEF Goto, Moved, run, Depth
<1>3. /\ new \in Seq(Points) /\ Len(new) = n /\ DOMAIN new = 1 .. n
      /\ new[n] = q /\ \A k \in 1 .. n : k # n => new[k] = s[k]
  BY <1>1
<1>4. Stack(new)
  BY <1>1, <1>3 DEF Stack
<1> HIDE DEF new
<1>5. /\ frames'[r] = new
      /\ \A t \in Terminals \ {r} : frames'[t] = frames[t]
      /\ frames' \in [Terminals -> Seq(Points)]
  BY <1>2, <1>3 DEF StacksOK
<1>6. ASSUME NEW i \in Sources, q # EntryOf(i)
      PROVE  BeforeEoi(i)' = BeforeEoi(i) \ {<<r, n>>}
  <2>1. ASSUME NEW t \in Terminals, NEW k \in 1 .. MaxDepth
        PROVE  (k \in DOMAIN frames'[t] /\ frames'[t][k] = EntryOf(i))
                 <=> (k \in DOMAIN frames[t] /\ frames[t][k] = EntryOf(i)
                      /\ <<t, k>> # <<r, n>>)
    <3>1. CASE t = r
      BY <1>1, <1>3, <1>5, <1>6, <3>1
    <3>2. CASE t # r
      BY <1>5, <3>2
    <3> QED
      BY <3>1, <3>2
  <2>2. EntryOf(i)' = EntryOf(i)
    BY DEF EntryOf
  <2> QED
    BY <2>1, <2>2 DEF BeforeEoi
<1>7. ASSUME NEW t \in Terminals, NEW pts \in SUBSET Points
      PROVE  /\ OnStack(t, pts) => OnStack(t, pts)' \/ (t = r /\ p \in pts)
             /\ OnStack(t, pts)' => OnStack(t, pts) \/ (t = r /\ q \in pts)
             /\ t = r /\ q \in pts => OnStack(t, pts)'
  <2>1. CASE t = r
    BY <1>1, <1>3, <1>5, <2>1 DEF OnStack
  <2>2. CASE t # r
    BY <1>5, <2>2 DEF OnStack
  <2> QED
    BY <2>1, <2>2
<1>8. \A t \in Terminals : Stack(frames'[t])
  BY <1>4, <1>5 DEF StacksOK
<1>9. new # <<>>
  BY <1>1, <1>3
<1> QED
  BY <1>1, <1>3, <1>5, <1>6, <1>7, <1>8, <1>9 DEF Replaced, After

\* The entry points of the three handlers are different.
LEMMA Entries ==
  /\ EntryOf(PIT_NUM) = "pit" /\ EntryOf(keyboard_irq_num) = "key"
  /\ EntryOf(RTC_IRQ) = "rtc"
  /\ \A i \in Sources : EntryOf(i) \in HandlerPoints
BY DEF EntryOf, Sources, HandlerPoints

\* The top of a stack is a handler's point and is taken off.
LEMMA TopRemoved ==
  ASSUME StacksOK, NEW r \in Terminals, r = executing_terminal,
         NEW p \in HandlerPoints, At(p), PopFrame
  PROVE  After(r, p, "none")
<1> DEFINE s == frames[r]
           n == Len(s)
           new == SubSeq(s, 1, n - 1)
<1>1. s \in Seq(Points) /\ n \in Nat /\ n >= 1 /\ Stack(s) /\ s[n] = p
  BY DEF StacksOK, At, Depth, run
<1>2. n # 1
  BY <1>1 DEF Stack, HandlerPoints, BasePoints
<1>3. frames' = [frames EXCEPT ![r] = new]
  BY DEF PopFrame, run, Depth
<1>4. /\ new \in Seq(Points) /\ Len(new) = n - 1 /\ DOMAIN new = 1 .. n - 1
      /\ \A k \in 1 .. n - 1 : new[k] = s[k]
  BY <1>1, <1>2
<1>5. Stack(new)
  <2>1. n - 1 <= MaxDepth
    BY <1>1, DepthAssumption DEF Stack
  <2>2. \A k \in 1 .. n - 1 : k \in 1 .. n
    BY <1>1
  <2>3. ASSUME NEW k \in 1 .. n - 1 PROVE k = 1 <=> s[k] \in BasePoints
    BY <1>1, <2>2 DEF Stack
  <2> HIDE DEF new, n, s
  <2> QED
    BY <1>4, <2>1, <2>3 DEF Stack
<1>6. new # <<>>
  <2>1. n - 1 # 0
    BY <1>1, <1>2
  <2> HIDE DEF new, n, s
  <2> QED
    BY <1>4, <2>1
<1> HIDE DEF new
<1>7. /\ frames'[r] = new
      /\ \A t \in Terminals \ {r} : frames'[t] = frames[t]
      /\ frames' \in [Terminals -> Seq(Points)]
  BY <1>3, <1>4 DEF StacksOK
<1>8. ASSUME NEW i \in Sources
      PROVE  BeforeEoi(i)' = BeforeEoi(i) \ {<<r, n>>}
  <2>1. ASSUME NEW t \in Terminals, NEW k \in 1 .. MaxDepth
        PROVE  (k \in DOMAIN frames'[t] /\ frames'[t][k] = EntryOf(i))
                 <=> (k \in DOMAIN frames[t] /\ frames[t][k] = EntryOf(i)
                      /\ <<t, k>> # <<r, n>>)
    <3>1. CASE t = r
      BY <1>1, <1>4, <1>7, <3>1
    <3>2. CASE t # r
      BY <1>7, <3>2
    <3> QED
      BY <3>1, <3>2
  <2>2. EntryOf(i)' = EntryOf(i)
    BY DEF EntryOf
  <2> QED
    BY <2>1, <2>2 DEF BeforeEoi
<1>9. ASSUME NEW t \in Terminals, NEW pts \in SUBSET Points
      PROVE  /\ OnStack(t, pts) => OnStack(t, pts)' \/ (t = r /\ p \in pts)
             /\ OnStack(t, pts)' => OnStack(t, pts)
             /\ "none" \notin pts
  <2>1. "none" \notin pts
    BY DEF Points, BasePoints, HandlerPoints
  <2>2. CASE t = r
    <3>1. \A k \in 1 .. n : k = n \/ (k \in 1 .. n - 1 /\ new[k] = s[k])
      BY <1>1, <1>4
    <3>2. \A k \in 1 .. n - 1 : k \in 1 .. n /\ new[k] = s[k]
      BY <1>1, <1>4
    <3>3. DOMAIN s = 1 .. n /\ DOMAIN new = 1 .. n - 1 /\ s[n] = p
      BY <1>1, <1>4
    <3>4. frames'[t] = new /\ frames[t] = s
      BY <1>7, <2>2
    <3>5. OnStack(t, pts) <=> \E k \in 1 .. n : s[k] \in pts
      BY <3>3, <3>4 DEF OnStack
    <3>6. OnStack(t, pts)' <=> \E k \in 1 .. n - 1 : new[k] \in pts
      BY <3>3, <3>4 DEF OnStack
    <3> HIDE DEF s, n
    <3>7. OnStack(t, pts) => OnStack(t, pts)' \/ p \in pts
      BY <3>1, <3>3, <3>5, <3>6
    <3>8. OnStack(t, pts)' => OnStack(t, pts)
      BY <3>2, <3>5, <3>6
    <3> QED
      BY <2>1, <2>2, <3>7, <3>8
  <2>3. CASE t # r
    <3>1. frames'[t] = frames[t]
      BY <1>7, <2>3
    <3>2. OnStack(t, pts)' <=> OnStack(t, pts)
      BY <3>1 DEF OnStack
    <3> QED
      BY <2>1, <3>2
  <2> QED
    BY <2>2, <2>3
<1>10. \A t \in Terminals : Stack(frames'[t])
  BY <1>5, <1>7 DEF StacksOK
<1> QED
  BY <1>6, <1>7, <1>8, <1>9, <1>10 DEF Replaced, After

\* A handler begins on top of a stack.
LEMMA TopAdded ==
  ASSUME StacksOK, NEW r \in Terminals, r = executing_terminal,
         NEW p \in HandlerPoints, Depth < MaxDepth,
         frames' = [frames EXCEPT ![run] = Append(@, p)]
  PROVE  /\ frames' \in [Terminals -> Seq(Points)]
         /\ \A t \in Terminals : Stack(frames'[t])
         /\ frames'[r] # <<>>
         /\ \A t \in Terminals \ {r} : frames'[t] = frames[t]
         /\ \A i \in Sources :
              BeforeEoi(i)' = IF p = EntryOf(i)
                                THEN BeforeEoi(i) \cup {<<r, Len(frames[r]) + 1>>}
                                ELSE BeforeEoi(i)
         /\ \A t \in Terminals, pts \in SUBSET Points :
              /\ OnStack(t, pts) => OnStack(t, pts)'
              /\ OnStack(t, pts)' => OnStack(t, pts) \/ (t = r /\ p \in pts)
              /\ t = r /\ p \in pts => OnStack(t, pts)'
<1> DEFINE s == frames[r]
           n == Len(s)
           new == Append(s, p)
<1>1. /\ s \in Seq(Points) /\ n \in Nat /\ n >= 1 /\ Stack(s)
      /\ n + 1 <= MaxDepth /\ p \in Points /\ p \notin BasePoints
  BY DepthAssumption DEF StacksOK, Depth, run, Points, HandlerPoints, BasePoints
<1>2. frames' = [frames EXCEPT ![r] = new]
  BY DEF run
<1>3. /\ new \in Seq(Points) /\ Len(new) = n + 1 /\ DOMAIN new = 1 .. n + 1
      /\ new[n + 1] = p /\ \A k \in 1 .. n : new[k] = s[k]
  BY <1>1
<1>4. Stack(new)
  BY <1>1, <1>3 DEF Stack
<1>5. new # <<>>
  BY <1>1, <1>3
<1> HIDE DEF new
<1>6. /\ frames'[r] = new
      /\ \A t \in Terminals \ {r} : frames'[t] = frames[t]
      /\ frames' \in [Terminals -> Seq(Points)]
  BY <1>2, <1>3 DEF StacksOK
<1>7. ASSUME NEW i \in Sources
      PROVE  BeforeEoi(i)' = IF p = EntryOf(i)
                               THEN BeforeEoi(i) \cup {<<r, n + 1>>}
                               ELSE BeforeEoi(i)
  <2>1. ASSUME NEW t \in Terminals, NEW k \in 1 .. MaxDepth
        PROVE  (k \in DOMAIN frames'[t] /\ frames'[t][k] = EntryOf(i))
                 <=> \/ k \in DOMAIN frames[t] /\ frames[t][k] = EntryOf(i)
                     \/ p = EntryOf(i) /\ t = r /\ k = n + 1
    <3>1. CASE t = r
      BY <1>1, <1>3, <1>6, <3>1
    <3>2. CASE t # r
      BY <1>6, <3>2
    <3> QED
      BY <3>1, <3>2
  <2>2. EntryOf(i)' = EntryOf(i)
    BY DEF EntryOf
  <2>3. n + 1 \in 1 .. MaxDepth
    BY <1>1, DepthAssumption
  <2> QED
    BY <2>1, <2>2, <2>3 DEF BeforeEoi
<1>8. ASSUME NEW t \in Terminals, NEW pts \in SUBSET Points
      PROVE  /\ OnStack(t, pts) => OnStack(t, pts)'
             /\ OnStack(t, pts)' => OnStack(t, pts) \/ (t = r /\ p \in pts)
             /\ t = r /\ p \in pts => OnStack(t, pts)'
  <2>1. CASE t = r
    BY <1>1, <1>3, <1>6, <2>1 DEF OnStack
  <2>2. CASE t # r
    BY <1>6, <2>2 DEF OnStack
  <2> QED
    BY <2>1, <2>2
<1>9. \A t \in Terminals : Stack(frames'[t])
  BY <1>4, <1>6 DEF StacksOK
<1> QED
  BY <1>5, <1>6, <1>7, <1>8, <1>9

(***************************************************************************)
(* How the parts of the invariant follow from what happens to the stacks.  *)
(***************************************************************************)
\* In service or not, one handler or none: what the property counts.
LEMMA IInvHolds == IInv => TypeOK /\ ServiceHeld /\ TimerKept /\ RtcNotLost
<1> SUFFICES ASSUME IInv PROVE TypeOK /\ ServiceHeld /\ TimerKept /\ RtcNotLost
  OBVIOUS
<1>1. TypeOK
  <2>1. /\ executing_terminal \in Terminals /\ frames[executing_terminal] # <<>>
        /\ frames \in [Terminals -> Seq(BasePoints \cup HandlerPoints)]
    BY DEF IInv, StacksOK, Points
  <2>2. imr \subseteq Irqs /\ RegistersOK
    BY DEF IInv, RegistersOK, Irqs, Sources
  <2> QED
    BY <2>1, <2>2 DEF TypeOK, RegistersOK
<1>2. ASSUME NEW i \in Sources
      PROVE  Cardinality(BeforeEoi(i)) = (IF i \in isr THEN 1 ELSE 0)
  <2>1. Held(i)
    BY DEF IInv, ServiceInv
  <2>2. CASE i \in isr
    <3>1. PICK x : BeforeEoi(i) = {x}
      BY <2>1, <2>2 DEF Held
    <3> QED
      BY <2>2, <3>1, FS_Singleton
  <2>3. CASE i \notin isr
    BY <2>1, <2>3, FS_EmptySet DEF Held
  <2> QED
    BY <2>2, <2>3
<1>3. ServiceHeld
  BY <1>2 DEF ServiceHeld, IInv, ServiceInv
<1>4. TimerKept /\ RtcNotLost
  BY DEF IInv, TimerInv, ClockInv, TimerKept
<1> QED
  BY <1>1, <1>3, <1>4

\* In the state in which entry enables interrupts there is one stack with
\* one point.
LEMMA InitIInv == Init => IInv
<1> SUFFICES ASSUME Init PROVE IInv
  OBVIOUS
<1>1. 0 \in Terminals /\ executing_terminal = 0
  BY TerminalsAssumption DEF Init, Terminals
<1>2. <<"boot">> \in Seq(Points) /\ <<>> \in Seq(Points)
  BY DEF Points, BasePoints, HandlerPoints
<1>3. StacksOK
  <2>1. frames \in [Terminals -> Seq(Points)]
    BY <1>2 DEF Init
  <2>2. Stack(<<"boot">>) /\ Stack(<<>>)
    BY <1>2, DepthAssumption DEF Stack, BasePoints
  <2>3. frames[0] = <<"boot">>
    BY <1>1 DEF Init
  <2>4. \A t \in Terminals : Stack(frames[t])
    BY <2>2 DEF Init
  <2>5. \A t \in Terminals : OnStack(t, {"boot"}) => t = 0
    BY DEF Init, OnStack
  <2> QED
    BY <1>1, <2>1, <2>3, <2>4, <2>5 DEF StacksOK
<1>4. ASSUME NEW t \in Terminals, NEW k \in DOMAIN frames[t]
      PROVE  frames[t][k] = "boot"
  BY DEF Init
<1>5. RegistersOK
  BY DEF Init, RegistersOK
<1>6. ServiceInv
  BY <1>4, Entries DEF Init, ServiceInv, Held, BeforeEoi, Sources
<1>7. TimerInv
  BY DEF Init, TimerInv, HasProcess
<1>8. ClockInv
  BY <1>4 DEF Init, ClockInv, RtcNotLost, OnStack
<1> QED
  BY <1>3, <1>5, <1>6, <1>7, <1>8 DEF IInv

\* The sets of points that the properties ask for.
Reading == {"rtc", "index", "ack"}
LEMMA PointSets ==
  {"enable"} \in SUBSET Points /\ {"ack"} \in SUBSET Points
  /\ Reading \in SUBSET Points /\ {"boot"} \in SUBSET Points
BY DEF Points, BasePoints, HandlerPoints, Reading

\* The running handler is the one that has to end a service exactly when it
\* is at its entry.
LEMMA TopBeforeEoi ==
  ASSUME StacksOK, NEW r \in Terminals, r = executing_terminal, NEW p, At(p),
         NEW i \in Sources
  PROVE  <<r, Len(frames[r])>> \in BeforeEoi(i) <=> p = EntryOf(i)
<1> DEFINE n == Len(frames[r])
<1>1. n \in Nat /\ n >= 1 /\ n <= MaxDepth /\ frames[r][n] = p
      /\ DOMAIN frames[r] = 1 .. n
  BY DEF StacksOK, Stack, At, Depth, run
<1> HIDE DEF n
<1>2. n \in 1 .. MaxDepth
  BY <1>1, DepthAssumption
<1> QED
  BY <1>1, <1>2 DEF BeforeEoi, n

\* Points that a step leads to are no entries of handlers.
Later == BasePoints \cup (HandlerPoints \ {"pit", "key", "rtc"}) \cup {"none"}
LEMMA LaterRemoves ==
  ASSUME NEW r, NEW p, NEW q \in Later, After(r, p, q), NEW j \in Sources
  PROVE  BeforeEoi(j)' = BeforeEoi(j) \ {<<r, Len(frames[r])>>}
<1>1. q # EntryOf(j)
  BY Entries DEF Later, Sources, BasePoints, HandlerPoints
<1> QED
  BY <1>1 DEF After, Replaced

\* A handler at its entry sends its EOI: it was the only one of its
\* interrupt, and its service ends.
LEMMA ServiceEnds ==
  ASSUME StacksOK, ServiceInv, NEW r \in Terminals, r = executing_terminal,
         NEW i \in Sources, NEW p, p = EntryOf(i), At(p), send_eoi(i),
         NEW q \in Later, After(r, p, q)
  PROVE  ServiceInv'
<1>1. /\ \A j \in Sources : j \in isr' <=> j \in isr /\ j # i
      /\ NMILINE \in isr' <=> NMILINE \in isr /\ i # RTC_IRQ
  BY DEF send_eoi, InService, Sources
<1>2. ASSUME NEW j \in Sources PROVE Held(j)'
  <2>1. Held(j)
    BY DEF ServiceInv
  <2>2. CASE j = i
    <3>1. <<r, Len(frames[r])>> \in BeforeEoi(i)
      BY TopBeforeEoi
    <3>2. BeforeEoi(i)' = {}
      BY <2>1, <2>2, <3>1, LaterRemoves DEF Held
    <3> QED
      BY <1>1, <2>2, <3>2 DEF Held
  <2>3. CASE j # i
    <3>1. EntryOf(j) # EntryOf(i)
      BY <2>3, Entries DEF Sources
    <3>2. <<r, Len(frames[r])>> \notin BeforeEoi(j)
      BY <3>1, TopBeforeEoi
    <3>3. BeforeEoi(j)' = BeforeEoi(j)
      BY <3>2, LaterRemoves
    <3> QED
      BY <1>1, <2>1, <2>3, <3>3 DEF Held
  <2> QED
    BY <2>2, <2>3
<1>3. NMILINE \in isr' <=> RTC_IRQ \in isr'
  BY <1>1 DEF ServiceInv, Sources
<1> QED
  BY <1>2, <1>3 DEF ServiceInv

\* Any other point that a handler leaves has nothing to do with services.
LEMMA ServiceGoesOn ==
  ASSUME StacksOK, ServiceInv, NEW r \in Terminals, r = executing_terminal,
         NEW p, At(p), \A j \in Sources : p # EntryOf(j), isr' = isr,
         NEW q \in Later, After(r, p, q)
  PROVE  ServiceInv'
<1>1. ASSUME NEW j \in Sources PROVE Held(j)'
  <2>1. Held(j)
    BY DEF ServiceInv
  <2>2. <<r, Len(frames[r])>> \notin BeforeEoi(j)
    <3>1. p # EntryOf(j)
      OBVIOUS
    <3> QED
      BY ONLY <3>1, StacksOK, r \in Terminals, r = executing_terminal, At(p),
              j \in Sources, TopBeforeEoi
  <2>3. BeforeEoi(j)' = BeforeEoi(j)
    BY <2>2, LaterRemoves
  <2> QED
    BY <2>1, <2>3 DEF Held
<1> QED
  BY <1>1 DEF ServiceInv

\* The clock's part goes on to hold while its state is left alone and the
\* handlers that will read register C stay or come nearer to it.
LEMMA ClockGoesOn ==
  ASSUME ClockInv, UNCHANGED <<irr, rtc_index, periodic, stolen>>,
         NEW r \in Terminals, NEW p, NEW q, After(r, p, q),
         p \in Reading => q \in Reading, q # "ack"
  PROVE  ClockInv'
<1>1. ASSUME NEW t \in Terminals, OnStack(t, Reading)
      PROVE  \E u \in Terminals : OnStack(u, Reading)'
  BY <1>1, PointSets DEF Replaced, After
<1>2. ASSUME NEW t \in Terminals, OnStack(t, {"ack"})'
      PROVE  OnStack(t, {"ack"})
  BY <1>2, PointSets DEF Replaced, After
<1>3. RtcNotLost'
  BY <1>1 DEF ClockInv, RtcNotLost, Reading
<1> QED
  BY <1>2, <1>3 DEF ClockInv

\* The timer's part goes on to hold while another terminal's thread does not
\* get the CPU, the mask is left alone and the point left is not "enable".
LEMMA TimerGoesOnToHold ==
  ASSUME TimerInv, NEW r \in Terminals, r = executing_terminal,
         executing_terminal' = r, imr' = imr,
         PIT_NUM \in imr => PIT_NUM \notin isr',
         NEW p, NEW q, After(r, p, q), p # "enable"
  PROVE  TimerInv'
<1>1. PIT_NUM \in imr => OnStack(r, {"enable"})'
  BY PointSets DEF TimerInv, Replaced, After
<1>2. OnStack(executing_terminal, {"enable"})' <=> OnStack(r, {"enable"})'
  BY DEF OnStack
<1>3. ASSUME NEW t \in Terminals \ {r}
      PROVE  HasProcess(t)' => frames'[t][Len(frames'[t])] = "resume"
  BY <1>3 DEF TimerInv, HasProcess, After
<1> QED
  BY <1>1, <1>2, <1>3 DEF TimerInv

(***************************************************************************)
(* Every step keeps the invariant.                                         *)
(***************************************************************************)
\* Steps that leave the stacks, the CPU, services and masks alone; the clock
\* may raise its line with a request, and rtc_write may select register A.
LEMMA DevicesKeepIInv ==
  ASSUME IInv, PitTick \/ Key \/ RtcTick \/ RtcWrite \/ UNCHANGED vars
  PROVE  IInv'
<1>1. UNCHANGED <<executing_terminal, frames, IF_flag, isr, imr, special_mask>>
  BY DEF PitTick, Key, RtcTick, RtcWrite, vars, pic
<1>2. \A t, pts : OnStack(t, pts)' <=> OnStack(t, pts)
  BY <1>1 DEF OnStack
<1>3. \A i : BeforeEoi(i)' = BeforeEoi(i)
  BY <1>1 DEF BeforeEoi, EntryOf
<1>4. StacksOK'
  BY <1>1, <1>2 DEF IInv, StacksOK
<1>5. RegistersOK'
  <2>1. CASE PitTick \/ Key
    BY <2>1 DEF IInv, RegistersOK, PitTick, Key, clock, Request, Sources
  <2>2. CASE RtcTick
    BY <2>2 DEF IInv, RegistersOK, RtcTick, Request, Sources
  <2>3. CASE RtcWrite
    <3>1. stolen' \in BOOLEAN
      BY <2>3 DEF IInv, RegistersOK, RtcWrite
    <3>2. rtc_index' = "A" /\ UNCHANGED <<IF_flag, pic, periodic,
                                         interrupt_flag>>
      BY <2>3 DEF RtcWrite
    <3> QED
      BY <3>1, <3>2 DEF IInv, RegistersOK, pic
  <2>4. CASE UNCHANGED vars
    BY <2>4 DEF IInv, RegistersOK, vars
  <2> QED
    BY <2>1, <2>2, <2>3, <2>4
<1>6. ServiceInv'
  BY <1>1, <1>3 DEF IInv, ServiceInv, Held
<1>7. TimerInv'
  BY <1>1, <1>2 DEF IInv, TimerInv, HasProcess
<1>8. ClockInv'
  <2>1. ClockInv
    BY DEF IInv
  <2>2. CASE PitTick \/ Key \/ UNCHANGED vars
    <3>1. UNCHANGED <<rtc_index, periodic, stolen>> /\ irr \subseteq irr'
      <4>1. CASE PitTick
        BY <4>1 DEF PitTick, clock, Request
      <4>2. CASE Key
        BY <4>2 DEF Key, clock, Request
      <4>3. CASE UNCHANGED vars
        BY <4>3 DEF vars
      <4> QED
        BY <2>2, <4>1, <4>2, <4>3
    <3> QED
      BY <1>2, <2>1, <3>1 DEF ClockInv, RtcNotLost
  <2>3. CASE RtcTick
    <3>1. UNCHANGED <<rtc_index, stolen>> /\ RTC_IRQ \in irr'
      BY <2>3 DEF RtcTick, Request
    <3> QED
      BY <1>2, <2>1, <3>1 DEF ClockInv, RtcNotLost
  <2>4. CASE RtcWrite
    <3>1. UNCHANGED <<irr, periodic>>
          /\ (~stolen' => ~stolen /\ \A u \in Terminals : ~OnStack(u, {"ack"}))
      BY <2>4 DEF RtcWrite, pic
    <3> QED
      BY <1>2, <2>1, <3>1 DEF ClockInv, RtcNotLost
  <2> QED
    BY <2>2, <2>3, <2>4
<1> QED
  BY <1>4, <1>5, <1>6, <1>7, <1>8 DEF IInv

\* The stacks keep their shape in a step of one thread.
LEMMA AfterStacks ==
  ASSUME StacksOK, NEW r \in Terminals, executing_terminal' = r, NEW p, NEW q,
         After(r, p, q), q # "boot"
  PROVE  StacksOK'
<1>1. ASSUME NEW t \in Terminals, OnStack(t, {"boot"})' PROVE t = 0
  BY <1>1, PointSets DEF After, Replaced, StacksOK
<1> QED
  BY <1>1 DEF After, StacksOK, Stack

\* The mask of the timer is set with its EOI.
LEMMA PitNoSwitchIInv ==
  ASSUME IInv, PitNoSwitch, NEW r \in Terminals, r = executing_terminal
  PROVE  IInv'
<1>1. /\ At("pit") /\ Goto("enable") /\ send_eoi(PIT_NUM)
      /\ imr' = imr \cup {PIT_NUM} /\ IF_flag' = TRUE
      /\ UNCHANGED <<executing_terminal, irr, clock>>
  BY DEF PitNoSwitch
<1>2. r \in Terminals /\ StacksOK /\ RegistersOK /\ ServiceInv /\ TimerInv
      /\ ClockInv
  BY DEF IInv, StacksOK
<1>3. After(r, "pit", "enable")
  BY <1>1, <1>2, TopReplaced DEF Points, BasePoints, HandlerPoints
<1>4. ServiceInv'
  BY <1>1, <1>2, <1>3, ServiceEnds, Entries
     DEF Later, HandlerPoints, Sources
<1>5. RegistersOK'
  BY <1>1, <1>2 DEF RegistersOK, send_eoi, clock
<1>6. PIT_NUM \notin isr'
  BY <1>1 DEF send_eoi, InService
<1>7. TimerInv'
  <2>1. OnStack(r, {"enable"})'
    BY <1>2, <1>3, PointSets DEF After, Replaced
  <2>2. ASSUME NEW t \in Terminals \ {r}
        PROVE  HasProcess(t)' => frames'[t][Len(frames'[t])] = "resume"
    BY <1>2, <1>3, <2>2 DEF TimerInv, HasProcess, After
  <2>3. OnStack(executing_terminal, {"enable"})'
    BY <1>1, <2>1 DEF OnStack
  <2> QED
    BY <1>1, <1>6, <2>2, <2>3 DEF TimerInv
<1>8. ClockInv'
  BY <1>1, <1>2, <1>3, ClockGoesOn DEF clock, Reading
<1>9. StacksOK'
  BY <1>1, <1>2, <1>3, AfterStacks
<1> QED
  BY <1>4, <1>5, <1>7, <1>8, <1>9 DEF IInv

\* context_switch enables the timer again.
LEMMA PitEnableIInv == ASSUME IInv, PitEnable PROVE IInv'
<1> DEFINE r == executing_terminal
<1>1. /\ At("enable") /\ Goto("resume") /\ imr' = imr \ {PIT_NUM}
      /\ UNCHANGED <<executing_terminal, IF_flag, irr, isr, special_mask, clock>>
  BY DEF PitEnable, enable_irq
<1>2. r \in Terminals /\ StacksOK /\ RegistersOK /\ ServiceInv /\ TimerInv
      /\ ClockInv
  BY DEF IInv, StacksOK
<1>3. After(r, "enable", "resume")
  BY <1>1, <1>2, TopReplaced DEF Points, BasePoints, HandlerPoints
<1>4. ServiceInv'
  BY <1>1, <1>2, <1>3, ServiceGoesOn, Entries
     DEF Later, HandlerPoints, Sources
<1>5. RegistersOK'
  BY <1>1, <1>2 DEF RegistersOK, clock
<1>6. TimerInv'
  <2>1. ASSUME NEW t \in Terminals \ {r}
        PROVE  HasProcess(t)' => frames'[t][Len(frames'[t])] = "resume"
    BY <1>2, <1>3, <2>1 DEF TimerInv, HasProcess, After
  <2> QED
    BY <1>1, <2>1 DEF TimerInv
<1>7. ClockInv'
  BY <1>1, <1>2, <1>3, ClockGoesOn DEF clock, Reading
<1>8. StacksOK'
  BY <1>1, <1>2, <1>3, AfterStacks
<1> QED
  BY <1>4, <1>5, <1>6, <1>7, <1>8 DEF IInv

\* The thread that gives up the CPU is left in context_switch.
LEMMA PitSwitchIInv == ASSUME IInv, PitSwitch PROVE IInv'
<1> DEFINE r == executing_terminal
           n == next_scheduled_terminal
<1>1. /\ At("pit") /\ Goto("resume") /\ imr' = imr \ {PIT_NUM}
      /\ send_eoi(PIT_NUM) /\ executing_terminal' = n /\ IF_flag' = FALSE
      /\ n # r /\ HasProcess(n) /\ UNCHANGED <<irr, clock>>
  BY DEF PitSwitch, enable_irq
<1>2. r \in Terminals /\ StacksOK /\ RegistersOK /\ ServiceInv /\ TimerInv
      /\ ClockInv
  BY DEF IInv, StacksOK
<1>3. n \in Terminals
  BY <1>2, TerminalsAssumption DEF next_scheduled_terminal, Terminals
<1>4. After(r, "pit", "resume") /\ frames'[r][Len(frames'[r])] = "resume"
  BY <1>1, <1>2, TopReplaced DEF Points, BasePoints, HandlerPoints
<1>5. ServiceInv'
  BY <1>1, <1>2, <1>4, ServiceEnds, Entries
     DEF Later, HandlerPoints, Sources
<1>6. RegistersOK'
  BY <1>1, <1>2 DEF RegistersOK, send_eoi, clock
<1>7. TimerInv'
  <2>1. ASSUME NEW t \in Terminals \ {r}
        PROVE  HasProcess(t)' => frames'[t][Len(frames'[t])] = "resume"
    BY <1>2, <1>4, <2>1 DEF TimerInv, HasProcess, After
  <2>2. PIT_NUM \notin imr'
    BY <1>1
  <2> HIDE DEF n, r
  <2> QED
    BY <1>1, <1>4, <2>1, <2>2 DEF TimerInv
<1>8. ClockInv'
  BY <1>1, <1>2, <1>4, ClockGoesOn DEF clock, Reading
<1>9. StacksOK'
  <2>1. frames'[n] # <<>>
    BY <1>1, <1>3, <1>4 DEF After, HasProcess
  <2>2. ASSUME NEW t \in Terminals, OnStack(t, {"boot"})' PROVE t = 0
    BY <1>2, <1>4, <2>2, PointSets DEF After, Replaced, StacksOK
  <2> HIDE DEF n
  <2> QED
    BY <1>1, <1>3, <1>4, <2>1, <2>2 DEF After, StacksOK, Stack
<1> QED
  BY <1>5, <1>6, <1>7, <1>8, <1>9 DEF IInv

\* The thread of the next terminal goes on below its timer handler.
LEMMA PitReturnIInv == ASSUME IInv, PitReturn PROVE IInv'
<1> DEFINE r == executing_terminal
<1>1. /\ At("resume") /\ PopFrame /\ IF_flag' = TRUE
      /\ UNCHANGED <<executing_terminal, pic, clock>>
  BY DEF PitReturn
<1>2. r \in Terminals /\ StacksOK /\ RegistersOK /\ ServiceInv /\ TimerInv
      /\ ClockInv
  BY DEF IInv, StacksOK
<1>3. After(r, "resume", "none")
  BY <1>1, <1>2, TopRemoved DEF HandlerPoints
<1>4. ServiceInv'
  BY <1>1, <1>2, <1>3, ServiceGoesOn, Entries
     DEF Later, HandlerPoints, Sources, pic
<1>5. RegistersOK'
  BY <1>1, <1>2 DEF RegistersOK, clock, pic
<1>6. TimerInv'
  BY <1>1, <1>2, <1>3, TimerGoesOnToHold DEF TimerInv, pic
<1>7. ClockInv'
  BY <1>1, <1>2, <1>3, ClockGoesOn DEF clock, pic, Reading
<1>8. StacksOK'
  BY <1>1, <1>2, <1>3, AfterStacks
<1> QED
  BY <1>4, <1>5, <1>6, <1>7, <1>8 DEF IInv

\* The keyboard handler ends its service and returns.
LEMMA GetScancodeIInv == ASSUME IInv, GetScancode PROVE IInv'
<1> DEFINE r == executing_terminal
<1>1. /\ At("key") /\ PopFrame /\ IF_flag' = TRUE
      /\ send_eoi(keyboard_irq_num)
      /\ UNCHANGED <<executing_terminal, irr, imr, clock>>
  BY DEF GetScancode
<1>2. r \in Terminals /\ StacksOK /\ RegistersOK /\ ServiceInv /\ TimerInv
      /\ ClockInv
  BY DEF IInv, StacksOK
<1>3. After(r, "key", "none")
  BY <1>1, <1>2, TopRemoved DEF HandlerPoints
<1>4. ServiceInv'
  BY <1>1, <1>2, <1>3, ServiceEnds, Entries
     DEF Later, HandlerPoints, Sources
<1>5. RegistersOK'
  BY <1>1, <1>2 DEF RegistersOK, send_eoi, clock
<1>6. TimerInv'
  BY <1>1, <1>2, <1>3, TimerGoesOnToHold DEF TimerInv, send_eoi
<1>7. ClockInv'
  BY <1>1, <1>2, <1>3, ClockGoesOn DEF clock, Reading
<1>8. StacksOK'
  BY <1>1, <1>2, <1>3, AfterStacks
<1> QED
  BY <1>4, <1>5, <1>6, <1>7, <1>8 DEF IInv

\* rtc_interrupt ends its service first.
LEMMA RtcEoiIInv == ASSUME IInv, RtcEoi PROVE IInv'
<1> DEFINE r == executing_terminal
<1>1. /\ At("rtc") /\ Goto("index") /\ send_eoi(RTC_IRQ)
      /\ UNCHANGED <<executing_terminal, IF_flag, irr, imr, clock>>
  BY DEF RtcEoi
<1>2. r \in Terminals /\ StacksOK /\ RegistersOK /\ ServiceInv /\ TimerInv
      /\ ClockInv
  BY DEF IInv, StacksOK
<1>3. After(r, "rtc", "index")
  BY <1>1, <1>2, TopReplaced DEF Points, BasePoints, HandlerPoints
<1>4. ServiceInv'
  BY <1>1, <1>2, <1>3, ServiceEnds, Entries
     DEF Later, HandlerPoints, Sources
<1>5. RegistersOK'
  BY <1>1, <1>2 DEF RegistersOK, send_eoi, clock
<1>6. TimerInv'
  BY <1>1, <1>2, <1>3, TimerGoesOnToHold DEF TimerInv, send_eoi
<1>7. ClockInv'
  BY <1>1, <1>2, <1>3, ClockGoesOn DEF clock, Reading
<1>8. StacksOK'
  BY <1>1, <1>2, <1>3, AfterStacks
<1> QED
  BY <1>4, <1>5, <1>6, <1>7, <1>8 DEF IInv

\* Then it selects register C,
LEMMA RtcSelectIInv ==
  ASSUME IInv, RtcSelect, NEW r \in Terminals, r = executing_terminal
  PROVE  IInv'
<1>1. /\ At("index") /\ Goto("ack") /\ rtc_index' = "C"
      /\ UNCHANGED <<executing_terminal, IF_flag, pic, periodic, interrupt_flag,
                     stolen>>
  BY DEF RtcSelect, SelectedRegister
<1>2. r \in Terminals /\ StacksOK /\ RegistersOK /\ ServiceInv /\ TimerInv
      /\ ClockInv
  BY DEF IInv, StacksOK
<1>3. After(r, "index", "ack")
  BY <1>1, <1>2, TopReplaced DEF Points, BasePoints, HandlerPoints
<1>4. ServiceInv'
  BY <1>1, <1>2, <1>3, ServiceGoesOn, Entries
     DEF Later, HandlerPoints, Sources, pic
<1>5. RegistersOK'
  BY <1>1, <1>2 DEF RegistersOK, pic
<1>6. TimerInv'
  BY <1>1, <1>2, <1>3, TimerGoesOnToHold DEF TimerInv, pic
<1>7. ClockInv'
  <2>1. OnStack(r, Reading)'
    BY <1>2, <1>3, PointSets DEF After, Replaced, Reading
  <2> QED
    BY <1>1, <1>2, <2>1 DEF ClockInv, RtcNotLost, Reading
<1>8. StacksOK'
  BY <1>1, <1>2, <1>3, AfterStacks
<1> QED
  BY <1>4, <1>5, <1>6, <1>7, <1>8 DEF IInv

\* and reads it, which lowers the line unless rtc_write came in between,
LEMMA RtcAckIInv == ASSUME IInv, RtcAck PROVE IInv'
<1> DEFINE r == executing_terminal
<1>1. /\ At("ack") /\ Goto("flags") /\ periodic' = (periodic /\ rtc_index # "C")
      /\ UNCHANGED <<executing_terminal, IF_flag, pic, rtc_index,
                     interrupt_flag, stolen>>
  BY DEF RtcAck, AfterRead
<1>2. r \in Terminals /\ StacksOK /\ RegistersOK /\ ServiceInv /\ TimerInv
      /\ ClockInv
  BY DEF IInv, StacksOK
<1>3. After(r, "ack", "flags")
  BY <1>1, <1>2, TopReplaced DEF Points, BasePoints, HandlerPoints
<1>4. ServiceInv'
  BY <1>1, <1>2, <1>3, ServiceGoesOn, Entries
     DEF Later, HandlerPoints, Sources, pic
<1>5. RegistersOK'
  <2>1. periodic' \in BOOLEAN
    BY <1>1
  <2> QED
    BY <1>1, <1>2, <2>1 DEF RegistersOK, pic
<1>6. TimerInv'
  BY <1>1, <1>2, <1>3, TimerGoesOnToHold DEF TimerInv, pic
<1>7. ClockInv'
  <2>1. OnStack(r, {"ack"})
    BY <1>1, <1>2 DEF StacksOK, Stack, At, Depth, run, OnStack
  <2>2. ~stolen => rtc_index = "C"
    BY <1>2, <2>1 DEF ClockInv
  <2>3. ASSUME NEW t \in Terminals, OnStack(t, {"ack"})'
        PROVE  OnStack(t, {"ack"})
    BY <1>3, <2>3, PointSets DEF After, Replaced
  <2>4. ~stolen' => ~periodic'
    BY <1>1, <2>2
  <2>5. RtcNotLost'
    BY <2>4 DEF RtcNotLost
  <2>6. ~stolen' /\ (\E t \in Terminals : OnStack(t, {"ack"})') => rtc_index' = "C"
    BY <1>1, <2>2
  <2> QED
    BY <2>5, <2>6 DEF ClockInv
<1>8. StacksOK'
  BY <1>1, <1>2, <1>3, AfterStacks
<1> QED
  BY <1>4, <1>5, <1>6, <1>7, <1>8 DEF IInv

\* sets the flags and returns.
LEMMA RtcFlagsIInv == ASSUME IInv, RtcFlags PROVE IInv'
<1> DEFINE r == executing_terminal
<1>1. /\ At("flags") /\ PopFrame /\ interrupt_flag' = [t \in Terminals |-> TRUE]
      /\ UNCHANGED <<executing_terminal, IF_flag, pic, rtc_index, periodic,
                     stolen>>
  BY DEF RtcFlags, AllFlags
<1>2. r \in Terminals /\ StacksOK /\ RegistersOK /\ ServiceInv /\ TimerInv
      /\ ClockInv
  BY DEF IInv, StacksOK
<1>3. After(r, "flags", "none")
  BY <1>1, <1>2, TopRemoved DEF HandlerPoints
<1>4. ServiceInv'
  BY <1>1, <1>2, <1>3, ServiceGoesOn, Entries
     DEF Later, HandlerPoints, Sources, pic
<1>5. RegistersOK'
  BY <1>1, <1>2 DEF RegistersOK, pic
<1>6. TimerInv'
  BY <1>1, <1>2, <1>3, TimerGoesOnToHold DEF TimerInv, pic
<1>7. ClockInv'
  BY <1>1, <1>2, <1>3, ClockGoesOn DEF pic, Reading
<1>8. StacksOK'
  BY <1>1, <1>2, <1>3, AfterStacks
<1> QED
  BY <1>4, <1>5, <1>6, <1>7, <1>8 DEF IInv

\* Programs and calls change only the first point of their stack.
LEMMA ProgramsKeepIInv ==
  ASSUME IInv, Boot \/ RtcRead \/ RtcReadReturns PROVE IInv'
<1> DEFINE r == executing_terminal
<1>1. PICK p \in BasePoints, q \in BasePoints \ {"boot"} : At(p) /\ Goto(q)
  BY DEF Boot, RtcRead, RtcReadReturns, BasePoints
<1>2. UNCHANGED <<executing_terminal, IF_flag, pic, rtc_index, periodic, stolen>>
  BY DEF Boot, RtcRead, RtcReadReturns, clock
<1>3. r \in Terminals /\ StacksOK /\ RegistersOK /\ ServiceInv /\ TimerInv
      /\ ClockInv
  BY DEF IInv, StacksOK
<1>4. After(r, p, q)
  BY <1>1, <1>3, TopReplaced DEF Points
<1>5. p \notin HandlerPoints /\ q \in Later /\ q # "ack" /\ p \notin Reading
      /\ p # "enable"
  BY DEF BasePoints, HandlerPoints, Later, Reading
<1>6. ServiceInv'
  <2>1. \A j \in Sources : p # EntryOf(j)
    BY <1>5, Entries
  <2> QED
    BY <1>1, <1>2, <1>3, <1>4, <1>5, <2>1, ServiceGoesOn DEF pic
<1>7. RegistersOK'
  <2>1. interrupt_flag' \in [Terminals -> BOOLEAN]
    BY <1>3 DEF RegistersOK, Boot, RtcRead, RtcReadReturns, clock
  <2> QED
    BY <1>2, <1>3, <2>1 DEF RegistersOK, pic
<1>8. TimerInv'
  BY <1>2, <1>3, <1>4, <1>5, TimerGoesOnToHold DEF TimerInv, pic
<1>9. ClockInv'
  BY <1>2, <1>3, <1>4, <1>5, ClockGoesOn DEF pic
<1>10. StacksOK'
  BY <1>2, <1>3, <1>4, AfterStacks
<1> QED
  BY <1>6, <1>7, <1>8, <1>9, <1>10 DEF IInv

\* The CPU takes an interrupt only when none of its kind is in service, since
\* one that is not masked holds back its own kind even in special mask mode.
LEMMA AcceptIInv ==
  ASSUME IInv, NEW i \in Sources, Accept(i),
         NEW r \in Terminals, r = executing_terminal
  PROVE  IInv'
<1>1. /\ Depth < MaxDepth /\ i \in irr \ imr /\ ~Blocked(i)
      /\ irr' = irr \ {i} /\ isr' = isr \cup InService(i)
      /\ frames' = [frames EXCEPT ![run] = Append(@, EntryOf(i))]
      /\ UNCHANGED <<executing_terminal, IF_flag, imr, special_mask, clock>>
  BY DEF Accept, Deliverable
<1>2. r \in Terminals /\ StacksOK /\ RegistersOK /\ ServiceInv /\ TimerInv
      /\ ClockInv
  BY DEF IInv, StacksOK
<1>3. i \notin isr
  <2>1. Rank(i) <= Rank(i)
    BY DEF Rank, Sources
  <2> QED
    BY <1>1, <2>1 DEF Blocked
<1>4. EntryOf(i) \in HandlerPoints
  BY Entries
<1> DEFINE e == EntryOf(i)
           place == <<r, Len(frames[r]) + 1>>
<1>5. /\ frames' \in [Terminals -> Seq(Points)]
      /\ \A t \in Terminals : Stack(frames'[t])
      /\ frames'[r] # <<>>
      /\ \A t \in Terminals \ {r} : frames'[t] = frames[t]
      /\ \A j \in Sources :
           BeforeEoi(j)' = IF e = EntryOf(j) THEN BeforeEoi(j) \cup {place}
                           ELSE BeforeEoi(j)
      /\ \A t \in Terminals, pts \in SUBSET Points :
           /\ OnStack(t, pts) => OnStack(t, pts)'
           /\ OnStack(t, pts)' => OnStack(t, pts) \/ (t = r /\ e \in pts)
           /\ t = r /\ e \in pts => OnStack(t, pts)'
  BY <1>1, <1>2, <1>4, TopAdded
<1>6. /\ \A j \in Sources : j \in isr' <=> j \in isr \/ j = i
      /\ NMILINE \in isr' <=> NMILINE \in isr \/ i = RTC_IRQ
  BY <1>1 DEF InService, Sources
<1>7. ASSUME NEW j \in Sources PROVE Held(j)'
  <2>1. Held(j)
    BY <1>2 DEF ServiceInv
  <2>2. CASE j = i
    <3>1. BeforeEoi(j) = {} /\ j \in isr'
      BY <1>3, <1>6, <2>1, <2>2 DEF Held
    <3>2. BeforeEoi(j)' = {place}
      BY <1>5, <2>2, <3>1
    <3> QED
      BY <3>1, <3>2 DEF Held
  <2>3. CASE j # i
    <3>1. e # EntryOf(j)
      BY <2>3, Entries DEF Sources
    <3>2. BeforeEoi(j)' = BeforeEoi(j)
      BY <1>5, <3>1
    <3> QED
      BY <1>6, <2>1, <2>3, <3>2 DEF Held
  <2> QED
    BY <2>2, <2>3
<1>8. ServiceInv'
  BY <1>2, <1>6, <1>7 DEF ServiceInv, Sources
<1>9. RegistersOK'
  BY <1>1, <1>2 DEF RegistersOK, clock, InService, Sources, Irqs
<1>10. TimerInv'
  <2>1. PIT_NUM \in imr' => PIT_NUM \notin isr' /\ OnStack(r, {"enable"})
    BY <1>1, <1>2, <1>6 DEF TimerInv, Sources
  <2>2. OnStack(r, {"enable"}) => OnStack(executing_terminal, {"enable"})'
    <3>1. OnStack(r, {"enable"}) => OnStack(r, {"enable"})'
      BY <1>2, <1>5, PointSets
    <3> QED
      BY <1>1, <3>1 DEF OnStack
  <2>3. ASSUME NEW t \in Terminals \ {r}
        PROVE  HasProcess(t)' => frames'[t][Len(frames'[t])] = "resume"
    BY <1>2, <1>5, <2>3 DEF TimerInv, HasProcess
  <2> QED
    BY <1>1, <2>1, <2>2, <2>3 DEF TimerInv
<1>11. ClockInv'
  <2>1. ASSUME NEW t \in Terminals, OnStack(t, Reading)
        PROVE  OnStack(t, Reading)'
    BY <1>5, <2>1, PointSets
  <2>2. i = RTC_IRQ => OnStack(r, Reading)'
    BY <1>2, <1>5, PointSets, Entries DEF Reading
  <2>3. ASSUME NEW t \in Terminals, OnStack(t, {"ack"})'
        PROVE  OnStack(t, {"ack"})
    <3>1. e # "ack"
      BY Entries DEF Sources
    <3> QED
      BY <1>5, <2>3, <3>1, PointSets
  <2>4. UNCHANGED <<rtc_index, periodic, stolen>>
    BY <1>1 DEF clock
  <2>5. RtcNotLost'
    <3>1. CASE i = RTC_IRQ
      BY <1>2, <2>2, <3>1 DEF RtcNotLost, Reading
    <3>2. CASE i # RTC_IRQ
      <4>1. RTC_IRQ \in irr => RTC_IRQ \in irr'
        BY <1>1, <3>2
      <4> QED
        BY <1>2, <2>1, <2>4, <4>1 DEF ClockInv, RtcNotLost, Reading
    <3> QED
      BY <3>1, <3>2
  <2> QED
    BY <1>2, <2>3, <2>4, <2>5 DEF ClockInv
<1>12. StacksOK'
  <2>1. e # "boot"
    BY Entries DEF Sources
  <2>2. ASSUME NEW t \in Terminals, OnStack(t, {"boot"})' PROVE t = 0
    BY <1>2, <1>5, <2>1, <2>2, PointSets DEF StacksOK
  <2> QED
    BY <1>1, <1>2, <1>5, <2>2 DEF StacksOK, Stack
<1> QED
  BY <1>8, <1>9, <1>10, <1>11, <1>12 DEF IInv

\* The shell of the next terminal begins on a stack of its own.
LEMMA PitLaunchIInv ==
  ASSUME IInv, PitLaunch, NEW r \in Terminals, r = executing_terminal,
         NEW n \in Terminals, n = next_scheduled_terminal
  PROVE  IInv'
<1>1. /\ At("pit") /\ send_eoi(PIT_NUM) /\ imr' = imr \ {PIT_NUM}
      /\ executing_terminal' = n /\ IF_flag' = TRUE
      /\ HasProcess(0) /\ n # r /\ ~HasProcess(n)
      /\ frames' = [Moved("resume") EXCEPT ![n] = <<"user">>]
      /\ UNCHANGED <<irr, clock>>
  BY DEF PitLaunch, enable_irq
<1>2. StacksOK /\ RegistersOK /\ ServiceInv /\ TimerInv /\ ClockInv
  BY DEF IInv
<1> DEFINE s == frames[r]
           m == Len(s)
           new == [s EXCEPT ![m] = "resume"]
<1>3. s \in Seq(Points) /\ m \in Nat /\ m >= 1 /\ Stack(s) /\ s[m] = "pit"
  BY <1>1, <1>2 DEF StacksOK, At, Depth, run
<1>4. /\ new \in Seq(Points) /\ Len(new) = m /\ DOMAIN new = 1 .. m
      /\ new[m] = "resume" /\ \A k \in 1 .. m : k # m => new[k] = s[k]
  BY <1>3 DEF Points, HandlerPoints
<1>5. Stack(new)
  BY <1>3, <1>4 DEF Stack, BasePoints
<1>6. Stack(<<"user">>) /\ <<"user">> \in Seq(Points)
  BY DepthAssumption DEF Stack, Points, BasePoints
<1>7. frames' = [[frames EXCEPT ![r] = new] EXCEPT ![n] = <<"user">>]
  BY <1>1 DEF Moved, run, Depth
<1>8. /\ frames'[r] = new /\ frames'[n] = <<"user">>
      /\ \A t \in Terminals \ {r, n} : frames'[t] = frames[t]
      /\ frames' \in [Terminals -> Seq(Points)]
  <2> HIDE DEF new
  <2>1. frames \in [Terminals -> Seq(Points)] /\ n # r
    BY <1>1, <1>2 DEF StacksOK
  <2>2. new \in Seq(Points) /\ <<"user">> \in Seq(Points)
    BY <1>4, <1>6
  <2> QED
    BY <1>7, <2>1, <2>2
<1> HIDE DEF new
<1>9. frames[n] = <<>>
  <2>1. n # 0
    BY <1>1
  <2>2. frames[n] # <<>> => 1 \in DOMAIN frames[n]
    BY <1>2 DEF StacksOK
  <2>3. frames[n] # <<>> => OnStack(n, {"boot"})
    BY <1>1, <2>2 DEF HasProcess, OnStack
  <2> QED
    BY <1>2, <2>1, <2>3 DEF StacksOK
\* What is on the stacks changes as if only the top of r were replaced,
\* except for the new program.
<1>10. ASSUME NEW i \in Sources
       PROVE  BeforeEoi(i)' = BeforeEoi(i) \ {<<r, m>>}
  <2>1. EntryOf(i)' = EntryOf(i) /\ EntryOf(i) \notin {"resume", "user"}
    BY Entries DEF EntryOf, Sources
  <2>2. ASSUME NEW t \in Terminals, NEW k \in 1 .. MaxDepth
        PROVE  (k \in DOMAIN frames'[t] /\ frames'[t][k] = EntryOf(i))
                 <=> (k \in DOMAIN frames[t] /\ frames[t][k] = EntryOf(i)
                      /\ <<t, k>> # <<r, m>>)
    <3>1. CASE t = r
      BY <1>3, <1>4, <1>8, <2>1, <3>1
    <3>2. CASE t = n
      BY <1>1, <1>8, <1>9, <2>1, <3>2
    <3>3. CASE t \notin {r, n}
      BY <1>8, <3>3
    <3> QED
      BY <3>1, <3>2, <3>3
  <2> QED
    BY <2>1, <2>2 DEF BeforeEoi
<1>11. ASSUME NEW t \in Terminals, NEW pts \in SUBSET HandlerPoints,
              "pit" \notin pts, "resume" \notin pts
       PROVE  OnStack(t, pts)' <=> OnStack(t, pts)
  <2>1. CASE t = r
    <3>1. ASSUME NEW k \in 1 .. m PROVE new[k] \in pts <=> s[k] \in pts
      <4>1. CASE k = m
        BY <1>3, <1>4, <1>11, <4>1
      <4>2. CASE k # m
        BY <1>4, <4>2
      <4> QED
        BY <4>1, <4>2
    <3>2. DOMAIN s = 1 .. m /\ DOMAIN new = 1 .. m
      BY <1>3, <1>4
    <3>3. frames'[t] = new /\ frames[t] = s
      BY <1>8, <2>1
    <3> HIDE DEF s, m
    <3> QED
      BY <3>1, <3>2, <3>3 DEF OnStack
  <2>2. CASE t = n
    BY <1>1, <1>8, <1>9, <2>2 DEF OnStack, HandlerPoints
  <2>3. CASE t \notin {r, n}
    BY <1>8, <2>3 DEF OnStack
  <2> QED
    BY <2>1, <2>2, <2>3
<1>12. ServiceInv'
  <2>1. <<r, m>> \in BeforeEoi(PIT_NUM)
        /\ \A j \in Sources \ {PIT_NUM} : <<r, m>> \notin BeforeEoi(j)
    BY <1>1, <1>2, TopBeforeEoi, Entries DEF Sources
  <2>2. /\ \A j \in Sources : j \in isr' <=> j \in isr /\ j # PIT_NUM
        /\ NMILINE \in isr' <=> NMILINE \in isr
    BY <1>1 DEF send_eoi, InService, Sources
  <2>3. ASSUME NEW j \in Sources PROVE Held(j)'
    <3>1. Held(j)
      BY <1>2 DEF ServiceInv
    <3>2. CASE j = PIT_NUM
      <4>1. BeforeEoi(j)' = {}
        BY <1>10, <2>1, <3>1, <3>2 DEF Held
      <4> QED
        BY <2>2, <3>2, <4>1 DEF Held
    <3>3. CASE j # PIT_NUM
      <4>1. BeforeEoi(j)' = BeforeEoi(j)
        <5>1. BeforeEoi(j)' = BeforeEoi(j) \ {<<r, m>>}
          BY <1>10
        <5>2. <<r, m>> \notin BeforeEoi(j)
          BY <2>1, <3>3
        <5> QED
          BY <5>1, <5>2
      <4> QED
        BY <2>2, <3>1, <3>3, <4>1 DEF Held
    <3> QED
      BY <3>2, <3>3
  <2> QED
    BY <1>2, <2>2, <2>3 DEF ServiceInv, Sources
<1>13. RegistersOK'
  BY <1>1, <1>2 DEF RegistersOK, send_eoi, clock
<1>14. TimerInv'
  <2>1. ASSUME NEW t \in Terminals \ {n}
        PROVE  HasProcess(t)' => frames'[t][Len(frames'[t])] = "resume"
    <3>1. CASE t = r
      BY <1>4, <1>8, <3>1
    <3>2. CASE t # r
      BY <1>2, <1>8, <2>1, <3>2 DEF TimerInv, HasProcess
    <3> QED
      BY <3>1, <3>2
  <2>2. PIT_NUM \notin imr'
    BY <1>1
  <2> QED
    BY <1>1, <2>1, <2>2 DEF TimerInv
<1>15. ClockInv'
  <2>1. Reading \in SUBSET HandlerPoints /\ {"ack"} \in SUBSET HandlerPoints
        /\ "pit" \notin Reading /\ "resume" \notin Reading
    BY DEF Reading, HandlerPoints
  <2>2. \A t \in Terminals : OnStack(t, Reading)' <=> OnStack(t, Reading)
    BY <1>11, <2>1
  <2>3. \A t \in Terminals : OnStack(t, {"ack"})' <=> OnStack(t, {"ack"})
    BY <1>11, <2>1
  <2>4. UNCHANGED <<irr, rtc_index, periodic, stolen>>
    BY <1>1 DEF clock
  <2> QED
    BY <1>2, <2>2, <2>3, <2>4 DEF ClockInv, RtcNotLost, Reading
<1>16. StacksOK'
  <2>1. ASSUME NEW t \in Terminals, OnStack(t, {"boot"})' PROVE t = 0
    <3>1. OnStack(t, {"boot"})
      <4>1. CASE t = r
        <5>1. PICK k \in DOMAIN new : new[k] = "boot"
          BY <1>8, <2>1, <4>1 DEF OnStack
        <5>2. k \in 1 .. m /\ k # m
          BY <1>4, <5>1
        <5>3. s[k] = "boot" /\ k \in DOMAIN s
          BY <1>3, <1>4, <5>1, <5>2
        <5> QED
          BY <4>1, <5>3 DEF OnStack
      <4>2. CASE t = n
        <5>1. frames'[t] = <<"user">>
          BY <1>8, <4>2
        <5>2. \A k \in DOMAIN frames'[t] : frames'[t][k] # "boot"
          BY <5>1
        <5> QED
          BY <2>1, <5>2 DEF OnStack
      <4>3. CASE t \notin {r, n}
        BY <1>8, <2>1, <4>3 DEF OnStack
      <4> QED
        BY <4>1, <4>2, <4>3
    <3> QED
      BY <1>2, <3>1 DEF StacksOK
  <2>2. \A t \in Terminals : Stack(frames'[t])
    BY <1>2, <1>5, <1>6, <1>8 DEF StacksOK
  <2>3. frames'[n] # <<>>
    BY <1>8
  <2> QED
    BY <1>1, <1>8, <2>1, <2>2, <2>3 DEF StacksOK, Stack
<1> QED
  BY <1>12, <1>13, <1>14, <1>15, <1>16 DEF IInv

\* No step of a handler, a program, a device or the controllers breaks it.
LEMMA NextIInv == IInv /\ [Next]_vars => IInv'
<1> SUFFICES ASSUME IInv, [Next]_vars PROVE IInv'
  OBVIOUS
<1>1. executing_terminal \in Terminals
  BY DEF IInv, StacksOK
<1>2. next_scheduled_terminal \in Terminals
  BY <1>1, TerminalsAssumption DEF next_scheduled_terminal, Terminals
<1>3. CASE PitNoSwitch \/ PitEnable \/ PitLaunch \/ PitSwitch \/ PitReturn
  BY <1>1, <1>2, <1>3, PitNoSwitchIInv, PitEnableIInv, PitLaunchIInv,
     PitSwitchIInv, PitReturnIInv
<1>4. CASE HandlerStep
  BY <1>1, <1>4, GetScancodeIInv, RtcEoiIInv, RtcSelectIInv, RtcAckIInv,
     RtcFlagsIInv DEF HandlerStep
<1>5. CASE Boot \/ RtcRead \/ RtcReadReturns
  BY <1>5, ProgramsKeepIInv
<1>6. CASE PitTick \/ Key \/ RtcTick \/ RtcWrite \/ UNCHANGED vars
  BY <1>6, DevicesKeepIInv
<1>7. ASSUME NEW i \in Sources, Accept(i) PROVE IInv'
  BY <1>1, <1>7, AcceptIInv
<1> QED
  BY <1>3, <1>4, <1>5, <1>6, <1>7 DEF Next, KernelStep

\* The registers and stacks keep their types, for any number of terminals and
\* stacks of any depth.
THEOREM TypeCorrect == Spec => []TypeOK
BY InitIInv, NextIInv, IInvHolds, PTL DEF Spec

\* send_eoi ends the service of its own interrupt and of no other, whatever
\* handlers are nested or taken off the CPU before they send it.
THEOREM ServiceCorrect == Spec => []ServiceHeld
BY InitIInv, NextIInv, IInvHolds, PTL DEF Spec

\* The timer is masked only between the mask and enable_irq of the running
\* thread; every other thread waits in context_switch.
THEOREM TimerCorrect == Spec => []TimerKept
BY InitIInv, NextIInv, IInvHolds, PTL DEF Spec

\* rtc_interrupt never leaves the clock's line high for ever, unless rtc_write
\* came between its two port accesses.
THEOREM ClockCorrect == Spec => []RtcNotLost
BY InitIInv, NextIInv, IInvHolds, PTL DEF Spec
=============================================================================
