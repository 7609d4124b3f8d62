---------------------------- MODULE AnswersProofs ----------------------------
(***************************************************************************)
(* Programs: what cat, ls, counter and grep have shown at their end is     *)
(* what Answers computes from the image alone; for any image, command      *)
(* lines, number of descriptors and size of the buffers.                   *)
(*                                                                         *)
(* ShowsAnswer is about the end of a program.  ShownInv says for each      *)
(* program what it has shown in the middle: cat and ls a copy up to the    *)
(* position of their descriptor, counter the numbers up to its own, and    *)
(* grep the lines found up to where its buffer begins, while the buffer    *)
(* holds what the file has from there to the position of the descriptor.   *)
(* For the last one it has to be known that every read leaves the buffer   *)
(* at the start of a line, and that a line is found in the buffer just     *)
(* when it is found in the file.                                           *)
(***************************************************************************)
EXTENDS ProgramsProofs
LOCAL INSTANCE FiniteSetsExt
LOCAL INSTANCE SequencesExt

USE DEF FIRST_REG_FILE, LAST_REG_FILE, UPPB

(***************************************************************************)
(* Sequences of sequences, put together.                                   *)
(***************************************************************************)
\* Induction for a set of naturals.
LEMMA AllNaturals ==
  ASSUME NEW S, 0 \in S, \A n \in Nat : n \in S => n + 1 \in S
  PROVE  \A n \in Nat : n \in S
<1> SUFFICES ASSUME NEW m \in Nat, m \notin S PROVE FALSE
  OBVIOUS
<1> DEFINE T == {n \in Nat : n \notin S}
<1>1. T \subseteq Nat /\ T # {}
  OBVIOUS
<1>2. PICK x \in T : \A y \in T : x <= y
  <2> HIDE DEF T
  <2> QED
    BY <1>1, LeastNatural
<1>3. x \in Nat /\ x # 0 /\ x \notin S
  BY <1>2
<1>4. x - 1 \in Nat /\ ~(x <= x - 1)
  BY <1>3
<1>5. x - 1 \in S
  BY <1>2, <1>4
<1> QED
  BY <1>3, <1>4, <1>5

\* Two sequences in a row: a name that hides what it is where that only
\* distracts.
Glue(x, y) == x \o y

\* What FlattenSeq computes on the way, up to the n-th sequence.
Flattens(sq, n, f) ==
  f = [i \in 1 .. n |-> IF i = 1 THEN sq[i] ELSE Glue(f[i - 1], sq[i])]

LEMMA FlattensExists ==
  ASSUME NEW sq, NEW n \in Nat PROVE \E f : Flattens(sq, n, f)
<1> DEFINE S == {k \in Nat : \E f : Flattens(sq, k, f)}
<1>1. 0 \in S
  <2>1. Flattens(sq, 0, [i \in 1 .. 0 |-> 0])
    BY DEF Flattens
  <2> QED
    BY <2>1
<1>2. ASSUME NEW k \in Nat, k \in S PROVE k + 1 \in S
  <2>1. PICK f : Flattens(sq, k, f)
    BY <1>2
  <2> DEFINE next == IF k = 0 THEN sq[1] ELSE Glue(f[k], sq[k + 1])
             g == [i \in 1 .. k + 1 |-> IF i = k + 1 THEN next ELSE f[i]]
  <2>2. ASSUME NEW i \in 1 .. k + 1
        PROVE  g[i] = IF i = 1 THEN sq[i] ELSE Glue(g[i - 1], sq[i])
    <3>1. CASE i = k + 1
      BY <3>1
    <3>2. CASE i # k + 1
      <4>1. i \in 1 .. k /\ g[i] = f[i] /\ (i # 1 => g[i - 1] = f[i - 1])
        BY <3>2
      <4>2. f[i] = IF i = 1 THEN sq[i] ELSE Glue(f[i - 1], sq[i])
        BY <2>1, <4>1 DEF Flattens
      <4> QED
        BY <4>1, <4>2
    <3> QED
      BY <3>1, <3>2
  <2>3. g = [i \in 1 .. k + 1 |-> g[i]]
    OBVIOUS
  <2> HIDE DEF g
  <2>4. Flattens(sq, k + 1, g)
    BY <2>2, <2>3 DEF Flattens
  <2> QED
    BY <2>4
<1> QED
  <2> HIDE DEF S
  <2>1. \A k \in Nat : k \in S
    BY <1>1, <1>2, AllNaturals
  <2> QED
    BY <2>1 DEF S

LEMMA FlattenIs ==
  ASSUME NEW sq, NEW n \in Nat, n # 0, Len(sq) = n
  PROVE  \E f : Flattens(sq, n, f) /\ FlattenSeq(sq) = f[n]
<1> DEFINE f == CHOOSE f : f = [i \in 1 .. Len(sq) |->
                     IF i = 1 THEN sq[i] ELSE Glue(f[i - 1], sq[i])]
<1>1. \E g : Flattens(sq, n, g)
  BY FlattensExists
<1>2. Flattens(sq, n, f)
  BY <1>1 DEF Flattens
<1>3. FlattenSeq(sq) = f[Len(sq)]
  <2>1. Len(sq) # 0
    OBVIOUS
  <2> QED
    BY <2>1, Zenon DEF FlattenSeq, Glue
<1> HIDE DEF f
<1>4. FlattenSeq(sq) = f[n]
  BY <1>3
<1> QED
  BY <1>2, <1>4

LEMMA FlattensAt ==
  ASSUME NEW sq, NEW n \in Nat, NEW f, Flattens(sq, n, f), NEW i \in 1 .. n
  PROVE  f[i] = IF i = 1 THEN sq[i] ELSE Glue(f[i - 1], sq[i])
BY DEF Flattens

LEMMA FlattensNext ==
  ASSUME NEW sq, NEW n \in Nat, NEW f, Flattens(sq, n, f),
         NEW i \in 1 .. n - 1
  PROVE  f[i + 1] = Glue(f[i], sq[i + 1])
<1>1. i + 1 \in 1 .. n /\ i + 1 # 1 /\ i + 1 - 1 = i
  OBVIOUS
<1>2. f[i + 1] = IF i + 1 = 1 THEN sq[i + 1] ELSE Glue(f[i + 1 - 1], sq[i + 1])
  BY <1>1, FlattensAt
<1> QED
  BY <1>1, <1>2

LEMMA FlattensSame ==
  ASSUME NEW sq, NEW tq, NEW n \in Nat, NEW f, NEW g, NEW m \in Nat, m <= n,
         Flattens(sq, n, f), Flattens(tq, m, g),
         \A i \in 1 .. m : sq[i] = tq[i]
  PROVE  \A i \in 1 .. m : f[i] = g[i]
<1> DEFINE S == {k \in Nat : k + 1 \in 1 .. m => f[k + 1] = g[k + 1]}
<1>2. 0 \in S
  <2> SUFFICES ASSUME 1 \in 1 .. m PROVE f[1] = g[1]
    OBVIOUS
  <2>1. 1 \in 1 .. n
    OBVIOUS
  <2>2. f[1] = sq[1] /\ g[1] = tq[1]
    BY <2>1, FlattensAt
  <2> QED
    BY <2>2
<1>3. ASSUME NEW k \in Nat, k \in S PROVE k + 1 \in S
  <2> SUFFICES ASSUME k + 2 \in 1 .. m PROVE f[k + 2] = g[k + 2]
    OBVIOUS
  <2> DEFINE j == k + 1
  <2>1. j \in 1 .. n - 1 /\ j \in 1 .. m - 1 /\ j + 1 = k + 2
        /\ j \in 1 .. m /\ j + 1 \in 1 .. m
    OBVIOUS
  <2>2. f[j] = g[j]
    BY <1>3, <2>1
  <2>3. sq[j + 1] = tq[j + 1]
    BY <2>1
  <2> HIDE DEF j
  <2>4. /\ f[j + 1] = Glue(f[j], sq[j + 1])
        /\ g[j + 1] = Glue(g[j], tq[j + 1])
    BY <2>1, FlattensNext
  <2> QED
    BY <2>1, <2>2, <2>3, <2>4
<1>4. \A k \in Nat : k \in S
  <2> HIDE DEF S
  <2> QED
    BY <1>2, <1>3, AllNaturals
<1> SUFFICES ASSUME NEW i \in 1 .. m PROVE f[i] = g[i]
  OBVIOUS
<1>5. i - 1 \in Nat /\ i - 1 + 1 = i
  OBVIOUS
<1> QED
  BY <1>4, <1>5

LEMMA FlattenNothing == FlattenSeq(<<>>) = <<>>
BY DEF FlattenSeq

LEMMA FlattenOne ==
  ASSUME NEW sq, Len(sq) = 1 PROVE FlattenSeq(sq) = sq[1]
<1>1. 1 \in Nat /\ 1 # 0
  OBVIOUS
<1>2. PICK f : Flattens(sq, 1, f) /\ FlattenSeq(sq) = f[1]
  BY <1>1, FlattenIs
<1> QED
  BY <1>2, FlattensAt

LEMMA FlattensLast ==
  ASSUME NEW sq, NEW tq, NEW n \in Nat, n # 0, NEW f, NEW g,
         Flattens(sq, n, f), Flattens(tq, n + 1, g),
         \A i \in 1 .. n : tq[i] = sq[i]
  PROVE  g[n + 1] = Glue(f[n], tq[n + 1])
<1>1. n + 1 \in Nat /\ n <= n + 1 /\ n \in 1 .. n /\ n \in 1 .. n + 1 - 1
  OBVIOUS
<1>2. g[n + 1] = Glue(g[n], tq[n + 1])
  BY <1>1, FlattensNext
<1>3. \A i \in 1 .. n : g[i] = f[i]
  BY <1>1, FlattensSame
<1> QED
  BY <1>1, <1>2, <1>3

LEMMA FlattenLast ==
  ASSUME NEW sq, NEW tq, NEW n \in Nat, n # 0, Len(sq) = n, Len(tq) = n + 1,
         \A i \in 1 .. n : tq[i] = sq[i]
  PROVE  FlattenSeq(tq) = Glue(FlattenSeq(sq), tq[n + 1])
<1>1. PICK f : Flattens(sq, n, f) /\ FlattenSeq(sq) = f[n]
  BY FlattenIs
<1>2. PICK g : Flattens(tq, n + 1, g) /\ FlattenSeq(tq) = g[n + 1]
  <2>1. n + 1 \in Nat /\ n + 1 # 0
    OBVIOUS
  <2> QED
    BY <2>1, FlattenIs
<1>3. g[n + 1] = Glue(f[n], tq[n + 1])
  BY <1>1, <1>2, FlattensLast
<1> QED
  BY <1>1, <1>2, <1>3

\* The first n pieces of f together.
FirstOf(f, n) == FlattenSeq([i \in 1 .. n |-> f[i]])

LEMMA LengthIs ==
  ASSUME NEW f, NEW n \in Nat
  PROVE  Len([i \in 1 .. n |-> f[i]]) = n
OBVIOUS

LEMMA FirstNone == ASSUME NEW f PROVE FirstOf(f, 0) = <<>>
<1>1. [i \in 1 .. 0 |-> f[i]] = <<>>
  OBVIOUS
<1> QED
  BY <1>1, FlattenNothing DEF FirstOf

LEMMA FirstGlued ==
  ASSUME NEW f, NEW n \in Nat, n # 0
  PROVE  FirstOf(f, n + 1) = Glue(FirstOf(f, n), f[n + 1])
<1> SUFFICES ASSUME NEW sq, sq = [i \in 1 .. n |-> f[i]],
                    NEW tq, tq = [i \in 1 .. n + 1 |-> f[i]]
             PROVE  FlattenSeq(tq) = Glue(FlattenSeq(sq), f[n + 1])
  BY DEF FirstOf
<1>1. Len(sq) = n /\ Len(tq) = n + 1
  BY LengthIs
<1>2. (\A i \in 1 .. n : tq[i] = sq[i]) /\ tq[n + 1] = f[n + 1]
  OBVIOUS
<1> QED
  BY <1>1, <1>2, FlattenLast

LEMMA FirstAlone == ASSUME NEW f PROVE FirstOf(f, 1) = f[1]
<1> SUFFICES ASSUME NEW sq, sq = [i \in 1 .. 1 |-> f[i]]
             PROVE  FlattenSeq(sq) = f[1]
  BY DEF FirstOf
<1>1. Len(sq) = 1
  BY LengthIs
<1>2. sq[1] = f[1]
  OBVIOUS
<1> QED
  BY <1>1, <1>2, FlattenOne

\* One piece more, and what the pieces make.
LEMMA FirstNext ==
  ASSUME NEW A, NEW f, NEW n \in Nat, FirstOf(f, n) \in Seq(A),
         f[n + 1] \in Seq(A)
  PROVE  /\ FirstOf(f, n + 1) = FirstOf(f, n) \o f[n + 1]
         /\ FirstOf(f, n + 1) \in Seq(A)
<1>1. CASE n = 0
  <2>1. FirstOf(f, n) = <<>> /\ FirstOf(f, n + 1) = f[n + 1]
    BY <1>1, FirstNone, FirstAlone
  <2>2. <<>> \o f[n + 1] = f[n + 1]
    OBVIOUS
  <2> QED
    BY <2>1, <2>2
<1>2. CASE n # 0
  <2>1. FirstOf(f, n + 1) = FirstOf(f, n) \o f[n + 1]
    BY <1>2, FirstGlued DEF Glue
  <2>2. FirstOf(f, n) \o f[n + 1] \in Seq(A)
    OBVIOUS
  <2> QED
    BY <2>1, <2>2
<1> QED
  BY <1>1, <1>2

LEMMA FirstType ==
  ASSUME NEW A, NEW f, NEW n \in Nat, \A i \in 1 .. n : f[i] \in Seq(A)
  PROVE  FirstOf(f, n) \in Seq(A)
<1> DEFINE S == {k \in Nat : k <= n => FirstOf(f, k) \in Seq(A)}
<1>1. 0 \in S
  <2>1. <<>> \in Seq(A)
    OBVIOUS
  <2> QED
    BY <2>1, FirstNone
<1>2. ASSUME NEW k \in Nat, k \in S PROVE k + 1 \in S
  <2>1. CASE k + 1 <= n
    <3>1. FirstOf(f, k) \in Seq(A) /\ f[k + 1] \in Seq(A)
      BY <1>2, <2>1
    <3>2. FirstOf(f, k + 1) \in Seq(A)
      BY <3>1, FirstNext
    <3> QED
      BY <3>2
  <2> QED
    BY <2>1
<1>3. n \in S
  <2> HIDE DEF S
  <2> QED
    BY <1>1, <1>2, AllNaturals
<1> QED
  BY <1>3

\* A sequence of pieces is all of them together.
LEMMA FirstAll ==
  ASSUME NEW f, NEW n \in Nat, f = [i \in 1 .. n |-> f[i]]
  PROVE  FlattenSeq(f) = FirstOf(f, n)
BY DEF FirstOf

LEMMA FirstSame ==
  ASSUME NEW f, NEW g, NEW n \in Nat, \A i \in 1 .. n : f[i] = g[i]
  PROVE  FirstOf(f, n) = FirstOf(g, n)
<1>1. [i \in 1 .. n |-> f[i]] = [i \in 1 .. n |-> g[i]]
  OBVIOUS
<1> QED
  BY <1>1 DEF FirstOf

LEMMA Associative ==
  ASSUME NEW A, NEW x \in Seq(A), NEW y \in Seq(A), NEW z \in Seq(A)
  PROVE  (x \o y) \o z = x \o (y \o z)
OBVIOUS

Parts(A, f, n) == \A i \in 1 .. n : f[i] \in Seq(A)
Blank(f, m, n) == \A i \in m .. n : f[i] = <<>>

\* Pieces from m on are put behind those before.
Follows(g, n, f, m, q) ==
  q = m + n /\ \A i \in 1 .. n : g[i] = f[m + i]
LEMMA FirstSplit ==
  ASSUME NEW A, NEW f, NEW g, NEW m \in Nat, NEW n \in Nat,
         NEW q \in Nat, Parts(A, f, q), Follows(g, n, f, m, q)
  PROVE  FirstOf(f, q) = Glue(FirstOf(f, m), FirstOf(g, n))
<1> DEFINE S == {k \in Nat : k <= n =>
                   FirstOf(f, m + k) = FirstOf(f, m) \o FirstOf(g, k)}
<1>. q = m + n
  BY DEF Follows
<1>0. FirstOf(f, m) \in Seq(A)
  BY FirstType DEF Parts
<1>1. 0 \in S
  <2>1. FirstOf(f, m) \o <<>> = FirstOf(f, m)
    BY <1>0
  <2>2. m + 0 = m
    OBVIOUS
  <2> QED
    BY <2>1, <2>2, FirstNone
<1>2. ASSUME NEW k \in Nat, k \in S PROVE k + 1 \in S
  <2>1. CASE k + 1 <= n
    <3>1. /\ FirstOf(f, m + k) = FirstOf(f, m) \o FirstOf(g, k)
          /\ f[m + k + 1] \in Seq(A) /\ g[k + 1] = f[m + k + 1]
          /\ m + k \in Nat
      BY <1>2, <2>1 DEF Parts, Follows
    <3>2. FirstOf(f, m + k) \in Seq(A)
      <4>1. \A i \in 1 .. m + k : f[i] \in Seq(A)
        BY <2>1 DEF Parts
      <4> QED
        BY <3>1, <4>1, FirstType
    <3>3. FirstOf(g, k) \in Seq(A)
      <4>1. \A i \in 1 .. k : g[i] \in Seq(A)
        <5> SUFFICES ASSUME NEW i \in 1 .. k PROVE g[i] \in Seq(A)
          OBVIOUS
        <5>1. i \in 1 .. n /\ m + i \in 1 .. m + n
          BY <2>1
        <5> QED
          BY <5>1 DEF Parts, Follows
      <4> QED
        BY <4>1, FirstType
    <3>4. FirstOf(f, m + k + 1) = FirstOf(f, m + k) \o f[m + k + 1]
      BY <3>1, <3>2, FirstNext
    <3>5. FirstOf(g, k + 1) = FirstOf(g, k) \o f[m + k + 1]
      BY <3>1, <3>3, FirstNext
    <3>6. (FirstOf(f, m) \o FirstOf(g, k)) \o f[m + k + 1]
          = FirstOf(f, m) \o (FirstOf(g, k) \o f[m + k + 1])
      <4> DEFINE x == FirstOf(f, m)
                 y == FirstOf(g, k)
                 z == f[m + k + 1]
      <4>1. x \in Seq(A) /\ y \in Seq(A) /\ z \in Seq(A)
        BY <1>0, <3>1, <3>3
      <4> HIDE DEF x, y, z
      <4>2. (x \o y) \o z = x \o (y \o z)
        BY <4>1, Associative
      <4> QED
        BY <4>2 DEF x, y, z
    <3>7. FirstOf(f, m + k + 1) = FirstOf(f, m) \o FirstOf(g, k + 1)
      BY <3>1, <3>4, <3>5, <3>6
    <3>8. m + (k + 1) = m + k + 1
      OBVIOUS
    <3> QED
      BY <3>7, <3>8
  <2> QED
    BY <2>1
<1>3. n \in S
  <2> HIDE DEF S
  <2> QED
    BY <1>1, <1>2, AllNaturals
<1>4. FirstOf(f, m + n) = FirstOf(f, m) \o FirstOf(g, n)
  BY <1>3
<1> QED
  BY <1>4, Zenon DEF Glue

\* Empty pieces at the end add nothing.
LEMMA FirstRest ==
  ASSUME NEW A, NEW f, NEW m \in Nat, NEW n \in Nat, m <= n,
         Parts(A, f, m), Blank(f, m + 1, n)
  PROVE  FirstOf(f, n) = FirstOf(f, m)
<1> DEFINE S == {k \in Nat : m + k <= n => FirstOf(f, m + k) = FirstOf(f, m)}
<1>0. FirstOf(f, m) \in Seq(A)
  BY FirstType DEF Parts
<1>1. 0 \in S
  OBVIOUS
<1>2. ASSUME NEW k \in Nat, k \in S PROVE k + 1 \in S
  <2>1. CASE m + k + 1 <= n
    <3>1. FirstOf(f, m + k) = FirstOf(f, m) /\ f[m + k + 1] = <<>>
          /\ m + k \in Nat
      BY <1>2, <2>1 DEF Blank
    <3>2. <<>> \in Seq(A) /\ FirstOf(f, m) \o <<>> = FirstOf(f, m)
      BY <1>0
    <3>3. FirstOf(f, m + k + 1) = FirstOf(f, m)
      BY <1>0, <3>1, <3>2, FirstNext
    <3>4. m + (k + 1) = m + k + 1
      OBVIOUS
    <3> QED
      BY <3>3, <3>4
  <2> QED
    BY <2>1
<1>3. n - m \in S
  <2> HIDE DEF S
  <2> QED
    BY <1>1, <1>2, AllNaturals
<1> QED
  BY <1>3

\* Pieces that are empty but for one.
LEMMA OneMore ==
  ASSUME NEW A, NEW f, NEW n \in Nat, NEW q \in Nat, n < q, Parts(A, f, q),
         Blank(f, n + 2, q)
  PROVE  FirstOf(f, q) = FirstOf(f, n) \o f[n + 1]
<1>0. n + 1 \in Nat /\ n + 1 \in 1 .. q /\ n + 1 <= q
  OBVIOUS
<1>1. f[n + 1] \in Seq(A) /\ n + 1 \in Nat /\ n + 1 <= q
  BY <1>0 DEF Parts
<1>2. Parts(A, f, n) /\ Parts(A, f, n + 1)
  BY <1>1 DEF Parts
<1>3. FirstOf(f, n) \in Seq(A)
  BY <1>2, FirstType DEF Parts
<1>4. FirstOf(f, n + 1) = FirstOf(f, n) \o f[n + 1]
  BY <1>1, <1>3, FirstNext
<1>5. Blank(f, n + 1 + 1, q)
  BY DEF Blank
<1>6. FirstOf(f, q) = FirstOf(f, n + 1)
  BY <1>1, <1>2, <1>5, FirstRest
<1> QED
  BY <1>4, <1>6

LEMMA PartType ==
  ASSUME NEW A, NEW t \in Seq(A), NEW p \in Nat \ {0}, NEW q \in 0 .. Len(t)
  PROVE  /\ SubSeq(t, p, q) \in Seq(A)
         /\ Len(SubSeq(t, p, q)) = IF p <= q THEN q + 1 - p ELSE 0
         /\ \A k \in 1 .. q + 1 - p : SubSeq(t, p, q)[k] = t[p + k - 1]
<1>1. \A k \in p .. q : t[k] \in A
  OBVIOUS
<1>2. SubSeq(t, p, q) \in Seq(A)
  BY <1>1
<1>3. Len(SubSeq(t, p, q)) = IF p <= q THEN q + 1 - p ELSE 0
  OBVIOUS
<1>4. \A k \in 1 .. q + 1 - p : SubSeq(t, p, q)[k] = t[p + k - 1]
  OBVIOUS
<1> QED
  BY <1>2, <1>3, <1>4

LEMMA SameSequence ==
  ASSUME NEW A, NEW x \in Seq(A), NEW y \in Seq(A), Len(x) = Len(y),
         \A k \in 1 .. Len(x) : x[k] = y[k]
  PROVE  x = y
OBVIOUS

LEMMA InARow ==
  ASSUME NEW A, NEW x \in Seq(A), NEW y \in Seq(A)
  PROVE  /\ x \o y \in Seq(A) /\ Len(x \o y) = Len(x) + Len(y)
         /\ \A k \in 1 .. Len(x) : (x \o y)[k] = x[k]
         /\ \A k \in 1 .. Len(y) : (x \o y)[Len(x) + k] = y[k]
<1>1. \A k \in 1 .. Len(x) : (x \o y)[k] = x[k]
  OBVIOUS
<1>2. ASSUME NEW k \in 1 .. Len(y) PROVE (x \o y)[Len(x) + k] = y[k]
  <2>1. Len(x) + k \in 1 .. Len(x) + Len(y) /\ ~(Len(x) + k <= Len(x))
        /\ Len(x) + k - Len(x) = k
    OBVIOUS
  <2> QED
    BY <2>1
<1> QED
  BY <1>1, <1>2

\* Two parts of a sequence that meet.
LEMMA PartsMeet ==
  ASSUME NEW A, NEW t \in Seq(A), NEW p \in 0 .. Len(t), NEW q \in p .. Len(t)
  PROVE  SubSeq(t, 1, p) \o SubSeq(t, p + 1, q) = SubSeq(t, 1, q)
<1> DEFINE x == SubSeq(t, 1, p)
           y == SubSeq(t, p + 1, q)
           z == SubSeq(t, 1, q)
<1>1. x \in Seq(A) /\ Len(x) = p /\ \A k \in 1 .. p : x[k] = t[k]
  BY PartType
<1>2. /\ y \in Seq(A) /\ Len(y) = q - p
      /\ \A k \in 1 .. q - p : y[k] = t[p + k]
  OBVIOUS
<1>3. z \in Seq(A) /\ Len(z) = q /\ \A k \in 1 .. q : z[k] = t[k]
  OBVIOUS
<1> HIDE DEF x, y, z
<1>4. /\ x \o y \in Seq(A) /\ Len(x \o y) = Len(x) + Len(y)
      /\ \A k \in 1 .. Len(x) : (x \o y)[k] = x[k]
      /\ \A k \in 1 .. Len(y) : (x \o y)[Len(x) + k] = y[k]
  <2>1. x \in Seq(A) /\ y \in Seq(A)
    BY <1>1, <1>2
  <2> QED
    BY <2>1, InARow
<1>5. Len(x \o y) = q
  BY <1>1, <1>2, <1>4
<1>6. ASSUME NEW k \in 1 .. q PROVE (x \o y)[k] = z[k]
  <2>1. CASE k <= p
    <3>1. k \in 1 .. p /\ k \in 1 .. Len(x)
      BY <1>1, <2>1
    <3>2. (x \o y)[k] = x[k]
      BY <1>4, <3>1
    <3>3. x[k] = t[k] /\ z[k] = t[k]
      BY <1>1, <1>3, <3>1
    <3> QED
      BY <3>2, <3>3
  <2>2. CASE ~(k <= p)
    <3>1. k - p \in 1 .. q - p /\ p + (k - p) = k
      BY <2>2
    <3>2. (x \o y)[k] = y[k - p]
      BY <1>1, <1>2, <1>4, <3>1
    <3> QED
      BY <1>2, <1>3, <3>1, <3>2
  <2> QED
    BY <2>1, <2>2
<1> QED
  BY <1>3, <1>4, <1>5, <1>6, SameSequence DEF x, y, z

\* Sequences of characters, as the theorems about lines see them.
Text(t) == t \in Seq(STRING)

OneLine(w) == \A k \in 1 .. Len(w) : w[k] # EndOfLine

(***************************************************************************)
(* What the programs have shown.                                           *)
(***************************************************************************)
\* A program begins with nothing shown, nothing open and no locals.
StartInv == (sh = "ready" => shown = <<>>) /\ (prog = "none" => loc = NoLocals)
Begun == shown = <<>> /\ NoneOpen(Child) /\ loc = NoLocals

\* The descriptor fd is open for the i-th entry of the directory, of whose
\* file so much can be read.
Reads(fd, i) ==
  /\ fd \in Regular /\ f_desc[Child][fd].flag = 0
  /\ f_desc[Child][fd].ops = direntries[i].filetype
  /\ direntries[i].filetype = "file" =>
       f_desc[Child][fd].inode = direntries[i].inode_num
Position(fd) == f_desc[Child][fd].file_position
SizeOf(i) == CASE direntries[i].filetype = "file" ->
                    Len(Texts[direntries[i].inode_num])
               [] direntries[i].filetype = "dir" -> Len(direntries)
               [] direntries[i].filetype = "rtc" -> 0

\* cat and ls have shown what they read, with tail after each piece.
Listed(tail) == [i \in DOMAIN direntries |-> ListedName(i) \o tail]
Copied(tail, i, p) ==
  CASE direntries[i].filetype = "file" ->
         SubSeq(Texts[direntries[i].inode_num], 1, p)
    [] direntries[i].filetype = "dir" -> FirstOf(Listed(tail), p)
    [] direntries[i].filetype = "rtc" -> <<>>
CopiesWith(name, tail) ==
  LET i == Named(name) IN
  pc \in {"read", "write"} =>
    /\ EntriesFor(name) # {}
    /\ Reads(loc.fd, i) /\ Position(loc.fd) \in 0 .. SizeOf(i)
    /\ IF pc = "read" THEN shown = Copied(tail, i, Position(loc.fd))
       ELSE shown \o (ret.bytes \o tail) = Copied(tail, i, Position(loc.fd))
CatInv ==
  prog = "cat" =>
    /\ CopiesWith(sys_getargs(BUFSIZE).bytes, <<>>)
    /\ pc \in {"read", "write"} => sys_getargs(BUFSIZE).code = 0
    /\ pc = "start" => Begun
    /\ pc = "exit" => ShowsAnswer
LsInv ==
  prog = "ls" =>
    /\ CopiesWith(<<".">>, <<NEWLINE>>)
    /\ pc = "start" => Begun
    /\ pc = "exit" => ShowsAnswer

\* Between two writes of counter and grep.
EndsLine(t) == t = <<>> \/ t[Len(t)] = EndOfLine

Numbers(n) == [k \in 1 .. n |-> itoa(k, 10)]
Counted ==
  /\ loc \in [i : Nat, max : Nat] /\ loc.i <= loc.max
  /\ Text(shown) /\ EndsLine(shown) /\ LinesOf(shown) = Numbers(loc.i)
CounterInv ==
  prog = "counter" =>
    /\ pc = "start" => Begun
    /\ pc = "count" => Counted
    /\ pc = "exit" => loc = NoLocals \/ (Counted /\ loc.i = loc.max)

\* grep: the lines found in the first p characters of t, all of them after
\* the name of the file, and what all entries up to the n-th give.
Pieces(s, t) == [p \in DOMAIN t |->
                   IF p \in LineStarts(t) /\ HasIn(s, LineAt(t, p))
                     THEN <<LineAt(t, p)>> ELSE <<>>]
Marked(name, w) == name \o <<":">> \o w
Mapped(name, lines) == [k \in DOMAIN lines |-> Marked(name, lines[k])]
Entries(s) ==
  [i \in DOMAIN direntries |->
    IF i \in TextFiles
      THEN Mapped(ListedName(i), LinesWith(s, Texts[direntries[i].inode_num]))
    ELSE <<>>]
Shows(lines) == FromTexts(LinesOf(shown)) = lines

\* A line begins behind the first c characters of t, or none is left, or
\* only an empty one.
Between(t, c) ==
  c = 0 \/ c = Len(t) \/ t[c] = EndOfLine \/ t[c + 1] = EndOfLine

\* The buffer has last characters of the text of an entry, those up to p, and
\* of what is before them all lines with s are among lines.
FileText(i) == Texts[direntries[i].inode_num]
Searched(s, i, data, last, p, lines) ==
  LET t == FileText(i)
      c == p - last
  IN
  /\ c \in 0 .. Len(t) /\ Between(t, c)
  /\ \A k \in 0 .. last - 1 : data[k] = t[c + k + 1]
  /\ data[BUFSIZE] = NUL
  /\ lines = Glue(FirstOf(Entries(s), i - 1),
                  Mapped(ListedName(i), FirstOf(Pieces(s, t), c)))

OnlyOpen(fds) == \A fd \in Regular \ fds : f_desc[Child][fd].flag = 1
GrepState ==
  LET s == sys_getargs(BUFSIZE).bytes
      i == Position(loc.fd)
  IN
    /\ sys_getargs(BUFSIZE).code = 0
    /\ shown \in Seq(STRING) /\ EndsLine(shown)
    /\ i \in 0 .. Len(direntries)
    /\ pc = "read" => OnlyOpen({loc.fd}) /\ Shows(FirstOf(Entries(s), i))
    /\ pc # "read" => i # 0
    /\ pc = "open" => /\ OnlyOpen({loc.fd}) /\ ret.bytes = ListedName(i)
                      /\ ret.bytes[1] # "."
                      /\ Shows(FirstOf(Entries(s), i - 1))
    /\ pc \in {"fill", "close"} =>
         OnlyOpen({loc.fd, loc.file}) /\ Reads(loc.file, i)
    /\ pc = "fill" =>
         /\ loc.name = ListedName(i) /\ loc.last < BUFSIZE
         /\ loc.data \in [0 .. BUFSIZE -> STRING]
         /\ IF i \in TextFiles
              THEN Searched(s, i, loc.data, loc.last, Position(loc.file),
                            FromTexts(LinesOf(shown)))
            ELSE Shows(FirstOf(Entries(s), i - 1))
    /\ pc = "close" => Shows(FirstOf(Entries(s), i))
GrepShown ==
  prog = "grep" =>
    /\ pc = "start" => Begun
    /\ pc \in {"read", "open", "fill", "close"} /\ ~loc.dirty => GrepState
    /\ pc = "exit" => ShowsAnswer

LEMMA InitStart == LaunchInit => StartInv
BY DEF LaunchInit, StartInv

LEMMA LaunchBegins ==
  ASSUME SInv, StartInv, ShellNext \/ ChildHalts
  PROVE  StartInv' /\ (prog' = "none" \/ (pc' = "start" /\ Begun'))
<1>1. CASE Boot \/ ShellExit \/ ShellSkip \/ ShellReport
  <2>1. /\ sh' = "prompt" /\ prog' = prog /\ loc' = loc /\ sh # "wait"
    BY <1>1 DEF Boot, ShellExit, ShellSkip, ShellReport, child
  <2> QED
    BY <2>1 DEF StartInv, SInv, ShellInv
<1>2. CASE ShellRead
  <2>1. sh = "prompt" /\ prog' = prog /\ shown' = <<>> /\ loc' = loc
    BY <1>2 DEF ShellRead
  <2> QED
    BY <2>1 DEF StartInv, SInv, ShellInv
<1>3. CASE ShellExecute
  <2>1. sh = "ready" /\ shown = <<>> /\ prog = "none" /\ loc = NoLocals
        /\ IInv /\ Child \in Slots
    BY <1>3, LaunchAssumption DEF ShellExecute, StartInv, SInv, ShellInv
  <2>2. Refused \/ \E i : Launched(i)
    BY <1>3 DEF ShellExecute, sys_execute
  <2>3. CASE Refused
    BY <2>1, <2>3 DEF Refused, StartInv
  <2>4. CASE \E i : Launched(i)
    <3>1. /\ sh' = "wait" /\ pc' = "start" /\ shown' = shown /\ loc' = loc
          /\ f_desc' = [f_desc EXCEPT ![Child] = Fresh(f_desc[Child])]
      BY <2>4 DEF Launched, Execute
    <3>2. f_desc'[Child] = Fresh(f_desc[Child])
      BY <2>1, <3>1 DEF IInv
    <3>3. AllFree(f_desc'[Child])
      BY <3>2, DescriptorAssumption DEF AllFree, Fresh, Cleared, Regular
    <3> QED
      BY <2>1, <3>1, <3>3 DEF StartInv, Begun, NoneOpen, AllFree
  <2> QED
    BY <2>2, <2>3, <2>4
<1>4. CASE ChildHalts
  BY <1>4 DEF ChildHalts, StartInv
<1> QED
  BY <1>1, <1>2, <1>3, <1>4 DEF ShellNext

LEMMA ProgramStarted ==
  ASSUME SInv, Running, UNCHANGED <<kernel, shell, prog>> PROVE StartInv'
BY RunningFacts DEF StartInv, Running, shell

(***************************************************************************)
(* cat and ls show what they read.                                         *)
(***************************************************************************)
\* What open gives to read from.
LEMMA OpenForReading ==
  ASSUME IInv, NEW name, Open(Child, name), ret'.code # -1
  PROVE  \E fd \in FreeFds(Child) :
           /\ ret'.code = fd /\ Sets(Child, fd, 0)
           /\ EntriesFor(name) # {} /\ Named(name) \in EntriesFor(name)
           /\ Reads(fd, Named(name))' /\ Position(fd)' = 0
<1>1. Child \in Slots /\ Child \in live /\ live' = live
  BY LaunchAssumption DEF Open
<1>2. EntriesFor(name) # {} /\ FreeFds(Child) # {}
  BY DEF Open, Failed
<1>3. PICK i \in EntriesFor(name), fd \in FreeFds(Child) :
        /\ \A j \in EntriesFor(name) : i <= j
        /\ f_desc' = [f_desc EXCEPT ![Child][fd] =
                        Opened(Child, fd, direntries[i])]
        /\ ret' = Code(fd)
  BY <1>2 DEF Open
<1>4. i \in 1 .. Len(direntries) /\ fd \in Regular
  BY DEF EntriesFor, FreeFds
<1> DEFINE d == Opened(Child, fd, direntries[i])
<1>5. d \in Descriptor
  BY <1>4, OpenedIsGood
<1>6. /\ d.flag = 0 /\ d.ops = direntries[i].filetype /\ d.file_position = 0
      /\ direntries[i].filetype = "file" => d.inode = direntries[i].inode_num
  BY DEF Opened, StartPosition
<1> HIDE DEF d
<1>7. ret'.code = fd
  BY <1>3 DEF Code
<1>8. Sets(Child, fd, d.flag) /\ f_desc'[Child][fd] = d
  BY <1>1, <1>3, <1>4, <1>5, ReplacedSets DEF d
<1>9. Named(name) = i
  <2> DEFINE S == EntriesFor(name)
  <2>1. S \subseteq Nat /\ S # {}
    BY <1>2 DEF EntriesFor
  <2> HIDE DEF S
  <2>2. Min(S) \in S /\ \A y \in S : Min(S) <= y
    BY <2>1, MinIsLeast
  <2>3. i \in S /\ \A j \in S : i <= j
    BY <1>3 DEF S
  <2>4. Min(S) \in Nat /\ i \in Nat /\ Min(S) <= i /\ i <= Min(S)
    BY <2>1, <2>2, <2>3
  <2>5. Min(S) = i
    BY <2>4
  <2> QED
    BY <2>5 DEF Named, S
<1> QED
  BY <1>2, <1>3, <1>4, <1>6, <1>7, <1>8, <1>9 DEF Reads, Position

\* A read moves the position of its descriptor and nothing else.
LEMMA AdvancedOnly ==
  ASSUME IInv, Child \in live, NEW fd \in Regular, NEW k, Advance(Child, fd, k)
  PROVE  /\ Position(fd)' = Position(fd) + k
         /\ f_desc'[Child][fd].flag = f_desc[Child][fd].flag
         /\ f_desc'[Child][fd].ops = f_desc[Child][fd].ops
         /\ f_desc'[Child][fd].inode = f_desc[Child][fd].inode
         /\ \A d \in 0 .. UPPB : d # fd => f_desc'[Child][d] = f_desc[Child][d]
<1>1. Child \in Slots /\ f_desc[Child] \in Rows /\ DOMAIN f_desc = Slots
  BY DEF IInv
<1>2. fd \in 0 .. UPPB /\ DOMAIN f_desc[Child] = 0 .. UPPB
      /\ f_desc[Child][fd] \in Descriptor
  BY <1>1, DescriptorAssumption DEF Regular, Rows
<1> DEFINE d == f_desc[Child][fd]
           e == [d EXCEPT !.file_position = @ + k]
<1>3. f_desc' = [f_desc EXCEPT ![Child] = [f_desc[Child] EXCEPT ![fd] = e]]
  BY DEF Advance
<1>4. /\ e.flag = d.flag /\ e.ops = d.ops /\ e.inode = d.inode
      /\ e.file_position = d.file_position + k
  BY <1>2 DEF Descriptor
<1> HIDE DEF e
<1>5. f_desc'[Child] = [f_desc[Child] EXCEPT ![fd] = e]
  BY <1>1, <1>3
<1>6. f_desc'[Child][fd] = e
      /\ \A c \in 0 .. UPPB : c # fd => f_desc'[Child][c] = f_desc[Child][c]
  BY <1>2, <1>5
<1> QED
  BY <1>4, <1>6 DEF Position

\* The descriptors that are not read stay as they are.
Only(fd) == \A d \in 0 .. UPPB : d # fd => f_desc'[Child][d] = f_desc[Child][d]

\* A read of an open file gives what comes next in its text.
LEMMA TextRead ==
  ASSUME IInv, NEW fd, NEW i \in 1 .. Len(direntries), Reads(fd, i),
         direntries[i].filetype = "file",
         NEW size \in Nat \ {0}, size < WORD, Read(Child, fd, size, FALSE),
         NEW t, t = Texts[direntries[i].inode_num],
         NEW p, p = Position(fd)
  PROVE  /\ t \in Seq(STRING) /\ p \in 0 .. Len(t)
         /\ \E k \in Nat :
              /\ k = Least(size, Len(t) - p) /\ ret'.code = k
              /\ k # 0 => ret'.bytes = SubSeq(t, p + 1, p + k)
              /\ Reads(fd, i)' /\ Position(fd)' = p + k
         /\ Only(fd)
<1> DEFINE n == direntries[i].inode_num
<1>1. /\ Child \in Slots /\ Child \in live /\ live' = live /\ fd \in Regular
      /\ f_desc[Child][fd].flag = 0 /\ f_desc[Child][fd].ops = "file"
      /\ f_desc[Child][fd].inode = n
  BY LaunchAssumption DEF Read, Reads
<1>2. /\ n \in Inodes /\ t \in Seq(STRING) /\ Len(t) \in Nat
      /\ inode[n].length = Len(t) /\ Len(t) < WORD
  BY DirectoryAssumption, ImageAssumption DEF Inodes
<1>3. p \in 0 .. Len(t)
  <2>1. Usable(f_desc[Child])
    BY <1>1 DEF IInv
  <2>2. InFile(f_desc[Child][fd])
    BY <1>1, <2>1, DescriptorAssumption DEF Usable, Regular
  <2>3. f_desc[Child][fd] \in Descriptor
    BY <1>1, DescriptorAssumption DEF IInv, Rows, Regular
  <2> QED
    BY <1>1, <1>2, <2>2, <2>3 DEF InFile, Descriptor, Position
<1>4. file_read(Child, fd, FALSE, size)
  <2>1. ~CannotRead(Child, fd)
    BY <1>1, DescriptorAssumption DEF CannotRead, Regular
  <2> QED
    BY <1>1, <2>1 DEF Read
<1>5. CASE p = Len(t)
  <2>1. ret' = Code(0) /\ UNCHANGED f_desc
    BY <1>1, <1>2, <1>4, <1>5 DEF file_read, Position
  <2>2. ret'.code = 0 /\ Least(size, Len(t) - p) = 0
    BY <1>2, <1>5, <2>1 DEF Code, Least
  <2>3. Reads(fd, i)' /\ Only(fd)
    BY <2>1 DEF Reads, Only
  <2>4. Position(fd)' = p + 0
    <3>1. Position(fd)' = p
      BY <2>1 DEF Position
    <3> QED
      BY <1>2, <1>5, <3>1
  <2> QED
    BY <1>2, <1>3, <1>5, <2>2, <2>3, <2>4
<1>6. CASE p # Len(t)
  <2> DEFINE b == SubSeq(t, p + 1, Least(p + size, Len(t)))
             k == Least(size, Len(t) - p)
  <2>1. Unsigned(size) = size
    BY SizeAssumption DEF Unsigned
  <2>2. read_data(n, p, FALSE, size) = Bytes(b)
    <3>1. Texts[n] = t /\ p < Len(Texts[n]) /\ p \in Nat /\ size \in Nat \ {0}
      BY <1>2, <1>3, <1>6
    <3> HIDE DEF n
    <3>2. read_data(n, p, FALSE, size)
          = Bytes(SubSeq(Texts[n], p + 1, Least(p + size, Len(Texts[n]))))
      BY <1>2, <3>1, ReadGivesText
    <3> QED
      BY <3>1, <3>2
  <2>3. k \in Nat \ {0} /\ Least(p + size, Len(t)) = p + k /\ p + k <= Len(t)
    BY <1>2, <1>3, <1>6 DEF Least
  <2>4. Len(b) = k
    <3>1. PICK A, q, e : /\ A = STRING /\ q = p + 1 /\ e = p + k
                         /\ q \in Nat \ {0} /\ e \in 0 .. Len(t)
      BY <1>2, <1>3, <2>3
    <3>2. Len(SubSeq(t, q, e)) = IF q <= e THEN e + 1 - q ELSE 0
      BY <1>3, <3>1, PartType
    <3>3. b = SubSeq(t, q, e)
      BY <2>3, <3>1
    <3> HIDE DEF b, k
    <3>4. q <= e /\ e + 1 - q = k
      <4>1. p \in Nat /\ k \in Nat \ {0}
        BY <1>2, <1>3, <2>3
      <4>2. q = p + 1 /\ e = p + k
        BY <3>1
      <4> QED
        BY <4>1, <4>2
    <3> QED
      BY <3>2, <3>3, <3>4
  <2>5. Bytes(b).code = k /\ Bytes(b).bytes = b
    BY <2>4 DEF Bytes
  <2>6. b = SubSeq(t, p + 1, p + k)
    BY <2>3
  <2> HIDE DEF b, k
  <2>7. ~(f_desc[Child][fd].file_position >= inode[n].length)
    BY <1>2, <1>3, <1>6 DEF Position
  <2>8. ret' = Bytes(b) /\ Advance(Child, fd, k)
    <3>1. read_data(f_desc[Child][fd].inode, f_desc[Child][fd].file_position,
                    FALSE, Unsigned(size)) = Bytes(b)
      BY <1>1, <2>1, <2>2 DEF Position
    <3>2. Bytes(b).code = k /\ k # -1
      BY <2>3, <2>5
    <3> HIDE DEF n
    <3> QED
      BY <1>1, <1>4, <2>7, <3>1, <3>2 DEF file_read
  <2>9. /\ Position(fd)' = p + k
        /\ f_desc'[Child][fd].flag = f_desc[Child][fd].flag
        /\ f_desc'[Child][fd].ops = f_desc[Child][fd].ops
        /\ f_desc'[Child][fd].inode = f_desc[Child][fd].inode
        /\ Only(fd)
    BY <1>1, <2>8, AdvancedOnly DEF Only
  <2>10. k \in Nat /\ k = Least(size, Len(t) - p)
    BY <2>3 DEF k
  <2>11. ret'.code = k /\ ret'.bytes = SubSeq(t, p + 1, p + k)
    BY <2>5, <2>6, <2>8
  <2>12. Reads(fd, i)'
    BY <1>1, <2>9 DEF Reads
  <2> QED
    BY <1>2, <1>3, <2>9, <2>10, <2>11, <2>12
<1> QED
  BY <1>5, <1>6

\* A read of the directory gives the names in their order.
GivesEntry(fd, i, p) ==
  \E k \in Nat :
    /\ ret'.code = k /\ Only(fd)
    /\ k = 0 <=> p = Len(direntries)
    /\ k # 0 => /\ ret'.bytes = ListedName(p + 1)
                /\ Reads(fd, i)' /\ Position(fd)' = p + 1

LEMMA EntryRead ==
  ASSUME ListedImage, IInv, NEW fd, NEW i \in 1 .. Len(direntries),
         Reads(fd, i), direntries[i].filetype = "dir",
         NEW size \in Nat, FILENAME_LEN <= size, Read(Child, fd, size, FALSE),
         NEW p, p = Position(fd), p \in 0 .. Len(direntries)
  PROVE  GivesEntry(fd, i, p)
<1>1. /\ Child \in live /\ fd \in Regular
      /\ f_desc[Child][fd].flag = 0 /\ f_desc[Child][fd].ops = "dir"
  BY DEF Read, Reads
<1>2. dir_read(Child, fd, FALSE, size)
  <2>1. ~CannotRead(Child, fd)
    BY <1>1, DescriptorAssumption DEF CannotRead, Regular
  <2> QED
    BY <1>1, <2>1 DEF Read
<1> DEFINE name == IF p < Len(direntries)
                     THEN Cut(direntries[p + 1].filename) ELSE <<>>
           length == Least(Len(name), Least(size, DIR_NAME_LENGTH))
<1>3. ret' = Bytes(SubSeq(name, 1, length)) /\ Advance(Child, fd, 1)
  BY <1>2 DEF dir_read, Position
<1>4. Len(direntries) \in Nat
  OBVIOUS
<1>5. /\ Position(fd)' = p + 1 /\ Only(fd) /\ Reads(fd, i)'
  <2>1. /\ Position(fd)' = Position(fd) + 1
        /\ f_desc'[Child][fd].flag = f_desc[Child][fd].flag
        /\ f_desc'[Child][fd].ops = f_desc[Child][fd].ops
        /\ f_desc'[Child][fd].inode = f_desc[Child][fd].inode
        /\ Only(fd)
    BY <1>1, <1>3, AdvancedOnly DEF Only
  <2> QED
    BY <1>1, <2>1 DEF Reads
<1>6. name \in Seq(STRING) /\ Len(name) <= FILENAME_LEN
  <2>1. CASE p < Len(direntries)
    <3>1. p + 1 \in 1 .. Len(direntries)
      BY <2>1
    <3>2. direntries[p + 1].filename \in Seq(STRING)
      BY <3>1, DirectoryAssumption
    <3> QED
      BY <2>1, <3>2, LengthOfCut, DescriptorAssumption
  <2>2. CASE ~(p < Len(direntries))
    BY <2>2, SizeAssumption
  <2> QED
    BY <2>1, <2>2
<1>7. p < Len(direntries) => name = ListedName(p + 1) /\ name # <<>>
  <2> SUFFICES ASSUME p < Len(direntries)
               PROVE  name = ListedName(p + 1) /\ name # <<>>
    OBVIOUS
  <2>1. p + 1 \in DOMAIN direntries /\ name = ListedName(p + 1)
    BY DirectoryAssumption DEF ListedName
  <2> QED
    BY <2>1 DEF ListedImage
<1>8. ~(p < Len(direntries)) => name = <<>>
  OBVIOUS
<1> HIDE DEF name
<1>9. length = Len(name)
  BY <1>6, SizeAssumption, DescriptorAssumption DEF Least
<1> HIDE DEF length
<1>10. SubSeq(name, 1, length) = name
  BY <1>6, <1>9
<1>11. ret'.bytes = name /\ ret'.code = Len(name)
  BY <1>3, <1>10 DEF Bytes
<1>12. PICK k \in Nat : k = Len(name)
  BY <1>6
<1>13. k = 0 <=> p = Len(direntries)
  <2>1. k = 0 <=> name = <<>>
    BY <1>6, <1>12
  <2> QED
    BY <2>1, <1>7, <1>8
<1>14. k # 0 => p < Len(direntries)
  BY <1>13
<1> QED
  BY <1>5, <1>7, <1>11, <1>12, <1>13, <1>14 DEF GivesEntry

LEMMA ClockRead ==
  ASSUME NEW fd, NEW i \in 1 .. Len(direntries), Reads(fd, i),
         direntries[i].filetype = "rtc", NEW size, Read(Child, fd, size, FALSE)
  PROVE  /\ ret'.code = 0 /\ ret'.bytes = <<>> /\ Only(fd)
         /\ Reads(fd, i)' /\ Position(fd)' = Position(fd)
<1>1. ~CannotRead(Child, fd) /\ f_desc[Child][fd].ops = "rtc"
  BY DescriptorAssumption DEF Reads, CannotRead, Regular
<1>2. ret' = Code(0) /\ UNCHANGED f_desc
  BY <1>1 DEF Read
<1> QED
  BY <1>2 DEF Code, Reads, Position, Only

LEMMA KindOfEntry ==
  ASSUME NEW i \in 1 .. Len(direntries)
  PROVE  direntries[i].filetype \in {"rtc", "dir", "file"}
BY DirectoryAssumption DEF Kinds

LEMMA NamesAreTexts ==
  ASSUME NEW i \in 1 .. Len(direntries) PROVE ListedName(i) \in Seq(STRING)
<1>1. direntries[i].filename \in Seq(STRING)
  BY DirectoryAssumption
<1> QED
  BY <1>1, LengthOfCut DEF ListedName

\* One more piece, or the end.
Continues(fd, i, tail, p, q) ==
  \/ /\ ret'.code = 0 /\ Copied(tail, i, p) = Copied(tail, i, SizeOf(i))
  \/ /\ ret'.code > 0 /\ Reads(fd, i)' /\ q \in 0 .. SizeOf(i)
     /\ Copied(tail, i, p) \o (ret'.bytes \o tail) = Copied(tail, i, q)

LEMMA TextContinues ==
  ASSUME NEW t \in Seq(STRING), NEW p \in 0 .. Len(t), p # Len(t),
         NEW size \in Nat \ {0}, NEW k, k = Least(size, Len(t) - p)
  PROVE  /\ k > 0 /\ k # 0 /\ p + k \in 0 .. Len(t)
         /\ SubSeq(t, 1, p) \o (SubSeq(t, p + 1, p + k) \o <<>>)
              = SubSeq(t, 1, p + k)
<1>1. k \in Nat /\ k > 0 /\ k # 0 /\ p + k \in 0 .. Len(t) /\ p + k >= p
  BY DEF Least
<1>2. PICK q \in p .. Len(t) : q = p + k
  BY <1>1
<1>3. SubSeq(t, 1, p) \o SubSeq(t, p + 1, q) = SubSeq(t, 1, q)
  BY PartsMeet
<1>4. SubSeq(t, p + 1, q) \o <<>> = SubSeq(t, p + 1, q)
  OBVIOUS
<1> QED
  BY <1>1, <1>2, <1>3, <1>4

LEMMA CopyText ==
  ASSUME IInv, NEW fd, NEW i \in 1 .. Len(direntries), Reads(fd, i),
         direntries[i].filetype = "file",
         NEW size \in Nat \ {0}, size < WORD, Read(Child, fd, size, FALSE)
  PROVE  Continues(fd, i, <<>>, Position(fd), Position(fd)')
<1> DEFINE t == Texts[direntries[i].inode_num]
<1>0. t \in Seq(STRING) /\ Position(fd) \in 0 .. Len(t)
  BY TextRead
<1>1. PICK k \in Nat :
        /\ k = Least(size, Len(t) - Position(fd)) /\ ret'.code = k
        /\ k # 0 => ret'.bytes = SubSeq(t, Position(fd) + 1, Position(fd) + k)
        /\ Reads(fd, i)' /\ Position(fd)' = Position(fd) + k
  BY TextRead
<1>2. SizeOf(i) = Len(t) /\ \A q : Copied(<<>>, i, q) = SubSeq(t, 1, q)
  BY DEF SizeOf, Copied
<1> HIDE DEF t
<1>3. CASE Position(fd) = Len(t)
  <2>1. ret'.code = 0
    BY <1>0, <1>1, <1>3 DEF Least
  <2> QED
    BY <1>2, <1>3, <2>1 DEF Continues
<1>4. CASE Position(fd) # Len(t)
  <2>1. /\ k > 0 /\ k # 0 /\ Position(fd) + k \in 0 .. Len(t)
        /\ SubSeq(t, 1, Position(fd))
           \o (SubSeq(t, Position(fd) + 1, Position(fd) + k) \o <<>>)
             = SubSeq(t, 1, Position(fd) + k)
    BY <1>0, <1>1, <1>4, TextContinues
  <2> QED
    BY <1>1, <1>2, <2>1 DEF Continues
<1> QED
  BY <1>3, <1>4

LEMMA NamesContinue ==
  ASSUME NEW p \in 0 .. Len(direntries), p # Len(direntries),
         NEW tail \in Seq(STRING)
  PROVE  FirstOf(Listed(tail), p) \o (ListedName(p + 1) \o tail)
           = FirstOf(Listed(tail), p + 1)
<1>1. p \in Nat /\ p + 1 \in 1 .. Len(direntries)
  OBVIOUS
<1>2. ASSUME NEW j \in 1 .. Len(direntries)
      PROVE  /\ Listed(tail)[j] = ListedName(j) \o tail
             /\ Listed(tail)[j] \in Seq(STRING)
  <2>1. Listed(tail)[j] = ListedName(j) \o tail
    BY DirectoryAssumption DEF Listed
  <2>2. ListedName(j) \in Seq(STRING)
    BY NamesAreTexts
  <2> QED
    BY <2>1, <2>2
<1>3. FirstOf(Listed(tail), p) \in Seq(STRING)
  <2>1. \A j \in 1 .. p : Listed(tail)[j] \in Seq(STRING)
    BY <1>1, <1>2
  <2> QED
    BY <1>1, <2>1, FirstType
<1> QED
  BY <1>1, <1>2, <1>3, FirstNext

LEMMA CopyNames ==
  ASSUME ListedImage, IInv, NEW fd, NEW i \in 1 .. Len(direntries),
         Reads(fd, i), direntries[i].filetype = "dir",
         Position(fd) \in 0 .. Len(direntries),
         NEW size \in Nat, FILENAME_LEN <= size, Read(Child, fd, size, FALSE)
  PROVE  \A tail \in Seq(STRING) :
           Continues(fd, i, tail, Position(fd), Position(fd)')
<1>1. SizeOf(i) = Len(direntries)
  BY DEF SizeOf
<1>0. GivesEntry(fd, i, Position(fd))
  BY EntryRead
<1>2. PICK k \in Nat :
        /\ ret'.code = k /\ (k = 0 <=> Position(fd) = Len(direntries))
        /\ k # 0 => /\ ret'.bytes = ListedName(Position(fd) + 1)
                    /\ Reads(fd, i)' /\ Position(fd)' = Position(fd) + 1
  BY <1>0 DEF GivesEntry
<1>3. CASE k = 0
  BY <1>1, <1>2, <1>3 DEF Continues
<1>4. CASE k # 0
  <2>1. /\ ret'.bytes = ListedName(Position(fd) + 1) /\ ret'.code > 0
        /\ Reads(fd, i)' /\ Position(fd)' = Position(fd) + 1
        /\ Position(fd) # Len(direntries)
    BY <1>2, <1>4
  <2>2. Position(fd) + 1 \in 0 .. SizeOf(i)
    BY <1>1, <2>1
  <2>3. \A tail \in Seq(STRING) :
          FirstOf(Listed(tail), Position(fd))
            \o (ListedName(Position(fd) + 1) \o tail)
            = FirstOf(Listed(tail), Position(fd) + 1)
    BY <2>1, NamesContinue
  <2>4. \A tail, q : Copied(tail, i, q) = FirstOf(Listed(tail), q)
    BY DEF Copied
  <2> QED
    BY <2>1, <2>2, <2>3, <2>4 DEF Continues
<1> QED
  BY <1>3, <1>4

LEMMA CopyReads ==
  ASSUME ListedImage, IInv, NEW fd, NEW i \in 1 .. Len(direntries),
         Reads(fd, i), Position(fd) \in 0 .. SizeOf(i),
         NEW size \in Nat \ {0}, FILENAME_LEN <= size, size < WORD,
         Read(Child, fd, size, FALSE)
  PROVE  /\ Continues(fd, i, <<>>, Position(fd), Position(fd)')
         /\ direntries[i].filetype # "file" =>
              \A tail \in Seq(STRING) :
                Continues(fd, i, tail, Position(fd), Position(fd)')
<1>1. CASE direntries[i].filetype = "rtc"
  <2>1. ret'.code = 0
    BY <1>1, ClockRead
  <2> QED
    BY <1>1, <2>1 DEF Continues, Copied
<1>2. CASE direntries[i].filetype = "dir"
  <2>1. \A tail \in Seq(STRING) :
          Continues(fd, i, tail, Position(fd), Position(fd)')
    <3>1. Position(fd) \in 0 .. Len(direntries)
      BY <1>2 DEF SizeOf
    <3> QED
      BY <1>2, <3>1, CopyNames
  <2>2. <<>> \in Seq(STRING)
    OBVIOUS
  <2> QED
    BY <2>1, <2>2
<1>3. CASE direntries[i].filetype = "file"
  BY <1>3, CopyText
<1> QED
  BY <1>1, <1>2, <1>3, KindOfEntry

LEMMA NamedIsEntry ==
  ASSUME NEW name, EntriesFor(name) # {}
  PROVE  Named(name) \in 1 .. Len(direntries)
<1> DEFINE S == EntriesFor(name)
<1>1. S # {} /\ S \subseteq Nat /\ S \subseteq 1 .. Len(direntries)
  BY DEF EntriesFor
<1> HIDE DEF S
<1>2. Min(S) \in 1 .. Len(direntries)
  BY <1>1, MinIsLeast
<1> QED
  BY <1>2 DEF Named, S

\* A free descriptor is there, so only what the image lacks is not opened.
LEMMA BeginsToRead ==
  ASSUME SInv, Running, Begun, NEW name, NEW message,
         OpenOrFail(name, message)
  PROVE  \/ /\ EntriesFor(name) = {} /\ shown' = <<message>>
            /\ pc' = "exit" /\ loc' = NoLocals
         \/ /\ EntriesFor(name) # {} /\ Named(name) \in EntriesFor(name)
            /\ pc' = "read" /\ shown' = <<>> /\ loc'.dirty = FALSE
            /\ Reads(loc.fd, Named(name))' /\ Position(loc.fd)' = 0
            /\ \A d \in Regular : d # loc'.fd => f_desc'[Child][d].flag = 1
<1>1. IInv /\ Open(Child, name)
  BY DEF SInv, OpenOrFail
<1>2. CASE ret'.code = -1
  <2>1. shown' = <<message>> /\ pc' = "exit" /\ loc' = NoLocals
    BY <1>2 DEF OpenOrFail, Fail, Say, Exit, Begun
  <2>2. EntriesFor(name) = {}
    <3>1. FIRST_REG_FILE \in FreeFds(Child)
      BY DescriptorAssumption DEF Begun, NoneOpen, FreeFds, Regular
    <3>2. EntriesFor(name) = {} \/ \E fd \in FreeFds(Child) : ret' = Code(fd)
      BY <1>1, <3>1 DEF Open
    <3>3. \A fd \in FreeFds(Child) : Code(fd).code = fd /\ fd # -1
      BY DescriptorAssumption DEF Code, FreeFds, Regular
    <3> QED
      BY <1>2, <3>2, <3>3
  <2> QED
    BY <2>1, <2>2
<1>3. CASE ret'.code # -1
  <2>1. PICK fd \in FreeFds(Child) :
          /\ ret'.code = fd /\ Sets(Child, fd, 0)
          /\ EntriesFor(name) # {} /\ Named(name) \in EntriesFor(name)
          /\ Reads(fd, Named(name))' /\ Position(fd)' = 0
    BY <1>1, <1>3, OpenForReading
  <2>2. /\ pc' = "read" /\ loc' = [fd |-> fd, dirty |-> FALSE]
        /\ shown' = <<>>
    BY <1>3, <2>1 DEF OpenOrFail, Go, Begun
  <2>3. /\ loc'.fd = fd /\ loc'.dirty = FALSE
        /\ Reads(loc.fd, Named(name))' /\ Position(loc.fd)' = 0
    BY <2>1, <2>2 DEF Reads, Position
  <2>4. \A d \in Regular : d # fd => f_desc'[Child][d].flag = 1
    BY <2>1 DEF Sets, Begun, NoneOpen, Regular
  <2> QED
    BY <2>1, <2>2, <2>3, <2>4
<1> QED
  BY <1>2, <1>3

LEMMA CopyBegins ==
  ASSUME SInv, Running, Begun, NEW name, NEW message, NEW tail,
         OpenOrFail(name, message)
  PROVE  \/ /\ EntriesFor(name) = {} /\ shown' = <<message>>
            /\ pc' = "exit" /\ loc' = NoLocals
         \/ pc' = "read" /\ CopiesWith(name, tail)'
<1>1. CASE pc' = "read"
  <2> DEFINE i == Named(name)
  <2>1. /\ EntriesFor(name) # {} /\ i \in 1 .. Len(direntries)
        /\ shown' = <<>> /\ Reads(loc.fd, i)' /\ Position(loc.fd)' = 0
    BY <1>1, BeginsToRead DEF EntriesFor
  <2> HIDE DEF i
  <2>2. 0 \in 0 .. SizeOf(i) /\ Copied(tail, i, 0) = <<>>
    <3>1. SizeOf(i) \in Nat
      BY <2>1, DirectoryAssumption, ImageAssumption DEF SizeOf, Kinds
    <3>2. CASE direntries[i].filetype = "file"
      <4>1. Texts[direntries[i].inode_num] \in Seq(STRING)
        BY <2>1, DirectoryAssumption, ImageAssumption
      <4> QED
        BY <3>1, <3>2, <4>1 DEF Copied
    <3>3. CASE direntries[i].filetype = "dir"
      BY <3>1, <3>3, FirstNone DEF Copied
    <3>4. CASE direntries[i].filetype = "rtc"
      BY <3>1, <3>4 DEF Copied
    <3> QED
      BY <2>1, <3>2, <3>3, <3>4, KindOfEntry
  <2> QED
    BY <1>1, <2>1, <2>2 DEF CopiesWith, i
<1>2. CASE pc' # "read"
  BY <1>2, BeginsToRead
<1> QED
  BY <1>1, <1>2

LEMMA CopyReadShows ==
  ASSUME ListedImage, SInv, Running, NEW p, NEW size \in Nat \ {0},
         FILENAME_LEN <= size, size < WORD, size \in AllSizes, NEW message,
         NEW name, NEW tail, tail \in Seq(STRING), CopiesWith(name, tail),
         CopyRead(p, size, message),
         tail = <<>> \/ direntries[Named(name)].filetype # "file"
  PROVE  \/ pc' = "write" /\ CopiesWith(name, tail)'
         \/ /\ pc' = "exit" /\ EntriesFor(name) # {}
            /\ shown' = Copied(tail, Named(name), SizeOf(Named(name)))
<1> DEFINE i == Named(name)
<1>0. PICK fd : fd = loc.fd
  OBVIOUS
<1>1. /\ pc = "read" /\ EntriesFor(name) # {} /\ Reads(fd, i)
      /\ Position(fd) \in 0 .. SizeOf(i)
      /\ shown = Copied(tail, i, Position(fd))
      /\ IInv /\ Read(Child, fd, size, FALSE)
  BY <1>0 DEF CopyRead, At, CopiesWith, SInv
<1>2. i \in 1 .. Len(direntries)
  BY <1>1, NamedIsEntry
<1>3. Continues(fd, i, tail, Position(fd), Position(fd)')
  BY <1>1, <1>2, CopyReads
<1>4. ret'.code \in Nat \cup {-1}
  <2>1. /\ ret'.bytes \in Seq(STRING)
        /\ ret'.code = -1 \/ ret'.code = Len(ret'.bytes)
    BY <1>1, ProgramReads DEF Reads
  <2> QED
    BY <2>1
<1>5. CASE ret'.code = 0
  <2>1. pc' = "exit" /\ shown' = shown
    BY <1>5 DEF CopyRead, Exit
  <2> QED
    BY <1>1, <1>3, <1>5, <2>1 DEF Continues
<1>6. CASE ret'.code > 0
  <2>1. ret'.code # 0 /\ ret'.code # -1
    BY <1>4, <1>6
  <2>2. pc' = "write" /\ shown' = shown /\ loc' = loc
    BY <1>6, <2>1 DEF CopyRead, Go
  <2>3. /\ Reads(fd, i)' /\ Position(fd)' \in 0 .. SizeOf(i)
        /\ shown \o (ret'.bytes \o tail) = Copied(tail, i, Position(fd)')
    BY <1>1, <1>3, <2>1 DEF Continues
  <2>4. CopiesWith(name, tail)'
    BY <1>0, <1>1, <2>2, <2>3 DEF CopiesWith, Reads, Position
  <2> QED
    BY <2>2, <2>4
<1>7. ret'.code = 0 \/ ret'.code > 0
  BY <1>3 DEF Continues
<1> QED
  BY <1>5, <1>6, <1>7

LEMMA CopyWriteShows ==
  ASSUME SInv, Running, NEW p, NEW name, NEW tail, tail \in Seq(STRING),
         ret.bytes \in Seq(STRING), CopiesWith(name, tail), CopyWrite(p, tail)
  PROVE  pc' = "read" /\ CopiesWith(name, tail)'
<1>1. pc = "write" /\ IInv /\ Child \in live
      /\ Write(Child, 1, Len(ret.bytes \o tail), FALSE)
  BY DEF CopyWrite, At, SInv, Write
<1>2. Len(ret.bytes \o tail) \in Nat
  OBVIOUS
<1>3. f_desc[Child][1].ops = "terminal" /\ ~CannotWrite(Child, 1)
  BY <1>1, DescriptorAssumption DEF IInv, Usable, CannotWrite
<1>4. ret'.code = Len(ret.bytes \o tail) /\ UNCHANGED f_desc
  BY <1>1, <1>3 DEF Write, Code
<1>5. pc' = "read" /\ loc' = loc /\ shown' = shown \o (ret.bytes \o tail)
  <2>1. ret'.code # -1
    BY <1>2, <1>4
  <2> QED
    BY <2>1 DEF CopyWrite, Go, Say
<1> QED
  BY <1>1, <1>4, <1>5 DEF CopiesWith, Reads, Position

LEMMA ListedPieces ==
  ASSUME NEW tail
  PROVE  FlattenSeq(Listed(tail)) = FirstOf(Listed(tail), Len(direntries))
<1>1. Len(direntries) \in Nat /\ DOMAIN direntries = 1 .. Len(direntries)
  BY DirectoryAssumption
<1>2. Listed(tail) = [j \in 1 .. Len(direntries) |-> Listed(tail)[j]]
  BY <1>1 DEF Listed
<1> QED
  BY <1>1, <1>2, FirstAll

LEMMA CopiedAll ==
  ASSUME NEW name, EntriesFor(name) # {}
  PROVE  Copied(<<>>, Named(name), SizeOf(Named(name))) = CatAnswer(name)
<1> DEFINE i == Named(name)
<1>1. i \in 1 .. Len(direntries) /\ i \in DOMAIN direntries
  BY NamedIsEntry, DirectoryAssumption
<1> HIDE DEF i
<1>2. CASE direntries[i].filetype = "file"
  <2>1. Texts[direntries[i].inode_num] \in Seq(STRING)
    BY <1>1, DirectoryAssumption, ImageAssumption
  <2>2. Copied(<<>>, i, SizeOf(i)) = Texts[direntries[i].inode_num]
    BY <1>2, <2>1 DEF Copied, SizeOf
  <2> QED
    BY <1>2, <2>2 DEF CatAnswer, i
<1>3. CASE direntries[i].filetype = "dir"
  <2>1. Copied(<<>>, i, SizeOf(i)) = FirstOf(Listed(<<>>), Len(direntries))
    BY <1>3 DEF Copied, SizeOf
  <2>2. Listed(<<>>) = [j \in DOMAIN direntries |-> ListedName(j)]
    <3>1. \A j \in DOMAIN direntries : ListedName(j) \o <<>> = ListedName(j)
      BY NamesAreTexts, DirectoryAssumption
    <3> QED
      BY <3>1 DEF Listed
  <2>3. FlattenSeq(Listed(<<>>)) = FirstOf(Listed(<<>>), Len(direntries))
    BY ListedPieces
  <2> QED
    BY <1>3, <2>1, <2>2, <2>3 DEF CatAnswer, i
<1>4. CASE direntries[i].filetype = "rtc"
  BY <1>4 DEF Copied, SizeOf, CatAnswer, i
<1> QED
  BY <1>1, <1>2, <1>3, <1>4, KindOfEntry DEF i

LEMMA ListedAll ==
  ASSUME EntriesFor(<<".">>) # {}
  PROVE  LET i == Named(<<".">>) IN
         /\ direntries[i].filetype = "dir"
         /\ Copied(<<NEWLINE>>, i, SizeOf(i)) = LsAnswer
<1> DEFINE i == Named(<<".">>)
<1>1. direntries[i].filetype = "dir"
  <2> DEFINE S == EntriesFor(<<".">>)
  <2>1. S # {} /\ S \subseteq Nat
    BY DEF EntriesFor
  <2> HIDE DEF S
  <2>2. Min(S) \in S
    BY <2>1, MinIsLeast
  <2> QED
    BY <2>2, ProgramAssumption DEF Named, S
<1>2. Listed(<<NEWLINE>>) = [j \in DOMAIN direntries |->
                               ListedName(j) \o <<EndOfLine>>]
  BY DEF Listed, NEWLINE, EndOfLine
<1>3. FlattenSeq(Listed(<<NEWLINE>>))
        = FirstOf(Listed(<<NEWLINE>>), Len(direntries))
  BY ListedPieces
<1> QED
  BY <1>1, <1>2, <1>3 DEF Copied, SizeOf, LsAnswer

LEMMA CatStep ==
  ASSUME ListedImage, SInv, CatInv, UNCHANGED <<kernel, shell, prog>>, Cat
  PROVE  CatInv'
<1> DEFINE args == sys_getargs(BUFSIZE)
<1>1. prog = "cat" /\ Running /\ prog' = "cat" /\ args' = args
  BY DEF Cat, CatStart, CopyRead, CopyWrite, At, Running, kernel, sys_getargs
<1> HIDE DEF args
<1>2. PICK name : name = args.bytes
  OBVIOUS
<1>3. CopiesWith(name, <<>>) /\ <<>> \in Seq(STRING)
  <2>1. CopiesWith(args.bytes, <<>>)
    BY <1>1 DEF CatInv, args
  <2> QED
    BY <1>2, <2>1 DEF CopiesWith
<1>4. ASSUME CopiesWith(name, <<>>)', pc' \in {"read", "write"}, args.code = 0
      PROVE  CatInv'
  <2>1. args'.bytes = name /\ args'.code = 0
    BY <1>1, <1>2, <1>4
  <2> QED
    BY <1>4, <2>1 DEF CatInv, CopiesWith, args
<1>5. CASE CatStart
  <2>1. pc = "start" /\ Begun
    BY <1>1, <1>5 DEF CatStart, At, CatInv
  <2>2. CASE args.code # 0
    <3>0. PICK message : message = "could not read arguments"
      OBVIOUS
    <3>1. pc' = "exit" /\ shown' = <<message>>
      <4>1. Fail(message, 3)
        BY <1>5, <2>2, <3>0 DEF CatStart, args
      <4> QED
        BY <2>1, <4>1 DEF Fail, Say, Exit, Begun
    <3>2. ShowsAnswer'
      BY <1>1, <2>2, <3>0, <3>1 DEF ShowsAnswer, args
    <3> QED
      BY <3>1, <3>2 DEF CatInv, CopiesWith
  <2>3. CASE args.code = 0
    <3>1. OpenOrFail(name, "file not found")
      BY <1>2, <1>5, <2>3 DEF CatStart, args
    <3>2. CASE EntriesFor(name) = {} /\ shown' = <<"file not found">>
               /\ pc' = "exit"
      <4>1. ShowsAnswer'
        BY <1>1, <1>2, <2>3, <3>2 DEF ShowsAnswer, args
      <4> QED
        BY <3>2, <4>1 DEF CatInv, CopiesWith
    <3> QED
      BY <1>1, <1>4, <2>1, <2>3, <3>1, <3>2, CopyBegins
  <2> QED
    BY <2>2, <2>3
<1>6. CASE CopyRead("cat", BUFSIZE, "file read failed")
  <2>1. args.code = 0
    BY <1>1, <1>6 DEF CopyRead, At, CatInv, args
  <2>2. BUFSIZE \in Nat \ {0} /\ BUFSIZE \in AllSizes
        /\ FILENAME_LEN <= BUFSIZE /\ BUFSIZE < WORD
    BY SomeSizes, SizeAssumption DEF ListedImage
  <2>3. CASE pc' = "exit" /\ EntriesFor(name) # {}
             /\ shown' = Copied(<<>>, Named(name), SizeOf(Named(name)))
    <3>1. EntriesFor(args'.bytes) # {} /\ shown' = CatAnswer(args'.bytes)
      BY <1>1, <1>2, <2>3, CopiedAll
    <3>2. ShowsAnswer'
      BY <1>1, <2>1, <2>3, <3>1 DEF ShowsAnswer, args
    <3> QED
      BY <2>3, <3>2 DEF CatInv, CopiesWith
  <2> QED
    BY <1>1, <1>3, <1>4, <1>6, <2>1, <2>2, <2>3, CopyReadShows
<1>7. CASE CopyWrite("cat", <<>>)
  <2>1. args.code = 0 /\ ret.bytes \in Seq(STRING)
    BY <1>1, <1>7 DEF CopyWrite, At, CatInv, args, SInv, LocalInv, CopyInv
  <2> QED
    BY <1>1, <1>3, <1>4, <1>7, <2>1, CopyWriteShows
<1> QED
  BY <1>5, <1>6, <1>7 DEF Cat

LEMMA LsStep ==
  ASSUME ListedImage, SInv, LsInv, UNCHANGED <<kernel, shell, prog>>, Ls
  PROVE  LsInv'
<1> DEFINE tail == <<NEWLINE>>
<1>1. prog = "ls" /\ Running /\ prog' = "ls"
  BY DEF Ls, LsStart, CopyRead, CopyWrite, At, Running
<1>2. CopiesWith(<<".">>, tail) /\ tail \in Seq(STRING)
  <2>1. CopiesWith(<<".">>, tail)
    BY <1>1 DEF LsInv
  <2>2. NEWLINE \in STRING
    BY CharacterAssumption
  <2> QED
    BY <2>1, <2>2
<1> HIDE DEF tail
<1>3. ASSUME CopiesWith(<<".">>, tail)', pc' \in {"read", "write"}
      PROVE  LsInv'
  BY <1>3 DEF LsInv, tail
<1>4. CASE LsStart
  <2>1. /\ Begun /\ OpenOrFail(<<".">>, "directory open failed")
    BY <1>1, <1>4 DEF LsStart, At, LsInv
  <2>2. EntriesFor(<<".">>) # {}
    BY DEF ListedImage
  <2> QED
    BY <1>1, <1>3, <2>1, <2>2, CopyBegins
<1>5. CASE CopyRead("ls", SBUFSIZE - 1, "directory entry read failed")
  <2>1. /\ SBUFSIZE - 1 = FILENAME_LEN /\ FILENAME_LEN \in Nat \ {0}
        /\ FILENAME_LEN \in AllSizes /\ FILENAME_LEN < WORD
    BY SomeSizes, SizeAssumption DEF ListedImage
  <2>2. CopyRead("ls", FILENAME_LEN, "directory entry read failed")
    BY <1>5, <2>1
  <2>3. /\ direntries[Named(<<".">>)].filetype # "file"
        /\ Copied(tail, Named(<<".">>), SizeOf(Named(<<".">>))) = LsAnswer
    BY ListedAll DEF ListedImage, tail
  <2>4. CASE pc' = "exit" /\ shown' = LsAnswer
    <3>1. ShowsAnswer'
      BY <1>1, <2>4 DEF ShowsAnswer
    <3> QED
      BY <2>4, <3>1 DEF LsInv, CopiesWith
  <2>5. \/ pc' = "write" /\ CopiesWith(<<".">>, tail)'
        \/ pc' = "exit" /\ shown' = LsAnswer
    <3>1. PICK name, message :
            /\ name = <<".">> /\ message = "directory entry read failed"
      OBVIOUS
    <3>2. CopiesWith(name, tail) /\ CopyRead("ls", FILENAME_LEN, message)
          /\ direntries[Named(name)].filetype # "file"
          /\ Copied(tail, Named(name), SizeOf(Named(name))) = LsAnswer
      BY <1>2, <2>2, <2>3, <3>1
    <3>3. \/ pc' = "write" /\ CopiesWith(name, tail)'
          \/ pc' = "exit" /\ shown' = LsAnswer
      BY <1>1, <1>2, <2>1, <3>2, CopyReadShows
    <3> QED
      BY <3>1, <3>3 DEF CopiesWith
  <2> QED
    BY <1>3, <2>4, <2>5
<1>6. CASE CopyWrite("ls", tail)
  <2>1. ret.bytes \in Seq(STRING)
    BY <1>1, <1>6 DEF CopyWrite, At, SInv, LocalInv, CopyInv
  <2> QED
    BY <1>1, <1>2, <1>3, <1>6, <2>1, CopyWriteShows
<1> QED
  BY <1>4, <1>5, <1>6 DEF Ls, tail

(***************************************************************************)
(* Lines.                                                                  *)
(***************************************************************************)
Part(t, p, q) == SubSeq(t, p, q)
Just(x) == <<x>>

\* e is where the line of t from p ends.
EndsAt(t, p, e) ==
  /\ e \in p .. Len(t) + 1 /\ (e = Len(t) + 1 \/ t[e] = EndOfLine)
  /\ \A q \in p .. e - 1 : t[q] # EndOfLine

LEMMA LineEnds ==
  ASSUME NEW t, Text(t), NEW p \in 1 .. Len(t)
  PROVE  \E e \in Nat : EndsAt(t, p, e) /\ LineAt(t, p) = Part(t, p, e - 1)
<1> DEFINE S == {q \in p .. Len(t) : t[q] = EndOfLine} \cup {Len(t) + 1}
           e == Min(S)
<1>0. Len(t) \in Nat
  BY DEF Text
<1>1. S # {} /\ S \subseteq Nat
  BY <1>0
<1>2. e \in S /\ \A q \in S : e <= q
  BY <1>1, MinIsLeast
<1>3. LineAt(t, p) = Part(t, p, e - 1)
  BY DEF LineAt, Part
<1> HIDE DEF e
<1>4. e \in p .. Len(t) + 1 /\ (e = Len(t) + 1 \/ t[e] = EndOfLine)
  BY <1>0, <1>2
<1>5. ASSUME NEW q \in p .. e - 1 PROVE t[q] # EndOfLine
  <2> SUFFICES ASSUME t[q] = EndOfLine PROVE FALSE
    OBVIOUS
  <2>1. q \in S
    BY <1>0, <1>4
  <2> QED
    BY <1>0, <1>2, <1>4, <2>1
<1>6. EndsAt(t, p, e) /\ e \in Nat
  BY <1>0, <1>4, <1>5 DEF EndsAt
<1> QED
  BY <1>3, <1>6

LEMMA OneEnd ==
  ASSUME NEW t, NEW p \in Nat, NEW d, NEW e, Len(t) \in Nat,
         EndsAt(t, p, d), EndsAt(t, p, e)
  PROVE  d = e
<1>1. d \in p .. Len(t) + 1 /\ e \in p .. Len(t) + 1
  BY DEF EndsAt
<1>2. ~ d < e
  <2> SUFFICES ASSUME d < e PROVE FALSE
    OBVIOUS
  <2>1. d \in p .. e - 1 /\ d # Len(t) + 1
    BY <1>1
  <2> QED
    BY <2>1 DEF EndsAt
<1>3. ~ e < d
  <2> SUFFICES ASSUME e < d PROVE FALSE
    OBVIOUS
  <2>1. e \in p .. d - 1 /\ e # Len(t) + 1
    BY <1>1
  <2> QED
    BY <2>1 DEF EndsAt
<1> QED
  BY <1>1, <1>2, <1>3

LEMMA LineIs ==
  ASSUME NEW t, Text(t), NEW p \in 1 .. Len(t), NEW e, EndsAt(t, p, e)
  PROVE  LineAt(t, p) = Part(t, p, e - 1)
<1>0. Len(t) \in Nat /\ p \in Nat
  BY DEF Text
<1>1. PICK d \in Nat : EndsAt(t, p, d) /\ LineAt(t, p) = Part(t, p, d - 1)
  BY LineEnds
<1>2. d = e
  BY <1>0, <1>1, OneEnd
<1> QED
  BY <1>1, <1>2

LEMMA PartIsText ==
  ASSUME NEW t, Text(t), NEW p \in 1 .. Len(t), NEW e, EndsAt(t, p, e)
  PROVE  Text(Part(t, p, e - 1)) /\ Len(Part(t, p, e - 1)) = e - p
<1>1. t \in Seq(STRING) /\ e \in p .. Len(t) + 1 /\ p \in Nat \ {0}
      /\ e - 1 \in 0 .. Len(t)
  BY DEF Text, EndsAt
<1>2. /\ SubSeq(t, p, e - 1) \in Seq(STRING)
      /\ Len(SubSeq(t, p, e - 1)) = IF p <= e - 1 THEN e - 1 + 1 - p ELSE 0
  BY <1>1, PartType
<1>3. Len(SubSeq(t, p, e - 1)) = e - p
  BY <1>1, <1>2
<1> QED
  BY <1>2, <1>3 DEF Text, Part

\* The lines of a text piece by piece.
Starting(t) == [p \in DOMAIN t |-> IF p \in LineStarts(t)
                                     THEN <<LineAt(t, p)>> ELSE <<>>]
LEMMA StartingAt ==
  ASSUME NEW t, Text(t), NEW p \in 1 .. Len(t)
  PROVE  /\ p \in LineStarts(t) => Starting(t)[p] = Just(LineAt(t, p))
         /\ p \notin LineStarts(t) => Starting(t)[p] = <<>>
<1>1. p \in DOMAIN t
  BY DEF Text
<1> QED
  BY <1>1 DEF Starting, Just

LEMMA LinesFirst ==
  ASSUME NEW t, Text(t)
  PROVE  /\ LinesOf(t) = FirstOf(Starting(t), Len(t))
         /\ Parts(Seq(STRING), Starting(t), Len(t))
         /\ LinesOf(t) \in Seq(Seq(STRING))
<1>0. Len(t) \in Nat /\ DOMAIN t = 1 .. Len(t)
  BY DEF Text
<1>1. Starting(t) = [p \in 1 .. Len(t) |-> Starting(t)[p]]
  BY <1>0 DEF Starting
<1>2. ASSUME NEW p \in 1 .. Len(t) PROVE Starting(t)[p] \in Seq(Seq(STRING))
  <2>1. LineAt(t, p) \in Seq(STRING)
    <3>1. PICK e \in Nat :
            EndsAt(t, p, e) /\ LineAt(t, p) = Part(t, p, e - 1)
      BY LineEnds
    <3> QED
      BY <3>1, PartIsText DEF Text
  <2>2. Just(LineAt(t, p)) \in Seq(Seq(STRING)) /\ <<>> \in Seq(Seq(STRING))
    BY <2>1 DEF Just
  <2> QED
    BY <2>2, StartingAt
<1>3. LinesOf(t) = FirstOf(Starting(t), Len(t))
  BY <1>0, <1>1, FirstAll DEF LinesOf, Starting
<1>4. FirstOf(Starting(t), Len(t)) \in Seq(Seq(STRING))
  BY <1>0, <1>2, FirstType
<1> QED
  BY <1>2, <1>3, <1>4 DEF Parts

\* Where a line ends, the lines before are those of what comes before.
Extends(t, x) == /\ Text(t) /\ Text(x) /\ Len(x) <= Len(t)
                 /\ \A k \in 1 .. Len(x) : t[k] = x[k]

LEMMA LinesBefore ==
  ASSUME NEW x, NEW t, Extends(t, x), EndsLine(x), NEW p \in 1 .. Len(x)
  PROVE  Starting(t)[p] = Starting(x)[p]
<1>0. PICK n \in Nat, m \in Nat : n = Len(x) /\ m = Len(t)
  BY DEF Extends, Text
<1>1. Text(t) /\ Text(x) /\ n <= m /\ p \in 1 .. n /\ p \in 1 .. m
      /\ p \in 1 .. Len(t)
  BY <1>0 DEF Extends
<1>2. \A k \in 1 .. n : t[k] = x[k]
  BY <1>0 DEF Extends
<1>3. x[n] = EndOfLine
  <2>1. x # <<>>
    BY <1>0, <1>1
  <2> QED
    BY <1>0, <2>1 DEF EndsLine
<1>4. p \in LineStarts(t) <=> p \in LineStarts(x)
  <2>1. p = 1 \/ p - 1 \in 1 .. n
    BY <1>1
  <2>2. p = 1 \/ t[p - 1] = x[p - 1]
    BY <1>2, <2>1
  <2> QED
    BY <1>0, <1>1, <2>2 DEF LineStarts
<1>5. LineAt(t, p) = LineAt(x, p)
  <2>1. PICK e \in Nat :
          EndsAt(x, p, e) /\ LineAt(x, p) = Part(x, p, e - 1)
    BY <1>1, LineEnds
  <2>2. /\ e \in p .. n + 1 /\ (e = n + 1 \/ x[e] = EndOfLine)
        /\ \A q \in p .. e - 1 : x[q] # EndOfLine
    BY <1>0, <2>1 DEF EndsAt
  <2>3. e # n + 1
    <3> SUFFICES ASSUME e = n + 1 PROVE FALSE
      OBVIOUS
    <3>1. n \in p .. e - 1
      BY <1>1
    <3> QED
      BY <1>3, <2>2, <3>1
  <2>4. e \in 1 .. n /\ e \in p .. m + 1
    BY <1>1, <2>2, <2>3
  <2>5. t[e] = EndOfLine
    BY <1>2, <2>2, <2>3, <2>4
  <2>6. ASSUME NEW q \in p .. e - 1 PROVE t[q] # EndOfLine
    <3>1. q \in 1 .. n
      BY <1>1, <2>4
    <3> QED
      BY <1>2, <2>2, <3>1
  <2>7. EndsAt(t, p, e)
    BY <1>0, <2>4, <2>5, <2>6 DEF EndsAt
  <2>8. LineAt(t, p) = Part(t, p, e - 1)
    BY <1>1, <2>7, LineIs
  <2>9. Part(t, p, e - 1) = Part(x, p, e - 1)
    <3>1. p \in Nat \ {0} /\ e - 1 \in 0 .. n /\ e - 1 \in 0 .. m
      BY <1>1, <2>4
    <3>2. \A k \in p .. e - 1 : t[k] = x[k]
      BY <1>1, <1>2, <2>4
    <3> QED
      BY <3>2 DEF Part
  <2> QED
    BY <2>1, <2>8, <2>9
<1> QED
  BY <1>1, <1>4, <1>5, StartingAt

\* A line, from n + 1 to the newline at e.
LEMMA LineBehind ==
  ASSUME NEW t, Text(t), NEW n \in Nat, NEW e \in Nat, e <= Len(t),
         n = 0 \/ t[n] = EndOfLine, EndsAt(t, n + 1, e)
  PROVE  /\ Starting(t)[n + 1] = Just(Part(t, n + 1, e - 1))
         /\ Blank(Starting(t), n + 2, e)
<1>0. Len(t) \in Nat
  BY DEF Text
<1>1. e \in n + 1 .. Len(t) /\ \A q \in n + 1 .. e - 1 : t[q] # EndOfLine
  BY <1>0 DEF EndsAt
<1>2. n + 1 \in 1 .. Len(t) /\ n + 1 - 1 = n
  BY <1>0, <1>1
<1>3. n + 1 \in LineStarts(t)
  BY <1>2 DEF LineStarts
<1>4. LineAt(t, n + 1) = Part(t, n + 1, e - 1)
  BY <1>2, LineIs
<1>5. ASSUME NEW p \in n + 2 .. e PROVE Starting(t)[p] = <<>>
  <2>1. p \in 1 .. Len(t) /\ p # 1 /\ p - 1 \in n + 1 .. e - 1
    BY <1>0, <1>1
  <2>2. t[p - 1] # EndOfLine
    BY <1>1, <2>1
  <2>3. p \notin LineStarts(t)
    BY <2>1, <2>2 DEF LineStarts
  <2> QED
    BY <2>1, <2>3, StartingAt
<1>6. Starting(t)[n + 1] = Just(LineAt(t, n + 1))
  BY <1>2, <1>3, StartingAt
<1> QED
  BY <1>4, <1>5, <1>6 DEF Blank

LEMMA LineJoined ==
  ASSUME NEW x, NEW t, Extends(t, x), EndsLine(x), NEW n \in Nat,
         NEW q \in Nat, n = Len(x), q = Len(t), n < q,
         EndsAt(t, n + 1, q)
  PROVE  LinesOf(t) = LinesOf(x) \o Just(Part(t, n + 1, q - 1))
<1>1. Text(t) /\ Text(x)
  BY DEF Extends
<1>2. n = 0 \/ t[n] = EndOfLine
  <2> SUFFICES ASSUME n # 0 PROVE t[n] = EndOfLine
    OBVIOUS
  <2>1. x # <<>> /\ n \in 1 .. Len(x)
    OBVIOUS
  <2>2. x[n] = EndOfLine
    BY <2>1 DEF EndsLine
  <2> QED
    BY <2>1, <2>2 DEF Extends
<1>3. PICK f, g, A :
        f = Starting(t) /\ g = Starting(x) /\ A = Seq(STRING)
  OBVIOUS
<1>4. f[n + 1] = Just(Part(t, n + 1, q - 1)) /\ Blank(f, n + 2, q)
  <2>1. q <= Len(t)
    OBVIOUS
  <2> QED
    BY <1>1, <1>2, <1>3, <2>1, LineBehind
<1>5. \A p \in 1 .. n : f[p] = g[p]
  BY <1>3, LinesBefore
<1>6. /\ Parts(A, f, q) /\ LinesOf(t) = FirstOf(f, q)
      /\ LinesOf(x) = FirstOf(g, n)
  BY <1>1, <1>3, LinesFirst
<1>7. FirstOf(f, q) = FirstOf(f, n) \o f[n + 1]
  BY <1>4, <1>6, OneMore
<1>8. FirstOf(f, n) = FirstOf(g, n)
  BY <1>5, FirstSame
<1> QED
  BY <1>4, <1>6, <1>7, <1>8

IsRow(t, x, y) == t = x \o y
LEMMA RowOf ==
  ASSUME NEW A, NEW x \in Seq(A), NEW y \in Seq(A), NEW t, IsRow(t, x, y)
  PROVE  /\ t \in Seq(A) /\ Len(t) = Len(x) + Len(y)
         /\ \A k \in 1 .. Len(x) : t[k] = x[k]
         /\ \A k \in 1 .. Len(y) : t[Len(x) + k] = y[k]
<1>1. \A k \in 1 .. Len(x) : t[k] = x[k]
  BY DEF IsRow
<1>2. t \in Seq(A) /\ Len(t) = Len(x) + Len(y)
  BY DEF IsRow
<1>3. ASSUME NEW k \in 1 .. Len(y) PROVE t[Len(x) + k] = y[k]
  <2>1. Len(x) + k \in 1 .. Len(x) + Len(y) /\ ~(Len(x) + k <= Len(x))
        /\ Len(x) + k - Len(x) = k
    OBVIOUS
  <2> QED
    BY <2>1 DEF IsRow
<1> QED
  BY <1>1, <1>2, <1>3

\* One more line, with its newline.
Adds(t, x, w) == t = x \o (w \o <<EndOfLine>>)

LEMMA AddedLine ==
  ASSUME NEW x, Text(x), NEW w, Text(w), OneLine(w), NEW t, Adds(t, x, w)
  PROVE  \E n \in Nat, q \in Nat :
           /\ n = Len(x) /\ q = Len(t) /\ n < q /\ Extends(t, x)
           /\ EndsAt(t, n + 1, q) /\ t[q] = EndOfLine
           /\ Part(t, n + 1, q - 1) = w
<1>1. PICK n \in Nat, m \in Nat : n = Len(x) /\ m = Len(w)
  BY DEF Text
<1>2. PICK y : y = w \o <<EndOfLine>>
  OBVIOUS
<1>3. /\ y \in Seq(STRING) /\ Len(y) = m + 1
      /\ \A k \in 1 .. m : y[k] = w[k]
      /\ y[m + 1] = EndOfLine
  BY <1>1, <1>2, CharacterAssumption DEF NEWLINE, EndOfLine, Text
<1>4. /\ t \in Seq(STRING) /\ Len(t) = n + (m + 1)
      /\ \A k \in 1 .. n : t[k] = x[k]
      /\ \A k \in 1 .. m + 1 : t[n + k] = y[k]
  <2>1. IsRow(t, x, y) /\ x \in Seq(STRING) /\ y \in Seq(STRING)
    BY <1>2, <1>3 DEF Adds, Text, IsRow
  <2> QED
    BY <1>1, <1>3, <2>1, RowOf
<1>5. PICK q \in Nat : q = n + m + 1 /\ q = n + (m + 1) /\ n < q
  OBVIOUS
<1>6. t[q] = EndOfLine
  <2>1. m + 1 \in 1 .. m + 1
    OBVIOUS
  <2> QED
    BY <1>3, <1>4, <1>5, <2>1
<1>7. \A k \in 1 .. m : t[n + k] = w[k]
  <2>1. \A k \in 1 .. m : k \in 1 .. m + 1
    OBVIOUS
  <2> QED
    BY <1>3, <1>4, <2>1
<1>8. SubSeq(t, n + 1, q - 1) = w
  <2>1. PICK z : z = SubSeq(t, n + 1, q - 1)
    OBVIOUS
  <2>2. z \in Seq(STRING) /\ Len(z) = m /\ \A k \in 1 .. m : z[k] = t[n + k]
    BY <1>4, <1>5, <2>1
  <2>3. \A k \in 1 .. m : z[k] = w[k]
    BY <1>7, <2>2
  <2> QED
    BY <1>1, <2>1, <2>2, <2>3, SameSequence DEF Text
<1>9. ASSUME NEW k \in n + 1 .. q - 1 PROVE t[k] # EndOfLine
  <2>1. PICK j \in 1 .. m : k = n + j
    <3>1. k - n \in 1 .. m /\ k = n + (k - n)
      BY <1>5
    <3> QED
      BY <3>1
  <2>2. t[k] = w[j]
    BY <1>7, <2>1
  <2> QED
    BY <1>1, <2>2 DEF OneLine
<1>10. EndsAt(t, n + 1, q)
  BY <1>4, <1>5, <1>6, <1>9 DEF EndsAt
<1>11. Extends(t, x)
  BY <1>1, <1>4 DEF Extends, Text
<1> QED
  BY <1>1, <1>4, <1>5, <1>6, <1>8, <1>10, <1>11 DEF Part

LEMMA LineAdded ==
  ASSUME NEW x, Text(x), EndsLine(x), NEW w, Text(w), OneLine(w),
         NEW t, Adds(t, x, w)
  PROVE  /\ Text(t) /\ EndsLine(t)
         /\ LinesOf(t) = LinesOf(x) \o Just(w)
<1>1. PICK n \in Nat, q \in Nat :
        /\ n = Len(x) /\ q = Len(t) /\ n < q /\ Extends(t, x)
        /\ EndsAt(t, n + 1, q) /\ t[q] = EndOfLine
        /\ Part(t, n + 1, q - 1) = w
  BY AddedLine
<1>2. LinesOf(t) = LinesOf(x) \o Just(Part(t, n + 1, q - 1))
  BY <1>1, LineJoined
<1>3. Text(t) /\ EndsLine(t)
  BY <1>1 DEF EndsLine, Extends
<1> QED
  BY <1>1, <1>2, <1>3

(***************************************************************************)
(* counter: decimal numbers.                                               *)
(***************************************************************************)
\* What Digits computes on the way, up to n.
Places(n, f) ==
  f = [k \in 0 .. n |->
         IF k > 0 THEN Glue(Just(lookup[(k % 10) + 1]), f[k \div 10]) ELSE <<>>]

LEMMA Tenths ==
  ASSUME NEW k \in Nat, k > 0
  PROVE  /\ k \div 10 \in 0 .. k - 1 /\ k % 10 \in 0 .. 9
         /\ k = (10 * (k \div 10)) + (k % 10)
OBVIOUS

LEMMA PlacesExist ==
  ASSUME NEW n \in Nat PROVE \E f : Places(n, f)
<1> DEFINE S == {k \in Nat : \E f : Places(k, f)}
<1>1. 0 \in S
  <2> DEFINE g == [k \in 0 .. 0 |-> <<>>]
  <2>1. g = [k \in 0 .. 0 |-> IF k > 0 THEN Glue(Just(lookup[(k % 10) + 1]),
                                               g[k \div 10]) ELSE <<>>]
    OBVIOUS
  <2> HIDE DEF g
  <2>2. Places(0, g)
    BY <2>1 DEF Places
  <2> QED
    BY <2>2
<1>2. ASSUME NEW k \in Nat, k \in S PROVE k + 1 \in S
  <2>1. PICK f : Places(k, f)
    BY <1>2
  <2> DEFINE next == Glue(Just(lookup[((k + 1) % 10) + 1]),
                          f[(k + 1) \div 10])
             g == [i \in 0 .. k + 1 |-> IF i = k + 1 THEN next ELSE f[i]]
  <2>2. ASSUME NEW i \in 0 .. k + 1
        PROVE  g[i] = IF i > 0 THEN Glue(Just(lookup[(i % 10) + 1]),
                                         g[i \div 10]) ELSE <<>>
    <3>1. CASE i = k + 1
      <4>1. (k + 1) \div 10 \in 0 .. k
        BY Tenths
      <4>2. g[(k + 1) \div 10] = f[(k + 1) \div 10]
        BY <4>1
      <4>3. g[i] = next /\ i > 0
        BY <3>1
      <4> QED
        BY <3>1, <4>2, <4>3
    <3>2. CASE i # k + 1
      <4>1. i \in 0 .. k /\ g[i] = f[i]
        BY <3>2
      <4>2. f[i] = IF i > 0 THEN Glue(Just(lookup[(i % 10) + 1]),
                                      f[i \div 10]) ELSE <<>>
        BY <2>1, <4>1 DEF Places
      <4>3. CASE i > 0
        <5>1. i \div 10 \in 0 .. i - 1
          BY <4>1, <4>3, Tenths
        <5>2. g[i \div 10] = f[i \div 10]
          BY <4>1, <5>1
        <5> QED
          BY <4>1, <4>2, <4>3, <5>2
      <4> QED
        BY <4>1, <4>2, <4>3
    <3> QED
      BY <3>1, <3>2
  <2>3. g = [i \in 0 .. k + 1 |-> g[i]]
    OBVIOUS
  <2> HIDE DEF g
  <2>4. Places(k + 1, g)
    BY <2>2, <2>3 DEF Places
  <2> QED
    BY <2>4
<1> QED
  <2> HIDE DEF S
  <2>1. \A k \in Nat : k \in S
    BY <1>1, <1>2, AllNaturals
  <2> QED
    BY <2>1 DEF S

LEMMA DigitsArePlaces ==
  ASSUME NEW n \in Nat
  PROVE  \E f : Places(n, f) /\ Digits(n, 10) = f[n]
<1> DEFINE f == CHOOSE f : f = [k \in 0 .. n |->
                  IF k > 0 THEN Glue(Just(lookup[(k % 10) + 1]), f[k \div 10])
                  ELSE <<>>]
<1>1. \E g : Places(n, g)
  BY PlacesExist
<1>2. Places(n, f)
  BY <1>1 DEF Places
<1>3. Digits(n, 10) = f[n]
  BY Zenon DEF Digits, Glue, Just
<1> QED
  BY <1>2, <1>3

\* What Numeral computes on the way.
Values(x, n, f) ==
  f = [k \in 0 .. n |->
         IF k = 0 THEN 0 ELSE 10 * f[k - 1] + ValueOf(x[k])]

LEMMA ValuesExist ==
  ASSUME NEW x, NEW n \in Nat PROVE \E f : Values(x, n, f)
<1> DEFINE S == {k \in Nat : \E f : Values(x, k, f)}
<1>1. 0 \in S
  <2> DEFINE g == [k \in 0 .. 0 |-> 0]
  <2>1. g = [k \in 0 .. 0 |->
               IF k = 0 THEN 0 ELSE 10 * g[k - 1] + ValueOf(x[k])]
    OBVIOUS
  <2> HIDE DEF g
  <2>2. Values(x, 0, g)
    BY <2>1 DEF Values
  <2> QED
    BY <2>2
<1>2. ASSUME NEW k \in Nat, k \in S PROVE k + 1 \in S
  <2>1. PICK f : Values(x, k, f)
    BY <1>2
  <2> DEFINE next == 10 * f[k] + ValueOf(x[k + 1])
             g == [i \in 0 .. k + 1 |-> IF i = k + 1 THEN next ELSE f[i]]
  <2>2. ASSUME NEW i \in 0 .. k + 1
        PROVE  g[i] = IF i = 0 THEN 0 ELSE 10 * g[i - 1] + ValueOf(x[i])
    <3>1. CASE i = k + 1
      BY <3>1
    <3>2. CASE i # k + 1
      <4>1. i \in 0 .. k /\ g[i] = f[i] /\ (i # 0 => g[i - 1] = f[i - 1])
        BY <3>2
      <4>2. f[i] = IF i = 0 THEN 0 ELSE 10 * f[i - 1] + ValueOf(x[i])
        BY <2>1, <4>1 DEF Values
      <4> QED
        BY <4>1, <4>2
    <3> QED
      BY <3>1, <3>2
  <2>3. g = [i \in 0 .. k + 1 |-> g[i]]
    OBVIOUS
  <2> HIDE DEF g
  <2>4. Values(x, k + 1, g)
    BY <2>2, <2>3 DEF Values
  <2> QED
    BY <2>4
<1> QED
  <2> HIDE DEF S
  <2>1. \A k \in Nat : k \in S
    BY <1>1, <1>2, AllNaturals
  <2> QED
    BY <2>1 DEF S

LEMMA NumeralIs ==
  ASSUME NEW x, NEW n \in Nat, Len(x) = n
  PROVE  \E f : Values(x, n, f) /\ Numeral(x) = f[n]
<1> DEFINE f == CHOOSE f : f = [k \in 0 .. Len(x) |->
                  IF k = 0 THEN 0 ELSE 10 * f[k - 1] + ValueOf(x[k])]
<1>1. \E g : Values(x, n, g)
  BY ValuesExist
<1>2. Values(x, n, f)
  BY <1>1 DEF Values
<1>3. Numeral(x) = f[Len(x)]
  BY Zenon DEF Numeral
<1> HIDE DEF f
<1>4. Numeral(x) = f[n]
  BY <1>3
<1> QED
  BY <1>2, <1>4

\* One more digit behind the others.
LEMMA NumeralMore ==
  ASSUME NEW y, NEW z, NEW n \in Nat, Len(y) = n, Len(z) = n + 1,
         \A k \in 1 .. n : z[k] = y[k], Numeral(y) \in Nat,
         NEW d \in 0 .. 9, ValueOf(z[n + 1]) = d
  PROVE  Numeral(z) = 10 * Numeral(y) + d
<1>0. n + 1 \in Nat
  OBVIOUS
<1>1. PICK f : Values(y, n, f) /\ Numeral(y) = f[n]
  BY NumeralIs
<1>2. PICK g : Values(z, n + 1, g) /\ Numeral(z) = g[n + 1]
  BY <1>0, NumeralIs
<1>3. \A k \in 1 .. n : f[k] = 10 * f[k - 1] + ValueOf(y[k])
  BY <1>1 DEF Values
<1>4. \A k \in 1 .. n + 1 : g[k] = 10 * g[k - 1] + ValueOf(z[k])
  BY <1>2 DEF Values
<1>5. f[0] = 0 /\ g[0] = 0
  BY <1>1, <1>2 DEF Values
<1> DEFINE S == {k \in Nat : k <= n => g[k] = f[k]}
<1>6. 0 \in S
  BY <1>5
<1>7. ASSUME NEW k \in Nat, k \in S PROVE k + 1 \in S
  <2> SUFFICES ASSUME k + 1 <= n PROVE g[k + 1] = f[k + 1]
    OBVIOUS
  <2>1. k + 1 \in 1 .. n /\ k + 1 \in 1 .. n + 1 /\ k + 1 - 1 = k
    OBVIOUS
  <2>2. g[k] = f[k] /\ z[k + 1] = y[k + 1]
    BY <1>7, <2>1
  <2>3. /\ f[k + 1] = 10 * f[k] + ValueOf(y[k + 1])
        /\ g[k + 1] = 10 * g[k] + ValueOf(z[k + 1])
    <3>1. /\ f[k + 1] = 10 * f[k + 1 - 1] + ValueOf(y[k + 1])
          /\ g[k + 1] = 10 * g[k + 1 - 1] + ValueOf(z[k + 1])
      BY <1>3, <1>4, <2>1
    <3> QED
      BY <2>1, <3>1
  <2> QED
    BY <2>2, <2>3
<1>8. n \in S
  <2> HIDE DEF S
  <2> QED
    BY <1>6, <1>7, AllNaturals
<1>9. g[n] = f[n]
  BY <1>8
<1>10. g[n + 1] = 10 * g[n] + ValueOf(z[n + 1])
  <2>1. n + 1 \in 1 .. n + 1 /\ n + 1 - 1 = n
    OBVIOUS
  <2> QED
    BY <1>4, <2>1
<1> QED
  BY <1>1, <1>2, <1>9, <1>10

LEMMA ValueOfDigit ==
  ASSUME NEW d \in 0 .. 9
  PROVE  /\ ValueOf(lookup[d + 1]) = d /\ lookup[d + 1] \in STRING
         /\ lookup[d + 1] # EndOfLine /\ (d # 0 => lookup[d + 1] # "0")
<1> DEFINE names == <<"0", "1", "2", "3", "4", "5", "6", "7", "8", "9">>
<1>1. ValueOf(lookup[d + 1]) = d
  <2>1. ASSUME NEW e \in 0 .. 9, names[e + 1] = names[d + 1] PROVE e = d
    BY <2>1
  <2> DEFINE c == names[d + 1]
             v == CHOOSE e \in 0 .. 9 : names[e + 1] = c
  <2>2. v \in 0 .. 9 /\ names[v + 1] = c
    <3> HIDE DEF names
    <3> QED
      OBVIOUS
  <2> HIDE DEF v, names
  <2>3. v = d
    BY <2>1, <2>2
  <2>4. ValueOf(c) = v
    BY DEF ValueOf, v, names
  <2> QED
    BY <2>3, <2>4 DEF lookup, names
<1>2. lookup[d + 1] \in STRING
  BY CharacterAssumption DEF lookup
<1>3. lookup[d + 1] # EndOfLine /\ (d # 0 => lookup[d + 1] # "0")
  BY DEF lookup, EndOfLine
<1> QED
  BY <1>1, <1>2, <1>3

\* x is a number backwards.
Backwards(x, n) ==
  /\ Text(x) /\ Text(strrev(x)) /\ Len(strrev(x)) = Len(x)
  /\ OneLine(strrev(x)) /\ Numeral(strrev(x)) = n
  /\ IF n = 0 THEN Len(x) = 0 ELSE Len(x) # 0 /\ strrev(x)[1] # "0"

LEMMA NothingBackwards == Backwards(<<>>, 0)
<1> DEFINE z == strrev(<<>>)
<1>1. z = <<>>
  BY DEF strrev
<1>2. <<>> \in Seq(STRING) /\ Len(<<>>) = 0
  OBVIOUS
<1> HIDE DEF z
<1>3. 0 \in Nat
  OBVIOUS
<1>4. PICK f : Values(z, 0, f) /\ Numeral(z) = f[0]
  <2>1. Len(z) = 0
    BY <1>1, <1>2, Zenon
  <2> QED
    BY <1>3, <2>1, NumeralIs
<1>5. f[0] = 0
  BY <1>4 DEF Values
<1>6. Text(<<>>) /\ Text(z) /\ Len(z) = 0 /\ OneLine(z)
  BY <1>1, <1>2 DEF Text, OneLine
<1> QED
  BY <1>1, <1>2, <1>4, <1>5, <1>6 DEF Backwards, z

Reversed(z, y) == z = strrev(y)
LEMMA StrrevIs ==
  ASSUME NEW x, Text(x)
  PROVE  \A z : Reversed(z, x) =>
           /\ Text(z) /\ Len(z) = Len(x)
           /\ \A k \in 1 .. Len(x) : z[k] = x[Len(x) + 1 - k]
<1> SUFFICES ASSUME NEW z, Reversed(z, x)
             PROVE  /\ Text(z) /\ Len(z) = Len(x)
                    /\ \A k \in 1 .. Len(x) : z[k] = x[Len(x) + 1 - k]
  OBVIOUS
<1>0. PICK n \in Nat : n = Len(x) /\ DOMAIN x = 1 .. n
  BY DEF Text
<1>1. z = [k \in 1 .. n |-> x[n + 1 - k]]
  BY <1>0 DEF Reversed, strrev
<1>2. \A k \in 1 .. n : n + 1 - k \in 1 .. n
  OBVIOUS
<1>3. \A k \in 1 .. n : x[n + 1 - k] \in STRING
  BY <1>0, <1>2 DEF Text
<1> QED
  BY <1>0, <1>1, <1>3 DEF Text

LEMMA JustOne ==
  ASSUME NEW A, NEW c \in A
  PROVE  Just(c) \in Seq(A) /\ Len(Just(c)) = 1 /\ Just(c)[1] = c
BY DEF Just

Before(y, c, x) == y = Glue(Just(c), x)
LEMMA StrrevMore ==
  ASSUME NEW x, Text(x), NEW c \in STRING, NEW y, Before(y, c, x)
  PROVE  \E n, z, w :
           /\ n \in Nat
           /\ Reversed(z, y) /\ Reversed(w, x)
           /\ Text(y) /\ Text(z) /\ Text(w) /\ Len(y) = n + 1
           /\ Len(x) = n /\ Len(w) = n /\ Len(z) = n + 1
           /\ \A k \in 1 .. n : z[k] = w[k]
           /\ z[n + 1] = c
<1>0. PICK n \in Nat : n = Len(x)
  BY DEF Text
<1>1. /\ Text(y) /\ Len(y) = n + 1 /\ y[1] = c
      /\ \A k \in 1 .. n : y[k + 1] = x[k]
  <2>1. PICK j : j = Just(c)
    OBVIOUS
  <2>2. j \in Seq(STRING) /\ Len(j) = 1 /\ j[1] = c
    <3>1. PICK A : A = STRING
      OBVIOUS
    <3>2. Just(c) \in Seq(A) /\ Len(Just(c)) = 1 /\ Just(c)[1] = c
      BY <3>1, JustOne
    <3> QED
      BY <2>1, <3>1, <3>2
  <2>3. IsRow(y, j, x)
    BY <2>1 DEF Before, Glue, IsRow
  <2>4. /\ y \in Seq(STRING) /\ Len(y) = Len(j) + Len(x)
        /\ \A k \in 1 .. Len(j) : y[k] = j[k]
        /\ \A k \in 1 .. Len(x) : y[Len(j) + k] = x[k]
    <3>1. PICK A : A = STRING /\ j \in Seq(A) /\ x \in Seq(A)
      BY <2>2 DEF Text
    <3>2. y \in Seq(A)
      BY <2>3, <3>1, RowOf
    <3>3. /\ Len(y) = Len(j) + Len(x)
          /\ \A k \in 1 .. Len(j) : y[k] = j[k]
          /\ \A k \in 1 .. Len(x) : y[Len(j) + k] = x[k]
      BY <2>3, <3>1, RowOf
    <3> QED
      BY <3>1, <3>2, <3>3
  <2>5. Text(y) /\ Len(y) = n + 1 /\ y[1] = c
    <3>1. 1 \in 1 .. Len(j)
      BY <2>2
    <3>2. y[1] = c
      BY <2>2, <2>4, <3>1
    <3>3. Len(y) = n + 1
      BY <1>0, <2>2, <2>4
    <3> QED
      BY <2>4, <3>2, <3>3 DEF Text
  <2>6. ASSUME NEW k \in 1 .. n PROVE y[k + 1] = x[k]
    <3>1. y[Len(j) + k] = x[k]
      BY <1>0, <2>4
    <3>2. Len(j) + k = k + 1
      BY <2>2
    <3> QED
      BY <3>1, <3>2
  <2> QED
    BY <2>5, <2>6
<1>2. PICK z, w : Reversed(z, y) /\ Reversed(w, x)
  BY DEF Reversed
<1>3. /\ Text(z) /\ Len(z) = n + 1
      /\ \A k \in 1 .. n + 1 : z[k] = y[n + 1 + 1 - k]
  BY <1>1, <1>2, StrrevIs
<1>4. /\ Text(w) /\ Len(w) = n /\ \A k \in 1 .. n : w[k] = x[n + 1 - k]
  BY <1>0, <1>2, StrrevIs
<1>5. ASSUME NEW k \in 1 .. n PROVE z[k] = w[k]
  <2>1. k \in 1 .. n + 1 /\ n + 1 - k \in 1 .. n
        /\ n + 1 + 1 - k = (n + 1 - k) + 1
    OBVIOUS
  <2>2. z[k] = y[n + 1 + 1 - k]
    BY <1>3, <2>1
  <2>3. z[k] = y[(n + 1 - k) + 1]
    BY <2>1, <2>2
  <2> QED
    BY <1>1, <1>4, <2>1, <2>3
<1>6. z[n + 1] = c
  <2>1. n + 1 \in 1 .. n + 1 /\ n + 1 + 1 - (n + 1) = 1
    OBVIOUS
  <2>2. z[n + 1] = y[n + 1 + 1 - (n + 1)]
    BY <1>3, <2>1
  <2> QED
    BY <1>1, <2>1, <2>2
<1> QED
  BY <1>0, <1>1, <1>2, <1>3, <1>4, <1>5, <1>6

LEMMA OneMoreDigit ==
  ASSUME NEW m \in Nat, NEW d \in 0 .. 9, m # 0 \/ d # 0,
         NEW x, Backwards(x, m),
         NEW y, Before(y, lookup[d + 1], x)
  PROVE  Backwards(y, (10 * m) + d)
<1> DEFINE c == lookup[d + 1]
<1>1. c \in STRING /\ ValueOf(c) = d /\ c # EndOfLine /\ (d # 0 => c # "0")
  BY ValueOfDigit
<1> HIDE DEF c
<1>2. Text(x) /\ Before(y, c, x)
  BY DEF Backwards, c
<1>3. PICK n, z, w :
           /\ n \in Nat
           /\ Reversed(z, y) /\ Reversed(w, x)
           /\ Text(y) /\ Text(z) /\ Text(w) /\ Len(y) = n + 1
           /\ Len(x) = n /\ Len(w) = n /\ Len(z) = n + 1
           /\ \A k \in 1 .. n : z[k] = w[k]
           /\ z[n + 1] = c
  BY <1>1, <1>2, StrrevMore
<1> n \in Nat
  BY <1>3
<1>4. OneLine(w) /\ Numeral(w) = m /\ (IF m = 0 THEN n = 0
                                            ELSE n # 0 /\ w[1] # "0")
  <2>1. w = strrev(x)
    BY <1>3 DEF Reversed
  <2> QED
    BY <1>3, <2>1 DEF Backwards
<1>5. OneLine(z)
  BY <1>1, <1>3, <1>4 DEF OneLine
<1>6. Numeral(z) = 10 * m + d
  BY <1>1, <1>3, <1>4, NumeralMore
<1>7. z[1] # "0"
  <2>1. CASE m # 0
    <3>1. 1 \in 1 .. n
      BY <1>4, <2>1
    <3> QED
      BY <1>3, <1>4, <2>1, <3>1
  <2>2. CASE m = 0
    BY <1>1, <1>3, <1>4, <2>2
  <2> QED
    BY <2>1, <2>2
<1>8. z = strrev(y)
  BY <1>3 DEF Reversed
<1> QED
  BY <1>3, <1>5, <1>6, <1>7, <1>8 DEF Backwards

LEMMA DigitsStand ==
  ASSUME NEW n \in Nat PROVE Backwards(Digits(n, 10), n)
<1>1. PICK f : Places(n, f) /\ Digits(n, 10) = f[n]
  BY DigitsArePlaces
<1> DEFINE S == {k \in Nat : \A j \in 0 .. k : j <= n => Backwards(f[j], j)}
<1>2. 0 \in S
  <2>1. f[0] = <<>>
    BY <1>1 DEF Places
  <2>2. Backwards(f[0], 0)
    BY <2>1, NothingBackwards
  <2>3. \A j \in 0 .. 0 : j = 0
    OBVIOUS
  <2> QED
    BY <2>2, <2>3
<1>3. ASSUME NEW k \in Nat, k \in S PROVE k + 1 \in S
  <2> DEFINE j == k + 1
  <2>1. CASE j <= n
    <3>1. PICK m, d : m = j \div 10 /\ d = j % 10
      OBVIOUS
    <3>2. /\ m \in 0 .. k /\ m \in Nat /\ d \in 0 .. 9 /\ m <= n
          /\ j = 10 * m + d /\ (m # 0 \/ d # 0)
      <4>1. j \in Nat /\ j > 0
        OBVIOUS
      <4>2. j = (10 * (j \div 10)) + (j % 10) /\ j \div 10 \in 0 .. j - 1
            /\ j % 10 \in 0 .. 9
        BY <4>1, Tenths
      <4> QED
        BY <2>1, <3>1, <4>1, <4>2
    <3>3. Backwards(f[m], m)
      BY <1>3, <3>2
    <3>4. f[j] = Glue(Just(lookup[d + 1]), f[m])
      <4>1. j \in 0 .. n /\ j > 0
        BY <2>1
      <4> HIDE DEF j
      <4> QED
        BY <1>1, <3>1, <4>1 DEF Places
    <3> HIDE DEF j
    <3>5. Before(f[j], lookup[d + 1], f[m])
      BY <3>4 DEF Before
    <3>6. Backwards(f[j], j)
      BY <3>2, <3>3, <3>5, OneMoreDigit
    <3>7. \A i \in 0 .. k + 1 : i \in 0 .. k \/ i = k + 1
      OBVIOUS
    <3> QED
      BY <1>3, <3>6, <3>7 DEF j
  <2>2. CASE ~(j <= n)
    <3>1. \A i \in 0 .. k + 1 : i <= n => i \in 0 .. k
      BY <2>2
    <3> QED
      BY <1>3, <3>1
  <2> QED
    BY <2>1, <2>2
<1>4. n \in S
  <2> HIDE DEF S
  <2> QED
    BY <1>2, <1>3, AllNaturals
<1>5. Backwards(f[n], n)
  BY <1>4
<1> QED
  BY <1>1, <1>5

\* itoa of counter gives, for every number, the decimal digits that stand for
\* it, the first of them not a zero.
THEOREM ItoaStands ==
  ASSUME NEW n \in Nat, n # 0
  PROVE  /\ Text(itoa(n, 10)) /\ OneLine(itoa(n, 10))
         /\ IsNumeralOf(itoa(n, 10), n)
<1>1. itoa(n, 10) = strrev(Digits(n, 10)) /\ Backwards(Digits(n, 10), n)
  BY DigitsStand DEF itoa
<1>2. PICK z : z = itoa(n, 10)
  OBVIOUS
<1>3. Text(z) /\ OneLine(z) /\ Numeral(z) = n /\ Len(z) # 0 /\ z[1] # "0"
  BY <1>1, <1>2 DEF Backwards
<1>4. z # <<>>
  BY <1>3
<1> QED
  BY <1>2, <1>3, <1>4 DEF IsNumeralOf

LEMMA NoLines == LinesOf(<<>>) = <<>> /\ Numbers(0) = <<>> /\ Text(<<>>)
<1>1. LinesOf(<<>>) = FirstOf(Starting(<<>>), 0)
  <2>1. Text(<<>>) /\ Len(<<>>) = 0
    BY DEF Text
  <2> QED
    BY <2>1, LinesFirst
<1>2. Numbers(0) = <<>>
  BY DEF Numbers
<1> QED
  BY <1>1, <1>2, FirstNone DEF Text

LEMMA OneMoreNumber ==
  ASSUME NEW i \in Nat, NEW x, Text(x), EndsLine(x), LinesOf(x) = Numbers(i),
         NEW t, Adds(t, x, itoa(i + 1, 10))
  PROVE  /\ Text(t) /\ EndsLine(t) /\ LinesOf(t) = Numbers(i + 1)
<1>0. i + 1 \in Nat /\ i + 1 # 0
  OBVIOUS
<1>1. PICK w : w = itoa(i + 1, 10)
  OBVIOUS
<1>2. Text(w) /\ OneLine(w)
  BY <1>0, <1>1, ItoaStands
<1>3. /\ Text(t) /\ EndsLine(t)
      /\ LinesOf(t) = LinesOf(x) \o Just(w)
  BY <1>1, <1>2, LineAdded
<1>4. Numbers(i + 1) = Numbers(i) \o Just(w)
  BY <1>1 DEF Numbers, Just
<1> QED
  BY <1>3, <1>4

LEMMA CountedShows ==
  ASSUME prog = "counter", Counted, loc.i = loc.max
  PROVE  ShowsAnswer
<1>1. PICK n, x : /\ n \in Nat /\ n = loc.max
                  /\ x = LinesOf(shown) /\ x = Numbers(n)
  BY DEF Counted
<1> n \in Nat
  BY <1>1
<1>2. Len(x) = n /\ \A k \in 1 .. n : x[k] = itoa(k, 10)
  <2>1. Len(Numbers(n)) = n /\ \A k \in 1 .. n : Numbers(n)[k] = itoa(k, 10)
    BY DEF Numbers
  <2> QED
    BY <1>1, <2>1
<1>3. \A k \in 1 .. n : IsNumeralOf(x[k], k)
  BY <1>2, ItoaStands
<1> QED
  BY <1>1, <1>2, <1>3 DEF ShowsAnswer

LEMMA CounterStep ==
  ASSUME SInv, CounterInv, UNCHANGED <<kernel, shell, prog>>, Counter
  PROVE  CounterInv'
<1>1. prog = "counter" /\ prog' = "counter"
  BY DEF Counter, CounterStart, CounterCount, At
<1>2. CASE CounterStart
  <2>1. shown = <<>> /\ loc = NoLocals
    BY <1>1, <1>2 DEF CounterStart, At, CounterInv, Begun
  <2>2. PICK reply \in Replies :
          \/ Fail("Wrong Choice!", 0)
          \/ /\ shown' = shown
             /\ \E max \in Nat : Go("count", [i |-> 0, max |-> max])
    BY <1>2, ProgramAssumption DEF CounterStart
  <2>3. CASE Fail("Wrong Choice!", 0)
    BY <2>1, <2>3 DEF Fail, Exit, CounterInv
  <2>4. ASSUME NEW max \in Nat, Go("count", [i |-> 0, max |-> max]),
               shown' = shown
        PROVE  CounterInv'
    <3>1. /\ pc' = "count" /\ loc' \in [i : Nat, max : Nat]
          /\ loc'.i = 0 /\ loc'.max = max /\ shown' = <<>>
      BY <2>1, <2>4 DEF Go
    <3>2. Counted'
      BY <3>1, NoLines DEF Counted, EndsLine
    <3> QED
      BY <3>1, <3>2 DEF CounterInv
  <2> QED
    BY <2>2, <2>3, <2>4
<1>3. CASE CounterCount
  <2>1. Counted
    BY <1>1, <1>3 DEF CounterCount, At, CounterInv
  <2>2. CASE loc.i < loc.max
    <3>1. PICK i, w : i \in Nat /\ i = loc.i /\ w = itoa(i + 1, 10)
      BY <2>1 DEF Counted
    <3> i \in Nat
      BY <3>1
    <3>2. /\ shown' = shown \o Append(w, NEWLINE)
          /\ pc' = "count" /\ loc' = [loc EXCEPT !.i = @ + 1]
      BY <1>3, <2>2, <3>1 DEF CounterCount, Say, Go
    <3>3. i + 1 \in Nat /\ i + 1 # 0
      OBVIOUS
    <3>4. Text(w)
      BY <3>1, <3>3, ItoaStands
    <3>5. Append(w, NEWLINE) = w \o <<EndOfLine>>
      BY <3>4 DEF Text, NEWLINE, EndOfLine
    <3>6. Adds(shown', shown, w)
      BY <3>2, <3>5, Zenon DEF Adds
    <3>7. Text(shown) /\ EndsLine(shown) /\ LinesOf(shown) = Numbers(i)
      BY <2>1, <3>1 DEF Counted
    <3>8. PICK t : t = shown'
      OBVIOUS
    <3>9. Text(t) /\ EndsLine(t) /\ LinesOf(t) = Numbers(i + 1)
      BY <3>1, <3>6, <3>7, <3>8, OneMoreNumber
    <3>10. /\ loc' \in [i : Nat, max : Nat]
           /\ loc'.i = i + 1 /\ loc'.i <= loc'.max
      BY <2>1, <2>2, <3>1, <3>2 DEF Counted
    <3>11. Counted'
      BY <3>3, <3>8, <3>9, <3>10 DEF Counted
    <3> QED
      BY <3>2, <3>11 DEF CounterInv
  <2>3. CASE ~(loc.i < loc.max)
    <3>1. /\ shown' = shown /\ pc' = "exit" /\ loc' = loc
      BY <1>3, <2>3 DEF CounterCount, Exit
    <3>2. Counted' /\ loc'.i = loc'.max
      BY <2>1, <2>3, <3>1 DEF Counted
    <3> QED
      BY <3>1, <3>2 DEF CounterInv
  <2> QED
    BY <2>2, <2>3
<1> QED
  BY <1>2, <1>3 DEF Counter

(***************************************************************************)
(* grep: the lines in its buffer.                                          *)
(***************************************************************************)
Buffer(data) == data \in [0 .. BUFSIZE -> STRING]

\* The parts of do_lines.
StartsIn(data, last) ==
  {0} \cup {i + 1 : i \in {j \in 0 .. last - 2 : data[j] = NEWLINE}}
EndIn(data, last, p) ==
  Min({i \in p .. last - 1 : data[i] = NEWLINE} \cup {last})
CutIn(data, last) ==
  [i \in DOMAIN data |->
     IF \E p \in StartsIn(data, last) : i = EndIn(data, last, p)
       THEN NUL ELSE data[i]]
LastIn(data, last) == Max(StartsIn(data, last))
Unfinished(data, last, cnt) ==
  /\ data[EndIn(data, last, LastIn(data, last))] # NEWLINE
  /\ cnt # 0 /\ LastIn(data, last) # 0
FoundIn(data, last, cnt, s, p) ==
  /\ p \in StartsIn(data, last)
  /\ Matches(CutIn(data, last), p, EndIn(data, last, p), s)
  /\ ~(Unfinished(data, last, cnt) /\ p = LastIn(data, last))
Printed(data, last, cnt, s) ==
  [k \in 1 .. last + 1 |-> IF FoundIn(data, last, cnt, s, k - 1)
                             THEN <<CString(CutIn(data, last), k - 1)>>
                           ELSE <<>>]

LEMMA LinesDone ==
  ASSUME NEW data, NEW last, NEW cnt, NEW s
  PROVE  /\ do_lines(data, last, cnt, s).data =
              IF Unfinished(data, last, cnt)
                THEN Shifted(CutIn(data, last), LastIn(data, last))
              ELSE CutIn(data, last)
         /\ do_lines(data, last, cnt, s).last =
              IF Unfinished(data, last, cnt) THEN last - LastIn(data, last)
              ELSE 0
         /\ do_lines(data, last, cnt, s).lines =
              FlattenSeq(Printed(data, last, cnt, s))
BY Zenon DEF do_lines, Printed, FoundIn, Unfinished, LastIn, CutIn, EndIn,
         StartsIn

LEMMA StartsAre ==
  ASSUME NEW data, NEW last \in Nat, NEW p
  PROVE  /\ p \in StartsIn(data, last)
              <=> p = 0 \/ (p \in 1 .. last - 1 /\ data[p - 1] = NEWLINE)
         /\ p \in StartsIn(data, last) => p \in 0 .. last /\ p \in Nat
<1>1. ASSUME p \in StartsIn(data, last), p # 0
      PROVE  p \in 1 .. last - 1 /\ data[p - 1] = NEWLINE
  <2>1. PICK i \in 0 .. last - 2 : data[i] = NEWLINE /\ p = i + 1
    BY <1>1 DEF StartsIn
  <2> QED
    BY <2>1
<1>2. ASSUME p \in 1 .. last - 1, data[p - 1] = NEWLINE
      PROVE  p \in StartsIn(data, last)
  <2>1. p - 1 \in 0 .. last - 2 /\ p = (p - 1) + 1
    BY <1>2
  <2> QED
    BY <1>2, <2>1 DEF StartsIn
<1>3. 0 \in StartsIn(data, last)
  BY DEF StartsIn
<1> QED
  BY <1>1, <1>2, <1>3

LEMMA EndsIn ==
  ASSUME NEW data, NEW last \in Nat, NEW p \in 0 .. last
  PROVE  /\ EndIn(data, last, p) \in p .. last
         /\ EndIn(data, last, p) \in Nat
         /\ EndIn(data, last, p) = last
              \/ data[EndIn(data, last, p)] = NEWLINE
         /\ \A i \in p .. EndIn(data, last, p) - 1 : data[i] # NEWLINE
<1> DEFINE S == {i \in p .. last - 1 : data[i] = NEWLINE} \cup {last}
           e == EndIn(data, last, p)
<1>1. S # {} /\ S \subseteq Nat
  OBVIOUS
<1>2. e = Min(S)
  BY DEF EndIn
<1> HIDE DEF e
<1>3. e \in S /\ \A q \in S : e <= q
  <2> HIDE DEF S
  <2> QED
    BY <1>1, <1>2, MinIsLeast
<1>4. e \in p .. last /\ (e = last \/ data[e] = NEWLINE)
  BY <1>3
<1>5. ASSUME NEW q \in p .. e - 1 PROVE data[q] # NEWLINE
  <2> SUFFICES ASSUME data[q] = NEWLINE PROVE FALSE
    OBVIOUS
  <2>1. q \in S
    BY <1>4
  <2> QED
    BY <1>3, <1>4, <2>1
<1> QED
  BY <1>4, <1>5 DEF e

\* The line from p ends at e, at a newline or where the buffer does.
EndsHere(data, last, p, e) ==
  /\ e \in Nat /\ p <= e /\ e <= last /\ e \in p .. last
  /\ e # last => data[e] = NEWLINE /\ e \in 0 .. last - 1
  /\ \A i \in p .. e - 1 : data[i] # NEWLINE /\ i \in 0 .. last - 1

LEMMA EndIs ==
  ASSUME NEW data, NEW last \in Nat, NEW p \in 0 .. last,
         NEW e, e = EndIn(data, last, p)
  PROVE  EndsHere(data, last, p, e)
<1>1. e \in p .. last
  BY EndsIn
<1>2. e # last => data[e] = NEWLINE
  BY EndsIn
<1>3. \A i \in p .. e - 1 : data[i] # NEWLINE
  BY EndsIn
<1> QED
  BY <1>1, <1>2, <1>3 DEF EndsHere

LEMMA LastStart ==
  ASSUME NEW data, NEW last \in Nat
  PROVE  /\ LastIn(data, last) \in StartsIn(data, last)
         /\ \A p \in StartsIn(data, last) : LastIn(data, last) >= p
<1>1. StartsIn(data, last) \subseteq 0 .. last
  BY StartsAre
<1>2. StartsIn(data, last) # {}
  BY StartsAre
<1> QED
  BY <1>1, <1>2, MaxIsGreatest DEF LastIn

\* Cut at its newlines, the buffer holds a string from every start.
LEMMA CutBuffer ==
  ASSUME NEW data, Buffer(data), NEW last \in 0 .. BUFSIZE
  PROVE  /\ Buffer(CutIn(data, last))
         /\ data[BUFSIZE] = NUL => CutIn(data, last)[BUFSIZE] = NUL
<1>1. DOMAIN data = 0 .. BUFSIZE /\ BUFSIZE \in 0 .. BUFSIZE
  BY SomeSizes DEF Buffer
<1>2. NUL \in STRING
  BY CharacterAssumption
<1>3. \A i \in 0 .. BUFSIZE : data[i] \in STRING
  BY DEF Buffer
<1> QED
  BY <1>1, <1>2, <1>3 DEF CutIn, Buffer

LEMMA CutAtEnds ==
  ASSUME NEW data, Buffer(data), NEW last \in 0 .. BUFSIZE,
         NEW p \in StartsIn(data, last), NEW e, e = EndIn(data, last, p)
  PROVE  /\ CutIn(data, last)[e] = NUL
         /\ \A i \in p .. e - 1 : CutIn(data, last)[i] = data[i]
<1>1. /\ last \in Nat /\ p \in 0 .. last /\ BUFSIZE \in Nat
      /\ DOMAIN data = 0 .. BUFSIZE
  BY StartsAre, SomeSizes DEF Buffer
<1>2. /\ e \in p .. last /\ e \in 0 .. BUFSIZE
      /\ \A i \in p .. e - 1 : data[i] # NEWLINE
  <2>1. e \in p .. last /\ \A i \in p .. e - 1 : data[i] # NEWLINE
    BY <1>1, EndsIn
  <2> QED
    BY <1>1, <2>1
<1>3. CutIn(data, last)[e] = NUL
  BY <1>1, <1>2 DEF CutIn
<1>4. ASSUME NEW i \in p .. e - 1 PROVE CutIn(data, last)[i] = data[i]
  <2>1. i \in 0 .. BUFSIZE /\ data[i] # NEWLINE /\ i # last
    BY <1>1, <1>2
  <2>2. ASSUME NEW q \in StartsIn(data, last), i = EndIn(data, last, q)
        PROVE  FALSE
    <3>1. q \in 0 .. last
      BY <1>1, StartsAre
    <3> QED
      BY <1>1, <2>1, <2>2, <3>1, EndsIn
  <2> QED
    BY <1>1, <2>1, <2>2 DEF CutIn
<1> QED
  BY <1>3, <1>4

\* A string ends before the first NUL behind its start.
IsString(z, b, p) == z = CString(b, p)
Spans(z, b, p, m) ==
  /\ m \in Nat /\ p <= m /\ m <= BUFSIZE /\ Text(z) /\ Len(z) = m - p
  /\ \A k \in 1 .. m - p : z[k] = b[p + k - 1]

LEMMA StringFrom ==
  ASSUME NEW b, Buffer(b), NEW p \in Nat, NEW e \in Nat, p <= e, e <= BUFSIZE,
         b[e] = NUL, NEW z, IsString(z, b, p)
  PROVE  \E m \in p .. e :
           /\ Spans(z, b, p, m) /\ b[m] = NUL
           /\ \A i \in p .. m - 1 : b[i] # NUL
<1> DEFINE S == {i \in DOMAIN b : i >= p /\ b[i] = NUL}
<1>0. BUFSIZE \in Nat /\ DOMAIN b = 0 .. BUFSIZE
      /\ \A i \in 0 .. BUFSIZE : b[i] \in STRING
  BY SomeSizes DEF Buffer
<1>1. e \in S /\ S \subseteq Nat
  BY <1>0
<1>2. PICK m : m = Min(S)
  OBVIOUS
<1>3. m \in S /\ \A q \in S : m <= q
  <2> HIDE DEF S
  <2> QED
    BY <1>1, <1>2, MinIsLeast
<1>4. z = [k \in 1 .. m - p |-> b[p + k - 1]]
  BY <1>2 DEF IsString, CString
<1>5. m \in p .. e /\ b[m] = NUL
  BY <1>0, <1>1, <1>3
<1>6. ASSUME NEW i \in p .. m - 1 PROVE b[i] # NUL
  <2>1. i \in 0 .. BUFSIZE /\ i >= p /\ ~(m <= i)
    BY <1>0, <1>5
  <2> QED
    BY <1>0, <1>3, <2>1
<1>7. Text(z) /\ Len(z) = m - p
  <2>1. m - p \in Nat
    BY <1>5
  <2>2. \A k \in 1 .. m - p : b[p + k - 1] \in STRING
    <3>1. \A k \in 1 .. m - p : p + k - 1 \in 0 .. BUFSIZE
      BY <1>0, <1>5
    <3> QED
      BY <1>0, <3>1
  <2> QED
    BY <1>4, <2>1, <2>2 DEF Text
<1>8. \A k \in 1 .. m - p : z[k] = b[p + k - 1]
  BY <1>4
<1> QED
  BY <1>0, <1>5, <1>6, <1>7, <1>8 DEF Spans

\* What is printed is one line.
LEMMA PrintsLines ==
  ASSUME NEW data, Buffer(data), NEW last \in 0 .. BUFSIZE,
         NEW p \in StartsIn(data, last),
         NEW z, IsString(z, CutIn(data, last), p)
  PROVE  Text(z) /\ OneLine(z)
<1>1. PICK b, e : b = CutIn(data, last) /\ e = EndIn(data, last, p)
  OBVIOUS
<1>2. /\ last \in Nat /\ p \in Nat /\ p \in 0 .. last
  BY StartsAre, SomeSizes
<1>3. /\ e \in p .. last /\ \A i \in p .. e - 1 : data[i] # NEWLINE
  BY <1>1, <1>2, EndsIn
<1>4. /\ b[e] = NUL /\ \A i \in p .. e - 1 : b[i] = data[i]
  BY <1>1, CutAtEnds
<1>5. Buffer(b)
  BY <1>1, CutBuffer
<1>6. e \in Nat /\ p <= e /\ e <= BUFSIZE
  BY <1>2, <1>3, SomeSizes
<1>7. PICK m \in p .. e : Spans(z, b, p, m)
  BY <1>1, <1>2, <1>4, <1>5, <1>6, StringFrom
<1>8. ASSUME NEW k \in 1 .. Len(z) PROVE z[k] # EndOfLine
  <2>1. k \in 1 .. m - p /\ p + k - 1 \in p .. e - 1
    BY <1>2, <1>6, <1>7 DEF Spans
  <2>2. z[k] = data[p + k - 1]
    BY <1>4, <1>7, <2>1 DEF Spans
  <2> QED
    BY <1>3, <2>1, <2>2 DEF EndOfLine, NEWLINE
<1> QED
  BY <1>7, <1>8 DEF Spans, OneLine

\* The comparison finds what the line contains.
LEMMA MatchIs ==
  ASSUME NEW b, NEW p \in Nat, NEW e \in Nat, NEW z, Spans(z, b, p, e),
         NEW s, Text(s), s # <<>>
  PROVE  Matches(b, p, e, s) <=> HasIn(s, z)
<1>1. PICK n \in Nat : n = Len(s) /\ n # 0
  BY DEF Text
<1>2. /\ z \in Seq(STRING) /\ Len(z) = e - p /\ p <= e
      /\ \A k \in 1 .. e - p : z[k] = b[p + k - 1]
  BY DEF Spans, Text
<1>3. ASSUME NEW k \in 0 .. e - p - n
      PROVE  SubSeq(z, k + 1, k + n) = s
               <=> \A j \in 1 .. n : b[p + k + j - 1] = s[j]
  <2>1. PICK y : y = SubSeq(z, k + 1, k + n)
    OBVIOUS
  <2>2. /\ y \in Seq(STRING) /\ Len(y) = n
        /\ \A j \in 1 .. n : y[j] = z[k + j]
    <3>1. PICK q \in Nat : q = k + n /\ q <= Len(z) /\ k + 1 <= q + 1
      BY <1>2
    <3>2. y = SubSeq(z, k + 1, q)
      BY <2>1, <3>1
    <3>3. y \in Seq(STRING)
      BY <1>2, <3>1, <3>2
    <3>4. Len(y) = n
      <4>1. PICK A, m : /\ A = STRING /\ m = k + 1
                        /\ m \in Nat \ {0} /\ q \in 0 .. Len(z)
        BY <1>2, <3>1
      <4>2. Len(SubSeq(z, m, q)) = IF m <= q THEN q + 1 - m ELSE 0
        BY <1>2, <4>1, PartType
      <4>3. y = SubSeq(z, m, q) /\ m <= q /\ q + 1 - m = n
        BY <1>1, <3>1, <3>2, <4>1
      <4> QED
        BY <4>2, <4>3
    <3>5. ASSUME NEW j \in 1 .. n PROVE y[j] = z[k + j]
      BY <1>2, <3>1, <3>2
    <3> QED
      BY <3>3, <3>4, <3>5
  <2>3. \A j \in 1 .. n : z[k + j] = b[p + k + j - 1]
    <3> SUFFICES ASSUME NEW j \in 1 .. n PROVE z[k + j] = b[p + k + j - 1]
      OBVIOUS
    <3>1. k + j \in 1 .. e - p /\ p + (k + j) - 1 = p + k + j - 1
      BY <1>2
    <3> QED
      BY <1>2, <3>1
  <2>4. y = s <=> \A j \in 1 .. n : y[j] = s[j]
    <3>1. ASSUME \A j \in 1 .. n : y[j] = s[j] PROVE y = s
      BY <1>1, <2>2, <3>1, SameSequence DEF Text
    <3> QED
      BY <3>1
  <2> QED
    BY <2>1, <2>2, <2>3, <2>4
<1>4. ASSUME HasIn(s, z) PROVE Matches(b, p, e, s)
  <2>1. PICK k \in 0 .. e - p - n : SubSeq(z, k + 1, k + n) = s
    BY <1>1, <1>2, <1>4, Zenon DEF HasIn
  <2>2. \A j \in 1 .. n : b[p + k + j - 1] = s[j]
    BY <1>3, <2>1
  <2>3. p + k \in p .. e - 1 /\ p + k + n <= e
    BY <1>1, <1>2
  <2> QED
    BY <1>1, <2>2, <2>3 DEF Matches
<1>5. ASSUME Matches(b, p, e, s) PROVE HasIn(s, z)
  <2>1. PICK check \in p .. e - 1 :
          check + n <= e /\ \A j \in 1 .. n : b[check + j - 1] = s[j]
    BY <1>1, <1>5 DEF Matches
  <2>2. PICK k \in 0 .. e - p - n : check = p + k
    <3>1. check - p \in 0 .. e - p - n /\ check = p + (check - p)
      BY <1>2, <2>1
    <3> QED
      BY <3>1
  <2>3. SubSeq(z, k + 1, k + n) = s
    BY <1>3, <2>1, <2>2
  <2> QED
    BY <1>1, <1>2, <2>3, Zenon DEF HasIn
<1> QED
  BY <1>4, <1>5

\* The buffer has last characters of the text t, those behind the first c.
Holds(data, last, t, c) ==
  /\ Buffer(data) /\ last \in 0 .. BUFSIZE /\ data[BUFSIZE] = NUL
  /\ Text(t) /\ \A k \in 1 .. Len(t) : t[k] # NUL
  /\ c \in Nat /\ c + last <= Len(t)
  /\ \A k \in 0 .. last - 1 : data[k] = t[c + k + 1]

LEMMA HoldsTypes ==
  ASSUME NEW data, NEW last, NEW t, NEW c, Holds(data, last, t, c)
  PROVE  /\ last \in Nat /\ c \in Nat /\ Len(t) \in Nat /\ BUFSIZE \in Nat
         /\ last <= BUFSIZE /\ c + last <= Len(t)
         /\ Buffer(data) /\ Text(t) /\ last \in 0 .. BUFSIZE
         /\ \A k \in 0 .. last - 1 : data[k] = t[c + k + 1]
BY SomeSizes DEF Holds, Text

\* A line in the buffer ends where the line of the text does.
LEMMA EndsThere ==
  ASSUME NEW data, NEW last, NEW t, NEW c, Holds(data, last, t, c),
         NEW p \in StartsIn(data, last), NEW e, e = EndIn(data, last, p),
         e = last => c + last = Len(t) \/ t[c + last + 1] = EndOfLine,
         NEW q, q = c + p + 1, NEW d, d = c + e + 1
  PROVE  EndsAt(t, q, d)
<1>0. /\ last \in Nat /\ c \in Nat /\ Len(t) \in Nat
      /\ c + last <= Len(t) /\ \A k \in 0 .. last - 1 : data[k] = t[c + k + 1]
  BY HoldsTypes
<1>1. p \in 0 .. last
  BY <1>0, StartsAre
<1>2. /\ e \in p .. last
      /\ e # last => data[e] = NEWLINE /\ e \in 0 .. last - 1
      /\ \A i \in p .. e - 1 : data[i] # NEWLINE /\ i \in 0 .. last - 1
  <2>1. EndsHere(data, last, p, e)
    BY <1>0, <1>1, EndIs
  <2> QED
    BY <2>1 DEF EndsHere
<1>3. d \in q .. Len(t) + 1 /\ q \in Nat
  BY <1>0, <1>1, <1>2
<1>4. d = Len(t) + 1 \/ t[d] = EndOfLine
  <2>1. CASE e = last
    BY <1>0, <2>1
  <2>2. CASE e # last
    <3>1. data[e] = NEWLINE /\ data[e] = t[d]
      BY <1>0, <1>2, <2>2
    <3> QED
      BY <3>1 DEF EndOfLine, NEWLINE
  <2> QED
    BY <2>1, <2>2
<1>5. ASSUME NEW x \in q .. d - 1 PROVE t[x] # EndOfLine
  <2>1. PICK i \in p .. e - 1 : x = c + i + 1
    <3>1. x - c - 1 \in p .. e - 1 /\ x = c + (x - c - 1) + 1
      BY <1>0, <1>1, <1>2
    <3> QED
      BY <3>1
  <2>2. data[i] # NEWLINE /\ data[i] = t[x]
    BY <1>0, <1>2, <2>1
  <2> QED
    BY <2>2 DEF EndOfLine, NEWLINE
<1> QED
  BY <1>3, <1>4, <1>5 DEF EndsAt

\* No NUL is in the text, so the strings of the buffer end at its newlines.
LEMMA StringEnds ==
  ASSUME NEW data, NEW last, NEW t, NEW c, Holds(data, last, t, c),
         NEW p \in StartsIn(data, last), NEW e, e = EndIn(data, last, p),
         NEW b, b = CutIn(data, last), NEW z, IsString(z, b, p)
  PROVE  /\ Spans(z, b, p, e) /\ \A k \in 1 .. e - p : z[k] = t[c + p + k]
         /\ p \in Nat /\ e \in Nat /\ p <= e /\ e <= last
<1>0. /\ last \in Nat /\ c \in Nat /\ Len(t) \in Nat /\ BUFSIZE \in Nat
      /\ last <= BUFSIZE /\ Buffer(data) /\ last \in 0 .. BUFSIZE
      /\ c + last <= Len(t) /\ \A k \in 0 .. last - 1 : data[k] = t[c + k + 1]
  BY HoldsTypes
<1>1. p \in 0 .. last /\ p \in Nat
  BY <1>0, StartsAre
<1>2. e \in p .. last
  BY <1>0, <1>1, EndsIn
<1>3. e \in Nat /\ p <= e /\ e <= BUFSIZE /\ e <= last
  BY <1>0, <1>1, <1>2
<1>4. b[e] = NUL /\ \A i \in p .. e - 1 : b[i] = data[i]
  BY <1>0, CutAtEnds
<1>5. Buffer(b)
  BY <1>0, CutBuffer
<1>6. PICK m \in p .. e : Spans(z, b, p, m) /\ b[m] = NUL
  BY <1>1, <1>3, <1>4, <1>5, StringFrom
<1>7. ASSUME NEW i \in p .. e - 1
      PROVE  b[i] = t[c + i + 1] /\ b[i] # NUL
  <2>1. i \in 0 .. last - 1 /\ c + i + 1 \in 1 .. Len(t)
    BY <1>0, <1>1, <1>2
  <2> QED
    BY <1>0, <1>4, <2>1 DEF Holds
<1>8. m = e
  <2> SUFFICES ASSUME m # e PROVE FALSE
    OBVIOUS
  <2>1. m \in p .. e - 1
    BY <1>1, <1>3
  <2> QED
    BY <1>6, <1>7, <2>1
<1>9. ASSUME NEW k \in 1 .. e - p PROVE z[k] = t[c + p + k]
  <2>1. PICK i \in p .. e - 1 : i = p + k - 1 /\ c + i + 1 = c + p + k
    BY <1>0, <1>1, <1>3
  <2>2. z[k] = b[p + k - 1]
    BY <1>6, <1>8 DEF Spans
  <2> QED
    BY <1>7, <2>1, <2>2
<1> QED
  BY <1>1, <1>3, <1>6, <1>8, <1>9

LEMMA StringIsLine ==
  ASSUME NEW data, NEW last, NEW t, NEW c, Holds(data, last, t, c),
         NEW p \in StartsIn(data, last), NEW e, e = EndIn(data, last, p),
         NEW b, b = CutIn(data, last), NEW z, IsString(z, b, p),
         NEW q \in 1 .. Len(t), q = c + p + 1, EndsAt(t, q, c + e + 1)
  PROVE  z = LineAt(t, q)
<1>0. c \in Nat /\ Len(t) \in Nat /\ Text(t)
  BY HoldsTypes
<1>1. /\ Spans(z, b, p, e) /\ \A k \in 1 .. e - p : z[k] = t[c + p + k]
      /\ p \in Nat /\ e \in Nat /\ p <= e
  BY StringEnds
<1>2. PICK d \in Nat : /\ d = c + e + 1 /\ EndsAt(t, q, d)
                       /\ d - q = e - p /\ (d - 1) + 1 - q = e - p
  BY <1>0, <1>1
<1>3. PICK y : y = LineAt(t, q)
  OBVIOUS
<1>4. y = Part(t, q, d - 1)
  BY <1>0, <1>2, <1>3, LineIs
<1>5. Text(y) /\ Len(y) = e - p
  BY <1>0, <1>2, <1>4, PartIsText
<1>6. ASSUME NEW k \in 1 .. e - p PROVE y[k] = t[c + p + k]
  <2>1. q \in Nat \ {0} /\ d - 1 \in 0 .. Len(t)
        /\ k \in 1 .. (d - 1) + 1 - q /\ q + k - 1 = c + p + k
    <3>1. d \in q .. Len(t) + 1
      BY <1>2 DEF EndsAt
    <3>2. q + k - 1 = c + p + k
      BY <1>0, <1>1
    <3>3. k \in 1 .. (d - 1) + 1 - q
      BY <1>2
    <3>4. d - 1 \in 0 .. Len(t) /\ q \in Nat \ {0}
      BY <1>0, <3>1
    <3> QED
      BY <3>2, <3>3, <3>4, Zenon
  <2>2. SubSeq(t, q, d - 1)[k] = t[q + k - 1]
    BY <1>0, <2>1, PartType DEF Text
  <2> QED
    BY <1>4, <2>1, <2>2 DEF Part
<1>7. Text(z) /\ Len(z) = e - p
  BY <1>1 DEF Spans
<1>8. \A k \in 1 .. Len(z) : z[k] = y[k]
  BY <1>1, <1>6, <1>7
<1>9. z = y
  BY <1>5, <1>7, <1>8, SameSequence DEF Text
<1> QED
  BY <1>3, <1>9

\* What do_lines takes for the end of a line is one: a line as long as the
\* buffer is as long as a line may be.
LEMMA LastIsWhole ==
  ASSUME NEW data, NEW last, NEW t, NEW c, Holds(data, last, t, c),
         Between(t, c), IsText(t), BUFSIZE # 0, NEW cnt,
         cnt = 0 => c + last = Len(t), last = BUFSIZE \/ c + last = Len(t),
         ~Unfinished(data, last, cnt), NEW p \in StartsIn(data, last),
         EndIn(data, last, p) = last
  PROVE  c + last = Len(t) \/ t[c + last + 1] = EndOfLine
<1> SUFFICES ASSUME c + last # Len(t) PROVE t[c + last + 1] = EndOfLine
  OBVIOUS
<1>0. /\ last \in Nat /\ c \in Nat /\ Len(t) \in Nat /\ BUFSIZE \in Nat
      /\ c + last <= Len(t) /\ Text(t)
      /\ \A k \in 0 .. last - 1 : data[k] = t[c + k + 1]
  BY HoldsTypes
<1>1. last = BUFSIZE /\ cnt # 0 /\ c + last < Len(t) /\ 0 < last
  BY <1>0
<1>2. PICK l : l = LastIn(data, last)
  OBVIOUS
<1>3. l \in StartsIn(data, last) /\ l >= p
  BY <1>0, <1>2, LastStart
<1>4. p \in 0 .. last /\ l \in 0 .. last
  BY <1>0, <1>3, StartsAre
<1>5. \A i \in p .. last - 1 : data[i] # NEWLINE
  <2>1. EndsHere(data, last, p, last)
    BY <1>0, <1>4, EndIs
  <2> QED
    BY <2>1 DEF EndsHere
<1>6. l = p
  <2> SUFFICES ASSUME l # p PROVE FALSE
    OBVIOUS
  <2>1. l # 0
    BY <1>3, <1>4
  <2>2. l \in 1 .. last - 1 /\ data[l - 1] = NEWLINE
    BY <1>0, <1>3, <2>1, StartsAre
  <2>3. l - 1 \in p .. last - 1
    BY <1>0, <1>3, <1>4, <2>1, <2>2
  <2> QED
    BY <1>5, <2>2, <2>3
<1>7. p = 0
  <2>1. data[last] # NEWLINE
    BY <1>1 DEF Holds, NUL, NEWLINE
  <2> QED
    BY <1>1, <1>2, <1>6, <2>1 DEF Unfinished
<1>8. ASSUME NEW q \in c + 1 .. c + last PROVE t[q] # EndOfLine
  <2>1. PICK i \in 0 .. last - 1 : q = c + i + 1
    <3>1. q - c - 1 \in 0 .. last - 1 /\ q = c + (q - c - 1) + 1
      BY <1>0
    <3> QED
      BY <3>1
  <2>2. data[i] # NEWLINE /\ data[i] = t[q]
    BY <1>0, <1>5, <1>7, <2>1
  <2> QED
    BY <2>2 DEF EndOfLine, NEWLINE
<1>9. c + 1 \in LineStarts(t) /\ c + 1 \in 1 .. Len(t)
  <2>1. t[c + 1] # EndOfLine /\ c # Len(t)
    <3>1. c + 1 \in c + 1 .. c + last
      BY <1>0, <1>1
    <3> QED
      BY <1>0, <1>1, <1>8, <3>1
  <2>2. c = 0 \/ t[c] = EndOfLine
    BY <2>1 DEF Between
  <2>3. PICK q \in 1 .. Len(t) : q = c + 1 /\ q - 1 = c /\ (c = 0 => q = 1)
    BY <1>0, <1>1
  <2>4. q \in LineStarts(t)
    BY <2>2, <2>3 DEF LineStarts
  <2> QED
    BY <2>3, <2>4
<1>10. PICK d \in Nat :
         /\ EndsAt(t, c + 1, d)
         /\ LineAt(t, c + 1) = Part(t, c + 1, d - 1)
  BY <1>0, <1>9, LineEnds
<1>11. d - (c + 1) <= BUFSIZE
  <2>1. Len(Part(t, c + 1, d - 1)) = d - (c + 1)
    BY <1>0, <1>9, <1>10, PartIsText
  <2>2. Len(LineAt(t, c + 1)) <= LongestLine
    BY <1>9 DEF IsText
  <2> QED
    BY <1>10, <2>1, <2>2, ProgramAssumption
<1>12. d \in c + 1 .. Len(t) + 1 /\ (d = Len(t) + 1 \/ t[d] = EndOfLine)
  BY <1>10 DEF EndsAt
<1>13. d = c + last + 1
  <2> SUFFICES ASSUME d # c + last + 1 PROVE FALSE
    OBVIOUS
  <2>1. d \in c + 1 .. c + last /\ d # Len(t) + 1
    BY <1>0, <1>1, <1>11, <1>12
  <2> QED
    BY <1>8, <1>12, <2>1
<1> QED
  BY <1>0, <1>1, <1>12, <1>13

\* What is left to be searched begins at a line.
LEMMA NextIsStart ==
  ASSUME NEW data, NEW last, NEW t, NEW c, Holds(data, last, t, c),
         Between(t, c), IsText(t), BUFSIZE # 0, NEW cnt,
         cnt = 0 => c + last = Len(t), last = BUFSIZE \/ c + last = Len(t),
         NEW u, u = (IF Unfinished(data, last, cnt) THEN LastIn(data, last)
                     ELSE last)
  PROVE  /\ u \in 0 .. last /\ Between(t, c + u)
         /\ Unfinished(data, last, cnt) =>
              u \in 1 .. last - 1 /\ EndIn(data, last, u) = last
<1>0. /\ last \in Nat /\ c \in Nat /\ Len(t) \in Nat
      /\ c + last <= Len(t) /\ Text(t)
      /\ \A k \in 0 .. last - 1 : data[k] = t[c + k + 1]
  BY HoldsTypes
<1>1. PICK l : l = LastIn(data, last)
  OBVIOUS
<1>2. l \in StartsIn(data, last) /\ \A p \in StartsIn(data, last) : l >= p
  BY <1>0, <1>1, LastStart
<1>3. l \in 0 .. last
  BY <1>0, <1>2, StartsAre
<1>4. PICK e : e = EndIn(data, last, l)
  OBVIOUS
<1>5. EndsHere(data, last, l, e)
  BY <1>0, <1>3, <1>4, EndIs
<1>6. CASE Unfinished(data, last, cnt)
  <2>1. u = l /\ l # 0 /\ data[e] # NEWLINE
    BY <1>1, <1>4, <1>6 DEF Unfinished
  <2>2. e = last
    BY <1>5, <2>1 DEF EndsHere
  <2>3. l \in 1 .. last - 1 /\ data[l - 1] = NEWLINE
    BY <1>0, <1>2, <2>1, StartsAre
  <2>4. t[c + l] = EndOfLine
    <3>1. l - 1 \in 0 .. last - 1 /\ c + (l - 1) + 1 = c + l
      BY <1>0, <2>3
    <3>2. data[l - 1] = t[c + (l - 1) + 1]
      BY <1>0, <3>1
    <3> QED
      BY <2>3, <3>1, <3>2 DEF EndOfLine, NEWLINE
  <2> QED
    BY <1>3, <1>4, <1>6, <2>1, <2>2, <2>3, <2>4 DEF Between
<1>7. CASE ~Unfinished(data, last, cnt)
  <2>0. u = last /\ last \in 0 .. last
    BY <1>0, <1>7
  <2>1. CASE e = last
    <3>1. c + last = Len(t) \/ t[c + last + 1] = EndOfLine
      BY <1>2, <1>4, <1>7, <2>1, LastIsWhole
    <3> QED
      BY <1>7, <2>0, <3>1 DEF Between
  <2>2. CASE e # last
    <3>1. e \in 0 .. last - 1 /\ data[e] = NEWLINE /\ l <= e
      BY <1>5, <2>2 DEF EndsHere
    <3>2. e = last - 1
      <4> SUFFICES ASSUME e # last - 1 PROVE FALSE
        OBVIOUS
      <4>1. PICK p : p = e + 1
        OBVIOUS
      <4>2. p \in 1 .. last - 1 /\ p - 1 = e
        BY <1>0, <3>1, <4>1
      <4>3. p \in StartsIn(data, last)
        BY <1>0, <3>1, <4>2, StartsAre
      <4>4. l >= p
        BY <1>2, <4>3
      <4> QED
        BY <1>3, <3>1, <4>1, <4>4
    <3>3. data[e] = t[c + e + 1] /\ c + e + 1 = c + last
      BY <1>0, <3>1, <3>2
    <3>4. t[c + last] = EndOfLine
      BY <3>1, <3>3 DEF EndOfLine, NEWLINE
    <3> QED
      BY <1>7, <2>0, <3>4 DEF Between
  <2> QED
    BY <2>1, <2>2
<1> QED
  BY <1>6, <1>7

\* What is printed from a place of the buffer is what the text has there.
LEMMA StartsThere ==
  ASSUME NEW data, NEW last, NEW t, NEW c, Holds(data, last, t, c),
         NEW k \in 1 .. last, NEW p, p = k - 1, NEW q, q = c + k
  PROVE  /\ q \in 1 .. Len(t) /\ p \in 0 .. last /\ q = c + p + 1
         /\ q \in LineStarts(t) => p \in StartsIn(data, last)
         /\ p \in StartsIn(data, last) => p = 0 \/ q \in LineStarts(t)
<1>0. /\ last \in Nat /\ c \in Nat /\ Len(t) \in Nat
      /\ c + last <= Len(t) /\ \A i \in 0 .. last - 1 : data[i] = t[c + i + 1]
  BY HoldsTypes
<1>1. q \in 1 .. Len(t) /\ p \in 0 .. last /\ q = c + p + 1
  BY <1>0
<1>2. ASSUME p # 0
      PROVE  /\ p \in 1 .. last - 1 /\ p - 1 \in 0 .. last - 1
             /\ data[p - 1] = t[q - 1] /\ q # 1
  <2>1. /\ p \in 1 .. last - 1 /\ p - 1 \in 0 .. last - 1
        /\ c + (p - 1) + 1 = q - 1 /\ q # 1
    BY <1>0, <1>2
  <2>2. data[p - 1] = t[c + (p - 1) + 1]
    BY <1>0, <2>1
  <2> QED
    BY <2>1, <2>2
<1>3. p \in StartsIn(data, last)
        <=> p = 0 \/ (p \in 1 .. last - 1 /\ data[p - 1] = NEWLINE)
  BY <1>0, StartsAre
<1>4. q \in LineStarts(t) <=> q = 1 \/ t[q - 1] = EndOfLine
  BY <1>1 DEF LineStarts
<1> QED
  BY <1>1, <1>2, <1>3, <1>4 DEF EndOfLine, NEWLINE

LEMMA NothingFound ==
  ASSUME NEW data, NEW last \in Nat, last # 0, data[0] = NEWLINE, NEW b, NEW s
  PROVE  ~Matches(b, 0, EndIn(data, last, 0), s)
<1>1. PICK e : e = EndIn(data, last, 0)
  OBVIOUS
<1>2. 0 \in 0 .. last
  OBVIOUS
<1>3. EndsHere(data, last, 0, e)
  BY <1>1, <1>2, EndIs
<1>4. e = 0
  <2> SUFFICES ASSUME e # 0 PROVE FALSE
    OBVIOUS
  <2>1. 0 \in 0 .. e - 1
    BY <1>3 DEF EndsHere
  <2> QED
    BY <1>3, <2>1 DEF EndsHere
<1> QED
  BY <1>1, <1>4 DEF Matches

LEMMA PieceIs ==
  ASSUME NEW data, NEW last, NEW t, NEW c, Holds(data, last, t, c),
         Between(t, c), NEW s, Text(s), s # <<>>, NEW cnt,
         NEW k \in 1 .. last, NEW p, p = k - 1, NEW q, q = c + k,
         ~(Unfinished(data, last, cnt) /\ p = LastIn(data, last)),
         p \in StartsIn(data, last) =>
           EndsAt(t, q, c + EndIn(data, last, p) + 1)
  PROVE  Printed(data, last, cnt, s)[k] = Pieces(s, t)[q]
<1>0. /\ last \in Nat /\ c \in Nat /\ Len(t) \in Nat /\ Text(t)
      /\ c + last <= Len(t) /\ \A i \in 0 .. last - 1 : data[i] = t[c + i + 1]
  BY HoldsTypes
<1>1. /\ q \in 1 .. Len(t) /\ p \in 0 .. last /\ q = c + p + 1
      /\ q \in LineStarts(t) => p \in StartsIn(data, last)
      /\ p \in StartsIn(data, last) => p = 0 \/ q \in LineStarts(t)
  BY StartsThere
<1>2. PICK b, z : b = CutIn(data, last) /\ z = CString(b, p)
  OBVIOUS
<1>3. Printed(data, last, cnt, s)[k]
        = IF FoundIn(data, last, cnt, s, p) THEN Just(z) ELSE <<>>
  <2>1. k \in 1 .. last + 1
    BY <1>0
  <2> QED
    BY <1>2, <2>1 DEF Printed, Just
<1>4. Pieces(s, t)[q]
        = IF q \in LineStarts(t) /\ HasIn(s, LineAt(t, q))
            THEN Just(LineAt(t, q)) ELSE <<>>
  <2>1. q \in DOMAIN t
    BY <1>0, <1>1 DEF Text
  <2> QED
    BY <2>1 DEF Pieces, Just
<1>5. PICK e : e = EndIn(data, last, p)
  OBVIOUS
<1>6. FoundIn(data, last, cnt, s, p)
        <=> p \in StartsIn(data, last) /\ Matches(b, p, e, s)
  BY <1>2, <1>5 DEF FoundIn
<1>7. CASE q \in LineStarts(t)
  <2>1. p \in StartsIn(data, last) /\ EndsAt(t, q, c + e + 1)
    BY <1>1, <1>5, <1>7
  <2>2. IsString(z, b, p)
    BY <1>2 DEF IsString
  <2>3. Spans(z, b, p, e) /\ p \in Nat /\ e \in Nat
    BY <1>2, <1>5, <2>1, <2>2, StringEnds
  <2>4. z = LineAt(t, q)
    BY <1>1, <1>2, <1>5, <2>1, <2>2, StringIsLine
  <2>5. Matches(b, p, e, s) <=> HasIn(s, z)
    BY <2>3, MatchIs
  <2> QED
    BY <1>3, <1>4, <1>6, <1>7, <2>1, <2>4, <2>5
<1>8. CASE q \notin LineStarts(t)
  <2>1. ASSUME p \in StartsIn(data, last) PROVE ~Matches(b, p, e, s)
    <3>1. p = 0 /\ q = c + 1
      BY <1>0, <1>1, <1>8, <2>1
    <3>2. t[c + 1] = EndOfLine
      <4>1. c = 0 => q = 1
        BY <3>1
      <4>2. c # Len(t) /\ q - 1 = c
        BY <1>0, <1>1, <3>1
      <4>3. q # 1 /\ t[q - 1] # EndOfLine
        BY <1>1, <1>8 DEF LineStarts
      <4> QED
        BY <4>1, <4>2, <4>3 DEF Between
    <3>3. data[0] = NEWLINE /\ last # 0
      <4>1. 0 \in 0 .. last - 1 /\ c + 0 + 1 = c + 1
        BY <1>0
      <4>2. data[0] = t[c + 0 + 1]
        BY <1>0, <4>1
      <4> QED
        BY <1>0, <3>2, <4>1, <4>2 DEF EndOfLine, NEWLINE
    <3> QED
      BY <1>0, <1>5, <3>1, <3>3, NothingFound
  <2> QED
    BY <1>3, <1>4, <1>6, <1>8, <2>1
<1> QED
  BY <1>7, <1>8

LEMMA PiecesType ==
  ASSUME NEW s, NEW t, Text(t), NEW n \in 0 .. Len(t)
  PROVE  /\ Parts(Seq(STRING), Pieces(s, t), n)
         /\ FirstOf(Pieces(s, t), n) \in Seq(Seq(STRING))
<1>0. Len(t) \in Nat /\ DOMAIN t = 1 .. Len(t) /\ n \in Nat
  BY DEF Text
<1>1. ASSUME NEW p \in 1 .. n PROVE Pieces(s, t)[p] \in Seq(Seq(STRING))
  <2>0. p \in 1 .. Len(t)
    BY <1>0
  <2>1. LineAt(t, p) \in Seq(STRING)
    <3>1. PICK e \in Nat :
            EndsAt(t, p, e) /\ LineAt(t, p) = Part(t, p, e - 1)
      BY <2>0, LineEnds
    <3> QED
      BY <2>0, <3>1, PartIsText DEF Text
  <2>2. Just(LineAt(t, p)) \in Seq(Seq(STRING)) /\ <<>> \in Seq(Seq(STRING))
    BY <2>1 DEF Just
  <2>3. Pieces(s, t)[p] \in {Just(LineAt(t, p)), <<>>}
    BY <1>0, <2>0 DEF Pieces, Just
  <2> QED
    BY <2>2, <2>3
<1> QED
  BY <1>0, <1>1, FirstType DEF Parts

\* What of the buffer is searched.
Consumed(data, last, cnt) ==
  IF Unfinished(data, last, cnt) THEN LastIn(data, last) ELSE last

LEMMA UsedEnds ==
  ASSUME NEW data, NEW last, NEW t, NEW c, Holds(data, last, t, c),
         Between(t, c), IsText(t), BUFSIZE # 0, NEW cnt,
         cnt = 0 => c + last = Len(t), last = BUFSIZE \/ c + last = Len(t),
         NEW k \in 1 .. Consumed(data, last, cnt), NEW p, p = k - 1,
         NEW q, q = c + k, k \in 1 .. last, p \in StartsIn(data, last)
  PROVE  /\ ~(Unfinished(data, last, cnt) /\ p = LastIn(data, last))
         /\ EndsAt(t, q, c + EndIn(data, last, p) + 1)
<1>0. last \in Nat /\ c \in Nat /\ Len(t) \in Nat
  BY HoldsTypes
<1>1. PICK e : e = EndIn(data, last, p)
  OBVIOUS
<1>2. p \in 0 .. last /\ p \in Nat /\ q = c + p + 1
  BY <1>0
<1>3. EndsHere(data, last, p, e)
  BY <1>0, <1>1, <1>2, EndIs
<1>4. CASE Unfinished(data, last, cnt)
  <2>1. PICK l : l = LastIn(data, last) /\ l \in StartsIn(data, last)
    BY <1>0, LastStart
  <2>2. k \in 1 .. l /\ l \in 0 .. last /\ l \in Nat
    BY <1>0, <1>4, <2>1, StartsAre DEF Consumed
  <2>3. p < l /\ l # 0
    BY <2>2
  <2>4. l \in 1 .. last - 1 /\ data[l - 1] = NEWLINE
    BY <1>0, <2>1, <2>3, StartsAre
  <2>5. e # last
    <3> SUFFICES ASSUME e = last PROVE FALSE
      OBVIOUS
    <3>1. l - 1 \in p .. e - 1
      BY <1>0, <1>2, <2>2, <2>3, <2>4
    <3> QED
      BY <1>3, <2>4, <3>1 DEF EndsHere
  <2>6. EndsAt(t, q, c + e + 1)
    BY <1>1, <1>2, <2>5, EndsThere
  <2> QED
    BY <1>1, <2>1, <2>2, <2>3, <2>6
<1>5. CASE ~Unfinished(data, last, cnt)
  <2>1. e = last => c + last = Len(t) \/ t[c + last + 1] = EndOfLine
    BY <1>1, <1>5, LastIsWhole
  <2>2. EndsAt(t, q, c + e + 1)
    BY <1>1, <1>2, <2>1, EndsThere
  <2> QED
    BY <1>1, <1>5, <2>2
<1> QED
  BY <1>4, <1>5

\* Behind what is used nothing is printed.
LEMMA NothingBehind ==
  ASSUME NEW data, NEW last \in Nat, NEW cnt, NEW s,
         NEW u \in Nat, u = Consumed(data, last, cnt), u <= last
  PROVE  Blank(Printed(data, last, cnt, s), u + 1, last + 1)
<1> SUFFICES ASSUME NEW k \in u + 1 .. last + 1
             PROVE  Printed(data, last, cnt, s)[k] = <<>>
  BY DEF Blank
<1>1. PICK p \in Nat : p = k - 1 /\ p >= u /\ p <= last /\ k \in 1 .. last + 1
  OBVIOUS
<1>2. ~FoundIn(data, last, cnt, s, p)
  <2> SUFFICES ASSUME FoundIn(data, last, cnt, s, p) PROVE FALSE
    OBVIOUS
  <2>1. /\ p \in StartsIn(data, last)
        /\ Matches(CutIn(data, last), p, EndIn(data, last, p), s)
        /\ ~(Unfinished(data, last, cnt) /\ p = LastIn(data, last))
    BY DEF FoundIn
  <2>2. CASE Unfinished(data, last, cnt)
    <3>1. PICK l : l = LastIn(data, last) /\ l = u /\ l >= p
      BY <2>1, <2>2, LastStart DEF Consumed
    <3> QED
      BY <1>1, <2>1, <2>2, <3>1
  <2>3. CASE ~Unfinished(data, last, cnt)
    <3>1. p = last
      BY <1>1, <2>3 DEF Consumed
    <3>2. p = 0 /\ last = 0
      BY <2>1, <3>1, StartsAre
    <3>3. PICK e : e = EndIn(data, last, p)
      OBVIOUS
    <3>4. EndsHere(data, last, p, e)
      BY <1>1, <3>2, <3>3, EndIs
    <3>5. e = 0
      BY <3>2, <3>4 DEF EndsHere
    <3> QED
      BY <2>1, <3>2, <3>3, <3>5 DEF Matches
  <2> QED
    BY <2>2, <2>3
<1> QED
  BY <1>1, <1>2 DEF Printed

LEMMA LinesFound ==
  ASSUME NEW data, NEW last, NEW t, NEW c, Holds(data, last, t, c),
         Between(t, c), IsText(t), BUFSIZE # 0, NEW cnt,
         cnt = 0 => c + last = Len(t), last = BUFSIZE \/ c + last = Len(t),
         NEW s, Text(s), s # <<>>,
         NEW u, u = Consumed(data, last, cnt), NEW m, m = c + u
  PROVE  /\ m \in 0 .. Len(t)
         /\ FirstOf(Pieces(s, t), m)
              = Glue(FirstOf(Pieces(s, t), c),
                     FlattenSeq(Printed(data, last, cnt, s)))
<1>0. /\ last \in Nat /\ c \in Nat /\ Len(t) \in Nat /\ c + last <= Len(t)
      /\ Text(t)
  BY HoldsTypes
<1>1. u \in 0 .. last
  BY NextIsStart DEF Consumed
<1>2. u \in Nat /\ u <= last /\ m \in 0 .. Len(t) /\ m \in Nat
  BY <1>0, <1>1
<1>3. PICK f, g : f = Pieces(s, t) /\ g = Printed(data, last, cnt, s)
  OBVIOUS
<1>4. ASSUME NEW k \in 1 .. u PROVE g[k] = f[c + k]
  <2>1. PICK p, q : p = k - 1 /\ q = c + k
    OBVIOUS
  <2>2. k \in 1 .. last /\ k \in 1 .. Consumed(data, last, cnt)
    BY <1>0, <1>2
  <2>3. p \in StartsIn(data, last) =>
          /\ ~(Unfinished(data, last, cnt) /\ p = LastIn(data, last))
          /\ EndsAt(t, q, c + EndIn(data, last, p) + 1)
    BY <2>1, <2>2, UsedEnds
  <2>4. ~(Unfinished(data, last, cnt) /\ p = LastIn(data, last))
    BY <1>0, <2>3, LastStart
  <2>5. Printed(data, last, cnt, s)[k] = Pieces(s, t)[q]
    BY <2>1, <2>2, <2>3, <2>4, PieceIs
  <2> QED
    BY <1>3, <2>1, <2>5
<1>5. Parts(Seq(STRING), f, m)
  BY <1>0, <1>2, <1>3, PiecesType
<1>6. Follows(g, u, f, c, m)
  BY <1>4 DEF Follows
<1>7. FirstOf(f, m) = Glue(FirstOf(f, c), FirstOf(g, u))
  BY <1>0, <1>2, <1>5, <1>6, FirstSplit
<1>8. Parts(Seq(STRING), g, u)
  <2> SUFFICES ASSUME NEW k \in 1 .. u PROVE g[k] \in Seq(Seq(STRING))
    BY DEF Parts
  <2>1. c + k \in 1 .. m
    BY <1>0, <1>2
  <2> QED
    BY <1>4, <1>5, <2>1 DEF Parts
<1>9. FirstOf(g, last + 1) = FirstOf(g, u)
  <2>1. Blank(g, u + 1, last + 1)
    BY <1>0, <1>2, <1>3, NothingBehind
  <2>2. last + 1 \in Nat /\ u <= last + 1
    BY <1>0, <1>2
  <2> QED
    BY <1>2, <1>8, <2>1, <2>2, FirstRest
<1>10. FlattenSeq(g) = FirstOf(g, last + 1)
  <2>1. last + 1 \in Nat /\ g = [k \in 1 .. last + 1 |-> g[k]]
    BY <1>0, <1>3 DEF Printed
  <2> QED
    BY <2>1, FirstAll
<1> QED
  BY <1>2, <1>3, <1>7, <1>9, <1>10

\* What do_lines leaves and prints, whatever the buffer holds.
LineTexts == {w \in Seq(STRING) : OneLine(w)}
LEMMA LineTextIs == \A w : w \in LineTexts <=> Text(w) /\ OneLine(w)
BY DEF LineTexts, Text

MovedDown(d, b, z, n) ==
  \A i \in 0 .. BUFSIZE :
    d[i] = IF i < n THEN z[i + 1] ELSE IF i = n THEN NUL ELSE b[i]
LEMMA CopiedDown ==
  ASSUME NEW b, Buffer(b), NEW p, NEW z, IsString(z, b, p), NEW n \in Nat,
         n = Len(z), NEW d, d = Shifted(b, p)
  PROVE  MovedDown(d, b, z, n)
<1>1. DOMAIN b = 0 .. BUFSIZE
  BY DEF Buffer
<1>2. d = ece391_strcpy(b, z)
  BY DEF Shifted, IsString
<1> QED
  BY <1>1, <1>2 DEF ece391_strcpy, MovedDown

LEMMA ShiftedBuffer ==
  ASSUME NEW b, Buffer(b), NEW p, NEW z, IsString(z, b, p), Text(z)
  PROVE  Buffer(Shifted(b, p))
<1>1. PICK n \in Nat : n = Len(z)
  BY DEF Text
<1>2. PICK d : d = Shifted(b, p)
  OBVIOUS
<1>3. MovedDown(d, b, z, n)
  BY <1>1, <1>2, CopiedDown
<1>4. ASSUME NEW i \in 0 .. BUFSIZE PROVE d[i] \in STRING
  <2>1. i < n => z[i + 1] \in STRING
    BY <1>1 DEF Text
  <2>2. NUL \in STRING /\ b[i] \in STRING
    BY CharacterAssumption DEF Buffer
  <2> QED
    BY <1>3, <2>1, <2>2 DEF MovedDown
<1>5. d = [i \in 0 .. BUFSIZE |-> d[i]]
  <2>1. DOMAIN b = 0 .. BUFSIZE
    BY DEF Buffer
  <2> QED
    BY <1>2, <2>1 DEF Shifted, ece391_strcpy
<1> QED
  BY <1>2, <1>4, <1>5 DEF Buffer

LEMMA BufferStays ==
  ASSUME NEW data, Buffer(data), NEW last \in 0 .. BUFSIZE, BUFSIZE # 0,
         NEW cnt, NEW s, NEW done, done = do_lines(data, last, cnt, s)
  PROVE  /\ Buffer(done.data) /\ done.last \in 0 .. BUFSIZE - 1
         /\ done.last = last - Consumed(data, last, cnt)
         /\ done.lines \in Seq(LineTexts)
<1>0. BUFSIZE \in Nat /\ last \in Nat /\ last <= BUFSIZE
  BY SomeSizes
<1>1. PICK l, b : l = LastIn(data, last) /\ b = CutIn(data, last)
  OBVIOUS
<1>2. l \in StartsIn(data, last) /\ Buffer(b)
  BY <1>0, <1>1, LastStart, CutBuffer
<1>3. l \in 0 .. last
  BY <1>0, <1>2, StartsAre
<1>4. /\ done.data = IF Unfinished(data, last, cnt) THEN Shifted(b, l) ELSE b
      /\ done.last = IF Unfinished(data, last, cnt) THEN last - l ELSE 0
      /\ done.lines = FlattenSeq(Printed(data, last, cnt, s))
  BY <1>1, LinesDone
<1>5. Buffer(done.data)
  <2>1. PICK z : IsString(z, b, l)
    BY DEF IsString
  <2>2. Text(z)
    BY <1>1, <1>2, <2>1, PrintsLines
  <2>3. Buffer(Shifted(b, l))
    BY <1>2, <2>1, <2>2, ShiftedBuffer
  <2> QED
    BY <1>2, <1>4, <2>3
<1>6. /\ done.last \in 0 .. BUFSIZE - 1
      /\ done.last = last - Consumed(data, last, cnt)
  <2>1. CASE Unfinished(data, last, cnt)
    <3>1. l # 0
      BY <1>1, <2>1 DEF Unfinished
    <3> QED
      BY <1>0, <1>1, <1>3, <1>4, <2>1, <3>1 DEF Consumed
  <2>2. CASE ~Unfinished(data, last, cnt)
    BY <1>0, <1>4, <2>2 DEF Consumed
  <2> QED
    BY <2>1, <2>2
<1>7. done.lines \in Seq(LineTexts)
  <2>1. PICK g : g = Printed(data, last, cnt, s)
    OBVIOUS
  <2> DEFINE n == last + 1
  <2>0. n \in Nat
    BY <1>0
  <2>2. ASSUME NEW k \in 1 .. n PROVE g[k] \in Seq(LineTexts)
    <3>1. PICK p, z : p = k - 1 /\ z = CString(b, p)
      OBVIOUS
    <3>2. g[k] = IF FoundIn(data, last, cnt, s, p) THEN Just(z) ELSE <<>>
      BY <1>1, <2>1, <3>1 DEF Printed, Just
    <3>3. CASE FoundIn(data, last, cnt, s, p)
      <4>1. p \in StartsIn(data, last) /\ IsString(z, b, p)
        BY <3>1, <3>3 DEF FoundIn, IsString
      <4>2. Text(z) /\ OneLine(z)
        BY <1>1, <4>1, PrintsLines
      <4>3. z \in LineTexts
        BY <4>2, LineTextIs
      <4>4. Just(z) \in Seq(LineTexts)
        BY <4>3, JustOne
      <4> QED
        BY <3>2, <3>3, <4>4
    <3>4. CASE ~FoundIn(data, last, cnt, s, p)
      BY <3>2, <3>4
    <3> QED
      BY <3>3, <3>4
  <2>3. FirstOf(g, n) \in Seq(LineTexts)
    BY <2>0, <2>2, FirstType
  <2>4. g = [k \in 1 .. n |-> g[k]]
    BY <2>1 DEF Printed
  <2>5. FlattenSeq(g) = FirstOf(g, n)
    BY <2>0, <2>4, FirstAll
  <2> QED
    BY <1>4, <2>1, <2>3, <2>5
<1> QED
  BY <1>5, <1>6, <1>7

\* What it leaves of a text is what comes next.
LEMMA BufferLeft ==
  ASSUME NEW data, NEW last, NEW t, NEW c, Holds(data, last, t, c),
         Between(t, c), IsText(t), BUFSIZE # 0, NEW cnt,
         cnt = 0 => c + last = Len(t), last = BUFSIZE \/ c + last = Len(t),
         NEW s, NEW done, done = do_lines(data, last, cnt, s),
         NEW u, u = Consumed(data, last, cnt), NEW m, m = c + u
  PROVE  /\ done.data[BUFSIZE] = NUL
         /\ \A k \in 0 .. done.last - 1 : done.data[k] = t[m + k + 1]
<1>0. /\ last \in Nat /\ c \in Nat /\ BUFSIZE \in Nat /\ last <= BUFSIZE
      /\ Buffer(data) /\ last \in 0 .. BUFSIZE
  BY HoldsTypes
<1>1. PICK l, b : l = LastIn(data, last) /\ b = CutIn(data, last)
  OBVIOUS
<1>2. /\ done.data = IF Unfinished(data, last, cnt) THEN Shifted(b, l) ELSE b
      /\ done.last = IF Unfinished(data, last, cnt) THEN last - l ELSE 0
  BY <1>1, LinesDone
<1>3. b[BUFSIZE] = NUL /\ Buffer(b)
  <2>1. data[BUFSIZE] = NUL
    BY DEF Holds
  <2> QED
    BY <1>0, <1>1, <2>1, CutBuffer
<1>4. CASE ~Unfinished(data, last, cnt)
  BY <1>2, <1>3, <1>4
<1>5. CASE Unfinished(data, last, cnt)
  <2>1. u = l
    BY <1>1, <1>5 DEF Consumed
  <2>2. l \in 1 .. last - 1 /\ EndIn(data, last, l) = last
    <3>1. u = (IF Unfinished(data, last, cnt) THEN LastIn(data, last) ELSE last)
      BY DEF Consumed
    <3> QED
      BY <1>5, <2>1, <3>1, NextIsStart
  <2>3. l \in StartsIn(data, last)
    BY <1>0, <1>1, LastStart
  <2>4. PICK z : IsString(z, b, l)
    BY DEF IsString
  <2>5. /\ Spans(z, b, l, last)
        /\ \A k \in 1 .. last - l : z[k] = t[c + l + k]
    BY <1>1, <2>2, <2>3, <2>4, StringEnds
  <2>6. PICK n \in Nat : n = Len(z) /\ n = last - l /\ n < BUFSIZE
    BY <1>0, <2>2, <2>5 DEF Spans
  <2>7. PICK d : d = done.data
    OBVIOUS
  <2>8. d = Shifted(b, l) /\ done.last = n
    BY <1>2, <1>5, <2>6, <2>7
  <2>9. MovedDown(d, b, z, n)
    BY <1>3, <2>4, <2>6, <2>8, CopiedDown
  <2>10. d[BUFSIZE] = NUL
    BY <1>0, <1>3, <2>6, <2>9 DEF MovedDown
  <2>11. ASSUME NEW k \in 0 .. n - 1 PROVE d[k] = t[m + k + 1]
    <3>1. k \in 0 .. BUFSIZE /\ k < n /\ k + 1 \in 1 .. last - l
          /\ c + l + (k + 1) = m + k + 1
      BY <1>0, <2>1, <2>2, <2>6
    <3>2. d[k] = z[k + 1]
      BY <2>9, <3>1 DEF MovedDown
    <3>3. z[k + 1] = t[c + l + (k + 1)]
      BY <2>5, <3>1
    <3> QED
      BY <3>1, <3>2, <3>3
  <2> QED
    BY <2>7, <2>8, <2>10, <2>11
<1> QED
  BY <1>4, <1>5

(***************************************************************************)
(* grep: what it has printed.                                              *)
(***************************************************************************)
Output(name, lines) ==
  [k \in DOMAIN lines |-> name \o <<":">> \o lines[k] \o <<NEWLINE>>]
MarkedUpTo(name, lines, n) == [k \in 1 .. n |-> Marked(name, lines[k])]
Behind(x, f, n) == x \o FirstOf(f, n)

\* The name of a file, a colon and a line are a line.
LEMMA MarkedIsLine ==
  ASSUME NEW name \in LineTexts, NEW w \in LineTexts
  PROVE  Marked(name, w) \in LineTexts
<1>1. PICK j : j = Just(":")
  OBVIOUS
<1>2. /\ j \in Seq(STRING) /\ Len(j) = 1 /\ j[1] = ":"
      /\ name \in Seq(STRING) /\ w \in Seq(STRING)
      /\ OneLine(name) /\ OneLine(w)
  BY <1>1, CharacterAssumption, LineTextIs DEF Just, Text
<1>3. PICK x, y : IsRow(x, name, j) /\ IsRow(y, x, w) /\ y = Marked(name, w)
  BY <1>1 DEF Marked, Just, IsRow
<1>0. PICK A : A = STRING
  OBVIOUS
<1>4. /\ x \in Seq(A) /\ Len(x) = Len(name) + Len(j)
      /\ \A k \in 1 .. Len(name) : x[k] = name[k]
      /\ \A k \in 1 .. Len(j) : x[Len(name) + k] = j[k]
  <2>1. name \in Seq(A) /\ j \in Seq(A) /\ IsRow(x, name, j)
    BY <1>0, <1>2, <1>3
  <2>2. /\ x \in Seq(A) /\ Len(x) = Len(name) + Len(j)
        /\ \A k \in 1 .. Len(name) : x[k] = name[k]
    BY <2>1, RowOf
  <2>3. \A k \in 1 .. Len(j) : x[Len(name) + k] = j[k]
    BY <2>1, RowOf
  <2> QED
    BY <2>2, <2>3
<1>5. /\ y \in Seq(A) /\ Len(y) = Len(x) + Len(w)
      /\ \A k \in 1 .. Len(x) : y[k] = x[k]
      /\ \A k \in 1 .. Len(w) : y[Len(x) + k] = w[k]
  <2>1. x \in Seq(A) /\ w \in Seq(A) /\ IsRow(y, x, w)
    BY <1>0, <1>2, <1>3, <1>4
  <2> QED
    BY <2>1, RowOf
<1>6. PICK n \in Nat, m \in Nat : n = Len(name) /\ m = Len(w)
  BY <1>2
<1>7. x[n + 1] = ":" /\ Len(x) = n + 1
  BY <1>2, <1>4, <1>6
<1>8. ASSUME NEW k \in 1 .. n + 1 + m PROVE y[k] # EndOfLine
  <2>1. CASE k \in 1 .. n
    BY <1>2, <1>4, <1>5, <1>6, <1>7, <2>1 DEF OneLine
  <2>2. CASE k = n + 1
    BY <1>5, <1>6, <1>7, <2>2 DEF EndOfLine
  <2>3. CASE k \in n + 2 .. n + 1 + m
    <3>1. PICK i \in 1 .. m : k = n + 1 + i
      <4>1. k - n - 1 \in 1 .. m /\ k = n + 1 + (k - n - 1)
        BY <2>3
      <4> QED
        BY <4>1
    <3>2. y[k] = w[i]
      BY <1>5, <1>6, <1>7, <3>1
    <3> QED
      BY <1>2, <1>6, <3>2 DEF OneLine
  <2> QED
    BY <2>1, <2>2, <2>3
<1>9. OneLine(y)
  BY <1>5, <1>6, <1>7, <1>8 DEF OneLine
<1> QED
  BY <1>0, <1>3, <1>5, <1>9, LineTextIs DEF Text

LEMMA MarkedMore ==
  ASSUME NEW name, NEW lines, NEW n \in Nat
  PROVE  MarkedUpTo(name, lines, n + 1)
           = Glue(MarkedUpTo(name, lines, n), Just(Marked(name, lines[n + 1])))
<1>1. PICK f : f = [k \in Nat |-> Marked(name, lines[k])]
  OBVIOUS
<1>2. \A k \in Nat : Marked(name, lines[k]) = f[k]
  BY <1>1
<1>3. /\ MarkedUpTo(name, lines, n + 1) = [k \in 1 .. n + 1 |-> f[k]]
      /\ MarkedUpTo(name, lines, n) = [k \in 1 .. n |-> f[k]]
      /\ Just(Marked(name, lines[n + 1])) = <<f[n + 1]>>
  BY <1>2 DEF MarkedUpTo, Just
<1>4. [k \in 1 .. n + 1 |-> f[k]] = [k \in 1 .. n |-> f[k]] \o <<f[n + 1]>>
  OBVIOUS
<1> QED
  BY <1>3, <1>4 DEF Glue

LEMMA OutputLines ==
  ASSUME NEW name \in LineTexts, NEW lines \in Seq(LineTexts),
         NEW x, Text(x), EndsLine(x),
         NEW t, t = Behind(x, Output(name, lines), Len(lines))
  PROVE  /\ Text(t) /\ EndsLine(t)
         /\ LinesOf(t) = Glue(LinesOf(x), Mapped(name, lines))
<1>1. PICK n, f : n \in Nat /\ n = Len(lines) /\ f = Output(name, lines)
  OBVIOUS
<1> n \in Nat
  BY <1>1
<1>2. ASSUME NEW k \in 1 .. n
      PROVE  \E w \in LineTexts : /\ w = Marked(name, lines[k])
                                  /\ f[k] = w \o <<EndOfLine>>
                                  /\ f[k] \in Seq(STRING)
  <2>1. PICK w : w = Marked(name, lines[k])
    OBVIOUS
  <2>2. w \in LineTexts
    <3>1. lines[k] \in LineTexts
      BY <1>1
    <3> QED
      BY <2>1, <3>1, MarkedIsLine
  <2>3. f[k] = w \o <<EndOfLine>>
    <3>1. k \in DOMAIN lines
      BY <1>1
    <3>2. f[k] = name \o <<":">> \o lines[k] \o <<NEWLINE>>
      BY <1>1, <3>1, Zenon DEF Output
    <3> QED
      BY <2>1, <3>2, Zenon DEF Marked, EndOfLine, NEWLINE
  <2>4. w \in Seq(STRING) /\ EndOfLine \in STRING
    BY <2>2, LineTextIs, CharacterAssumption DEF Text, EndOfLine, NEWLINE
  <2>5. f[k] \in Seq(STRING)
    <3>1. PICK A, e, g : A = STRING /\ e = EndOfLine /\ g = f[k]
      OBVIOUS
    <3>2. w \in Seq(A) /\ e \in A /\ g = w \o <<e>>
      BY <2>3, <2>4, <3>1
    <3>3. g \in Seq(A)
      BY <3>2
    <3> QED
      BY <3>1, <3>3
  <2> QED
    BY <2>1, <2>2, <2>3, <2>5
<1>3. ASSUME NEW k \in 0 .. n PROVE FirstOf(f, k) \in Seq(STRING)
  <2>1. \A i \in 1 .. k : f[i] \in Seq(STRING)
    BY <1>2
  <2> QED
    BY <2>1, FirstType
<1> DEFINE S == {k \in Nat : k <= n =>
                   /\ Text(Behind(x, f, k)) /\ EndsLine(Behind(x, f, k))
                   /\ LinesOf(Behind(x, f, k))
                        = Glue(LinesOf(x), MarkedUpTo(name, lines, k))}
<1>4. 0 \in S
  <2>1. x \o <<>> = x
    BY DEF Text
  <2>2. Behind(x, f, 0) = x
    BY <2>1, FirstNone DEF Behind
  <2>3. MarkedUpTo(name, lines, 0) = <<>>
    BY DEF MarkedUpTo
  <2>4. LinesOf(x) \in Seq(Seq(STRING))
    BY LinesFirst
  <2>5. LinesOf(x) \o <<>> = LinesOf(x)
    BY <2>4
  <2> QED
    BY <2>2, <2>3, <2>5 DEF Glue
<1>5. ASSUME NEW k \in Nat, k \in S PROVE k + 1 \in S
  <2> SUFFICES ASSUME k + 1 <= n
               PROVE  /\ Text(Behind(x, f, k + 1))
                      /\ EndsLine(Behind(x, f, k + 1))
                      /\ LinesOf(Behind(x, f, k + 1))
                         = Glue(LinesOf(x), MarkedUpTo(name, lines, k + 1))
    OBVIOUS
  <2>1. k + 1 \in 1 .. n /\ k \in 0 .. n
    OBVIOUS
  <2>2. PICK w \in LineTexts : /\ w = Marked(name, lines[k + 1])
                               /\ f[k + 1] = w \o <<EndOfLine>>
                               /\ f[k + 1] \in Seq(STRING)
    BY <1>2, <2>1
  <2>3. PICK y, z : y = Behind(x, f, k) /\ z = Behind(x, f, k + 1)
    OBVIOUS
  <2>4. /\ Text(y) /\ EndsLine(y)
        /\ LinesOf(y) = Glue(LinesOf(x), MarkedUpTo(name, lines, k))
    BY <1>5, <2>3
  <2>5. PICK a, b : a = FirstOf(f, k) /\ b = f[k + 1]
    OBVIOUS
  <2>6. a \in Seq(STRING) /\ b \in Seq(STRING) /\ x \in Seq(STRING)
    BY <1>3, <2>1, <2>2, <2>5 DEF Text
  <2>7. FirstOf(f, k + 1) = a \o b
    BY <2>5, <2>6, FirstNext
  <2>8. (x \o a) \o b = x \o (a \o b)
    BY <2>6, Associative
  <2>9. z = y \o b
    BY <2>3, <2>5, <2>7, <2>8, Zenon DEF Behind
  <2>10. Adds(z, y, w)
    BY <2>2, <2>5, <2>9 DEF Adds
  <2>11. Text(w) /\ OneLine(w)
    BY <2>2, LineTextIs
  <2>12. /\ Text(z) /\ EndsLine(z) /\ LinesOf(z) = LinesOf(y) \o Just(w)
    BY <2>4, <2>10, <2>11, LineAdded
  <2>13. PICK l, m, j : l = LinesOf(x) /\ m = MarkedUpTo(name, lines, k)
                        /\ j = Just(w)
    OBVIOUS
  <2>14. /\ l \in Seq(Seq(STRING)) /\ m \in Seq(Seq(STRING))
         /\ j \in Seq(Seq(STRING))
    <3>1. \A i \in 1 .. k : Marked(name, lines[i]) \in Seq(STRING)
      <4> SUFFICES ASSUME NEW i \in 1 .. k
                   PROVE  Marked(name, lines[i]) \in Seq(STRING)
        OBVIOUS
      <4>1. lines[i] \in LineTexts
        BY <1>1, <2>1
      <4> QED
        BY <4>1, MarkedIsLine, LineTextIs DEF Text
    <3>2. m \in Seq(Seq(STRING))
      BY <2>13, <3>1 DEF MarkedUpTo
    <3>3. l \in Seq(Seq(STRING))
      BY <2>13, LinesFirst
    <3>4. j \in Seq(Seq(STRING))
      BY <2>11, <2>13 DEF Text, Just
    <3> QED
      BY <3>2, <3>3, <3>4
  <2>15. (l \o m) \o j = l \o (m \o j)
    BY <2>14, Associative
  <2>16. MarkedUpTo(name, lines, k + 1) = Glue(m, j)
    BY <2>2, <2>13, MarkedMore
  <2> QED
    BY <2>3, <2>4, <2>12, <2>13, <2>15, <2>16, Zenon DEF Glue
<1>6. n \in S
  <2> HIDE DEF S
  <2> QED
    BY <1>4, <1>5, AllNaturals
<1>7. Mapped(name, lines) = MarkedUpTo(name, lines, n)
  BY <1>1 DEF Mapped, MarkedUpTo
<1>8. t = Behind(x, f, n)
  BY <1>1
<1> QED
  BY <1>6, <1>7, <1>8

(***************************************************************************)
(* grep: the lines that are from texts.                                    *)
(***************************************************************************)
FromText(l) == \E i \in TextFiles : IsPrefix(Prefix(i), l)
Chosen(lines) ==
  [k \in DOMAIN lines |-> IF FromText(lines[k]) THEN Just(lines[k]) ELSE <<>>]

LEMMA FromTextsFirst ==
  ASSUME NEW A, NEW lines \in Seq(A)
  PROVE  /\ Parts(A, Chosen(lines), Len(lines))
         /\ FromTexts(lines) = FirstOf(Chosen(lines), Len(lines))
         /\ FromTexts(lines) \in Seq(A)
         /\ \A k \in 1 .. Len(lines) :
              Chosen(lines)[k]
                = IF FromText(lines[k]) THEN Just(lines[k]) ELSE <<>>
<1>1. PICK n, f : n \in Nat /\ n = Len(lines) /\ f = Chosen(lines)
  OBVIOUS
<1> n \in Nat
  BY <1>1
<1>2. DOMAIN lines = 1 .. n /\ \A k \in 1 .. n : lines[k] \in A
  BY <1>1
<1>3. \A k \in 1 .. n :
        f[k] = IF FromText(lines[k]) THEN Just(lines[k]) ELSE <<>>
  BY <1>1, <1>2 DEF Chosen
<1>4. ASSUME NEW k \in 1 .. n PROVE f[k] \in Seq(A)
  <2>1. Just(lines[k]) \in Seq(A) /\ <<>> \in Seq(A)
    BY <1>2 DEF Just
  <2> QED
    BY <1>3, <2>1
<1>5. f = [k \in 1 .. n |-> f[k]]
  BY <1>1, <1>2 DEF Chosen
<1>6. FromTexts(lines) = FlattenSeq(f)
  BY <1>1, Zenon DEF FromTexts, Chosen, FromText, Just
<1>7. FlattenSeq(f) = FirstOf(f, n)
  BY <1>5, FirstAll
<1>8. FirstOf(f, n) \in Seq(A)
  BY <1>4, FirstType
<1> QED
  BY <1>1, <1>3, <1>4, <1>6, <1>7, <1>8 DEF Parts

LEMMA FromTextsBoth ==
  ASSUME NEW A, NEW x \in Seq(A), NEW y \in Seq(A)
  PROVE  FromTexts(Glue(x, y)) = Glue(FromTexts(x), FromTexts(y))
<1>1. PICK m, n, z :
        /\ m \in Nat /\ n \in Nat
        /\ IsRow(z, x, y) /\ m = Len(x) /\ n = Len(y)
  <2>1. Len(x) \in Nat /\ Len(y) \in Nat
    OBVIOUS
  <2> QED
    BY <2>1, Zenon DEF IsRow
<1> m \in Nat /\ n \in Nat
  BY <1>1
<1>2. /\ z \in Seq(A) /\ Len(z) = m + n
      /\ \A k \in 1 .. m : z[k] = x[k]
      /\ \A k \in 1 .. n : z[m + k] = y[k]
  <2>1. /\ z \in Seq(A) /\ Len(z) = Len(x) + Len(y)
        /\ \A k \in 1 .. Len(x) : z[k] = x[k]
        /\ \A k \in 1 .. Len(y) : z[Len(x) + k] = y[k]
    <3>1. IsRow(z, x, y) /\ x \in Seq(A) /\ y \in Seq(A)
      BY <1>1
    <3> QED
      BY <3>1, RowOf
  <2>2. m = Len(x) /\ n = Len(y)
    BY <1>1
  <2> QED
    BY <2>1, <2>2, Zenon
<1>3. PICK q \in Nat : q = m + n
  OBVIOUS
<1>4. PICK f, g, h : f = Chosen(z) /\ g = Chosen(x) /\ h = Chosen(y)
  OBVIOUS
<1>5. /\ Parts(A, f, q) /\ FromTexts(z) = FirstOf(f, q)
      /\ \A k \in 1 .. q :
           f[k] = IF FromText(z[k]) THEN Just(z[k]) ELSE <<>>
  <2>1. z \in Seq(A) /\ q = Len(z)
    BY <1>2, <1>3
  <2>2. /\ Parts(A, Chosen(z), Len(z))
        /\ FromTexts(z) = FirstOf(Chosen(z), Len(z))
        /\ \A k \in 1 .. Len(z) :
             Chosen(z)[k] = IF FromText(z[k]) THEN Just(z[k]) ELSE <<>>
    BY <2>1, FromTextsFirst
  <2> QED
    BY <1>4, <2>1, <2>2
<1>6. /\ FromTexts(x) = FirstOf(g, m)
      /\ \A k \in 1 .. m :
           g[k] = IF FromText(x[k]) THEN Just(x[k]) ELSE <<>>
  BY <1>1, <1>4, FromTextsFirst
<1>7. /\ FromTexts(y) = FirstOf(h, n)
      /\ \A k \in 1 .. n :
           h[k] = IF FromText(y[k]) THEN Just(y[k]) ELSE <<>>
  BY <1>1, <1>4, FromTextsFirst
<1>8. ASSUME NEW k \in 1 .. m PROVE f[k] = g[k]
  <2>1. k \in 1 .. q
    BY <1>3
  <2> QED
    BY <1>2, <1>5, <1>6, <2>1
<1>9. Follows(h, n, f, m, q)
  <2> SUFFICES ASSUME NEW k \in 1 .. n PROVE h[k] = f[m + k]
    BY <1>3 DEF Follows
  <2>1. m + k \in 1 .. q
    BY <1>3
  <2> QED
    BY <1>2, <1>5, <1>7, <2>1
<1>10. FirstOf(f, q) = Glue(FirstOf(f, m), FirstOf(h, n))
  BY <1>5, <1>9, FirstSplit
<1>11. FirstOf(f, m) = FirstOf(g, m)
  BY <1>8, FirstSame
<1>12. Glue(x, y) = z
  BY <1>1, Zenon DEF Glue, IsRow
<1> QED
  BY <1>5, <1>6, <1>7, <1>10, <1>11, <1>12

\* Every piece is one element, or none is there.
LEMMA SinglePieces ==
  ASSUME NEW A, NEW l \in Seq(A), NEW f, NEW n \in Nat, n = Len(l),
         \A k \in 1 .. n : f[k] = Just(l[k])
  PROVE  FirstOf(f, n) = l
<1> DEFINE S == {k \in Nat : k <= n => FirstOf(f, k) = Part(l, 1, k)}
<1>1. 0 \in S
  <2>1. Part(l, 1, 0) = <<>>
    BY DEF Part
  <2> QED
    BY <2>1, FirstNone
<1>2. ASSUME NEW k \in Nat, k \in S PROVE k + 1 \in S
  <2> SUFFICES ASSUME k + 1 <= n
               PROVE  FirstOf(f, k + 1) = Part(l, 1, k + 1)
    OBVIOUS
  <2>1. k + 1 \in 1 .. n /\ k \in 0 .. Len(l) /\ k + 1 \in k .. Len(l)
    OBVIOUS
  <2>2. FirstOf(f, k) = Part(l, 1, k) /\ f[k + 1] = Just(l[k + 1])
    BY <1>2, <2>1
  <2>3. l[k + 1] \in A
    BY <2>1
  <2>4. Part(l, 1, k) \in Seq(A) /\ Just(l[k + 1]) \in Seq(A)
    BY <2>1, <2>3, PartType DEF Part, Just
  <2>5. FirstOf(f, k + 1) = Part(l, 1, k) \o Just(l[k + 1])
    BY <2>2, <2>4, FirstNext
  <2>6. SubSeq(l, k + 1, k + 1) = Just(l[k + 1])
    <3>1. PICK x, y : x = SubSeq(l, k + 1, k + 1) /\ y = Just(l[k + 1])
      OBVIOUS
    <3>2. /\ x \in Seq(A) /\ Len(x) = 1
          /\ \A j \in 1 .. 1 : x[j] = l[k + 1 + j - 1]
      <4>1. PICK p \in Nat \ {0}, q \in 0 .. Len(l) : p = k + 1 /\ q = p
        BY <2>1
      <4>2. /\ SubSeq(l, p, q) \in Seq(A)
            /\ Len(SubSeq(l, p, q)) = IF p <= q THEN q + 1 - p ELSE 0
            /\ \A j \in 1 .. q + 1 - p : SubSeq(l, p, q)[j] = l[p + j - 1]
        BY PartType
      <4>3. q + 1 - p = 1 /\ p <= q /\ SubSeq(l, p, q) = x
        BY <3>1, <4>1
      <4> QED
        BY <4>1, <4>2, <4>3
    <3>3. x[1] = l[k + 1]
      <4>1. 1 \in 1 .. 1 /\ k + 1 + 1 - 1 = k + 1
        OBVIOUS
      <4> QED
        BY <3>2, <4>1
    <3>4. y \in Seq(A) /\ Len(y) = 1 /\ y[1] = l[k + 1]
      BY <2>3, <3>1, JustOne
    <3>5. x = y
      BY <3>2, <3>3, <3>4, SameSequence
    <3> QED
      BY <3>1, <3>5
  <2>7. SubSeq(l, 1, k) \o SubSeq(l, k + 1, k + 1) = SubSeq(l, 1, k + 1)
    <3>1. PICK q \in k .. Len(l) : q = k + 1
      BY <2>1
    <3>2. SubSeq(l, 1, k) \o SubSeq(l, k + 1, q) = SubSeq(l, 1, q)
      BY <2>1, PartsMeet
    <3> QED
      BY <3>1, <3>2
  <2> QED
    BY <2>5, <2>6, <2>7, Zenon DEF Part
<1>3. n \in S
  <2> HIDE DEF S
  <2> QED
    BY <1>1, <1>2, AllNaturals
<1>4. SubSeq(l, 1, n) = l
  OBVIOUS
<1> QED
  BY <1>3, <1>4 DEF Part

LEMMA AllFromTexts ==
  ASSUME NEW A, NEW l \in Seq(A), \A k \in 1 .. Len(l) : FromText(l[k])
  PROVE  FromTexts(l) = l
<1>1. PICK n, f : n \in Nat /\ f = Chosen(l) /\ n = Len(l)
  OBVIOUS
<1> n \in Nat
  BY <1>1
<1>2. FromTexts(l) = FirstOf(f, n) /\ \A k \in 1 .. n : f[k] = Just(l[k])
  BY <1>1, FromTextsFirst
<1>3. FirstOf(f, n) = l
  BY <1>1, <1>2, SinglePieces
<1> QED
  BY <1>2, <1>3

LEMMA NoneFromTexts ==
  ASSUME NEW A, NEW l \in Seq(A), \A k \in 1 .. Len(l) : ~FromText(l[k])
  PROVE  FromTexts(l) = <<>>
<1>1. PICK n, f : n \in Nat /\ f = Chosen(l) /\ n = Len(l)
  OBVIOUS
<1> n \in Nat
  BY <1>1
<1>2. FromTexts(l) = FirstOf(f, n) /\ \A k \in 1 .. n : f[k] = <<>>
  BY <1>1, FromTextsFirst
<1>3. Parts(A, f, 0) /\ Blank(f, 0 + 1, n) /\ 0 \in Nat /\ 0 <= n
  BY <1>2 DEF Parts, Blank
<1>4. FirstOf(f, n) = FirstOf(f, 0)
  BY <1>3, FirstRest
<1> QED
  BY <1>2, <1>4, FirstNone

\* A name and a colon begin the lines with this name only.
NoColon(x) == \A k \in 1 .. Len(x) : x[k] # ":"

LEMMA PrefixIs ==
  ASSUME NEW A, NEW u \in Seq(A), NEW l \in Seq(A)
  PROVE  IsPrefix(u, l) <=> /\ Len(u) <= Len(l)
                            /\ \A k \in 1 .. Len(u) : u[k] = l[k]
<1>1. PICK n \in Nat, m \in Nat : n = Len(u) /\ m = Len(l)
  OBVIOUS
<1>2. IsPrefix(u, l) <=> n <= m /\ SubSeq(u, 1, n) = SubSeq(l, 1, n)
  BY <1>1 DEF IsPrefix
<1>3. SUFFICES ASSUME n <= m
               PROVE  SubSeq(u, 1, n) = SubSeq(l, 1, n)
                        <=> \A k \in 1 .. n : u[k] = l[k]
  BY <1>1, <1>2
<1>4. PICK x, y : x = SubSeq(u, 1, n) /\ y = SubSeq(l, 1, n)
  OBVIOUS
<1>5. /\ 1 \in Nat \ {0} /\ n \in 0 .. Len(u) /\ n \in 0 .. Len(l)
      /\ n + 1 - 1 = n /\ \A k \in 1 .. n : 1 + k - 1 = k
  BY <1>1, <1>3
<1>6. x \in Seq(A) /\ Len(x) = n /\ \A k \in 1 .. n : x[k] = u[k]
  <2>1. /\ SubSeq(u, 1, n) \in Seq(A)
        /\ Len(SubSeq(u, 1, n)) = IF 1 <= n THEN n + 1 - 1 ELSE 0
        /\ \A k \in 1 .. n + 1 - 1 : SubSeq(u, 1, n)[k] = u[1 + k - 1]
    BY <1>5, PartType
  <2> QED
    BY <1>4, <1>5, <2>1
<1>7. y \in Seq(A) /\ Len(y) = n /\ \A k \in 1 .. n : y[k] = l[k]
  <2>1. /\ SubSeq(l, 1, n) \in Seq(A)
        /\ Len(SubSeq(l, 1, n)) = IF 1 <= n THEN n + 1 - 1 ELSE 0
        /\ \A k \in 1 .. n + 1 - 1 : SubSeq(l, 1, n)[k] = l[1 + k - 1]
    BY <1>5, PartType
  <2> QED
    BY <1>4, <1>5, <2>1
<1>8. ASSUME \A k \in 1 .. n : u[k] = l[k] PROVE x = y
  BY <1>6, <1>7, <1>8, SameSequence
<1> QED
  BY <1>4, <1>6, <1>7, <1>8

\* A row of three: the name, the colon, the rest.
IsMarked(l, x, w) == l = Marked(x, w)
LEMMA MarkedIs ==
  ASSUME NEW x, Text(x), NEW w, Text(w), NEW l, IsMarked(l, x, w)
  PROVE  /\ Text(l) /\ Len(l) = Len(x) + 1 + Len(w)
         /\ \A k \in 1 .. Len(x) : l[k] = x[k]
         /\ l[Len(x) + 1] = ":"
<1>1. PICK A, j : A = STRING /\ j = Just(":")
  OBVIOUS
<1>2. /\ j \in Seq(A) /\ Len(j) = 1 /\ j[1] = ":"
      /\ x \in Seq(A) /\ w \in Seq(A)
  BY <1>1, CharacterAssumption, JustOne DEF Text
<1>3. PICK z : IsRow(z, x, j) /\ IsRow(l, z, w)
  BY <1>1 DEF Marked, IsMarked, Just, IsRow
<1>4. /\ z \in Seq(A) /\ Len(z) = Len(x) + Len(j)
      /\ \A k \in 1 .. Len(x) : z[k] = x[k]
      /\ \A k \in 1 .. Len(j) : z[Len(x) + k] = j[k]
  <2>1. x \in Seq(A) /\ j \in Seq(A) /\ IsRow(z, x, j)
    BY <1>2, <1>3
  <2>2. /\ z \in Seq(A) /\ Len(z) = Len(x) + Len(j)
        /\ \A k \in 1 .. Len(x) : z[k] = x[k]
    BY <2>1, RowOf
  <2>3. \A k \in 1 .. Len(j) : z[Len(x) + k] = j[k]
    BY <2>1, RowOf
  <2> QED
    BY <2>2, <2>3
<1>5. PICK n \in Nat : n = Len(x) /\ Len(z) = n + 1 /\ z[n + 1] = ":"
  <2>1. 1 \in 1 .. Len(j)
    BY <1>2
  <2>2. z[Len(x) + 1] = j[1]
    BY <1>4, <2>1
  <2> QED
    BY <1>2, <1>4, <2>2
<1>7. /\ l \in Seq(A) /\ Len(l) = Len(z) + Len(w)
      /\ \A k \in 1 .. Len(z) : l[k] = z[k]
  <2>1. z \in Seq(A) /\ w \in Seq(A) /\ IsRow(l, z, w)
    BY <1>2, <1>3, <1>4
  <2> QED
    BY <2>1, RowOf
<1>12. n + 1 \in 1 .. n + 1 /\ 1 .. n \subseteq 1 .. n + 1
  OBVIOUS
<1>13. \A k \in 1 .. n : l[k] = x[k]
  BY <1>4, <1>5, <1>7, <1>12
<1>14. l[n + 1] = ":"
  BY <1>5, <1>7, <1>12
<1> QED
  BY <1>1, <1>5, <1>7, <1>13, <1>14 DEF Text

LEMMA NamesMeet ==
  ASSUME NEW x, Text(x), NoColon(x), NEW y, Text(y), NoColon(y),
         NEW w, Text(w), NEW l, IsMarked(l, x, w),
         NEW z, z = <<>>, NEW u, IsMarked(u, y, z)
  PROVE  IsPrefix(u, l) <=> x = y
<1>0. PICK A : A = STRING
  OBVIOUS
<1>1. PICK n \in Nat, m \in Nat, p \in Nat :
        n = Len(x) /\ m = Len(y) /\ p = Len(w)
  BY DEF Text
<1>2. /\ Text(l) /\ Len(l) = n + 1 + p /\ \A k \in 1 .. n : l[k] = x[k]
      /\ l[n + 1] = ":"
  <2>1. /\ Text(l) /\ Len(l) = Len(x) + 1 + Len(w)
        /\ \A k \in 1 .. Len(x) : l[k] = x[k]
        /\ l[Len(x) + 1] = ":"
    BY MarkedIs
  <2> QED
    BY <1>1, <2>1
<1>3. /\ Text(u) /\ Len(u) = m + 1 /\ \A k \in 1 .. m : u[k] = y[k]
      /\ u[m + 1] = ":"
  <2>1. Text(z) /\ Len(z) = 0
    BY DEF Text
  <2>2. /\ Text(u) /\ Len(u) = Len(y) + 1 + Len(z)
        /\ \A k \in 1 .. Len(y) : u[k] = y[k]
        /\ u[Len(y) + 1] = ":"
    BY <2>1, MarkedIs
  <2> QED
    BY <1>1, <2>1, <2>2
<1>4. IsPrefix(u, l) <=> /\ m + 1 <= n + 1 + p
                         /\ \A k \in 1 .. m + 1 : u[k] = l[k]
  <2>1. u \in Seq(A) /\ l \in Seq(A)
    BY <1>0, <1>2, <1>3 DEF Text
  <2>2. IsPrefix(u, l) <=> /\ Len(u) <= Len(l)
                           /\ \A k \in 1 .. Len(u) : u[k] = l[k]
    BY <2>1, PrefixIs
  <2> QED
    BY <1>2, <1>3, <2>2
<1>5. ASSUME m + 1 <= n + 1 + p, \A k \in 1 .. m + 1 : u[k] = l[k]
      PROVE  x = y
  <2>1. ~ m < n
    <3> SUFFICES ASSUME m < n PROVE FALSE
      OBVIOUS
    <3>1. m + 1 \in 1 .. n /\ m + 1 \in 1 .. m + 1
      OBVIOUS
    <3>2. x[m + 1] = ":"
      BY <1>2, <1>3, <1>5, <3>1
    <3> QED
      BY <1>1, <3>1, <3>2 DEF NoColon
  <2>2. ~ n < m
    <3> SUFFICES ASSUME n < m PROVE FALSE
      OBVIOUS
    <3>1. n + 1 \in 1 .. m /\ n + 1 \in 1 .. m + 1
      OBVIOUS
    <3>2. y[n + 1] = ":"
      BY <1>2, <1>3, <1>5, <3>1
    <3> QED
      BY <1>1, <3>1, <3>2 DEF NoColon
  <2>3. n = m
    BY <2>1, <2>2
  <2>4. ASSUME NEW k \in 1 .. n PROVE x[k] = y[k]
    <3>1. k \in 1 .. m /\ k \in 1 .. m + 1
      BY <2>3
    <3> QED
      BY <1>2, <1>3, <1>5, <3>1
  <2>5. x \in Seq(A) /\ y \in Seq(A)
    BY <1>0 DEF Text
  <2> QED
    BY <1>1, <2>3, <2>4, <2>5, SameSequence
<1>6. ASSUME x = y
      PROVE  m + 1 <= n + 1 + p /\ \A k \in 1 .. m + 1 : u[k] = l[k]
  <2>1. n = m
    BY <1>1, <1>6
  <2>2. ASSUME NEW k \in 1 .. m + 1 PROVE u[k] = l[k]
    <3>1. CASE k = m + 1
      BY <1>2, <1>3, <2>1, <3>1
    <3>2. CASE k \in 1 .. m
      BY <1>2, <1>3, <1>6, <2>1, <3>2
    <3> QED
      BY <3>1, <3>2
  <2> QED
    BY <2>1, <2>2
<1> QED
  BY <1>4, <1>5, <1>6

LEMMA NamesOfLines ==
  ASSUME SearchedImage, NEW i \in 1 .. Len(direntries)
  PROVE  /\ ListedName(i) \in LineTexts /\ Text(ListedName(i))
         /\ NoColon(ListedName(i)) /\ Prefix(i) = Marked(ListedName(i), <<>>)
<1>1. i \in DOMAIN direntries /\ Text(ListedName(i))
  BY NamesAreTexts, DirectoryAssumption DEF Text
<1>2. OneLine(ListedName(i)) /\ NoColon(ListedName(i))
  BY <1>1 DEF SearchedImage, OneLine, NoColon, EndOfLine, NEWLINE
<1>3. Prefix(i) = Marked(ListedName(i), <<>>)
  <2>1. PICK A, x, j : A = STRING /\ x = ListedName(i) /\ j = Just(":")
    OBVIOUS
  <2>2. x \in Seq(A) /\ j \in Seq(A)
    BY <1>1, <2>1, CharacterAssumption, JustOne DEF Text
  <2>3. (x \o j) \o <<>> = x \o j
    BY <2>2
  <2> QED
    BY <2>1, <2>3, Zenon DEF Prefix, Marked, Just
<1> QED
  BY <1>1, <1>2, <1>3, LineTextIs

\* Of the lines that grep prints for an entry, all or none are from texts.
LEMMA OwnPrefix ==
  ASSUME SearchedImage, NEW i \in 1 .. Len(direntries), NEW w \in LineTexts
  PROVE  FromText(Marked(ListedName(i), w)) <=> i \in TextFiles
<1>1. Text(w)
  BY LineTextIs
<1>2. ASSUME NEW j \in TextFiles
      PROVE  IsPrefix(Prefix(j), Marked(ListedName(i), w)) <=> i = j
  <2>1. j \in 1 .. Len(direntries) /\ i \in DOMAIN direntries
        /\ j \in DOMAIN direntries
    BY DirectoryAssumption DEF TextFiles
  <2>2. PICK x, y, z, l, u :
          /\ x = ListedName(i) /\ y = ListedName(j) /\ z = <<>>
          /\ l = Marked(x, w) /\ u = Marked(y, z)
          /\ IsMarked(l, x, w) /\ IsMarked(u, y, z)
    BY DEF IsMarked
  <2>3. /\ Text(x) /\ NoColon(x) /\ Text(y) /\ NoColon(y) /\ Prefix(j) = u
    BY <2>1, <2>2, NamesOfLines
  <2>4. IsPrefix(u, l) <=> x = y
    BY <1>1, <2>2, <2>3, NamesMeet
  <2>5. x = y <=> i = j
    BY <2>1, <2>2 DEF SearchedImage
  <2> QED
    BY <2>2, <2>3, <2>4, <2>5
<1> QED
  BY <1>2 DEF FromText

LEMMA MappedLines ==
  ASSUME SearchedImage, NEW i \in 1 .. Len(direntries),
         NEW lines \in Seq(LineTexts)
  PROVE  /\ Mapped(ListedName(i), lines) \in Seq(Seq(STRING))
         /\ FromTexts(Mapped(ListedName(i), lines))
              = IF i \in TextFiles THEN Mapped(ListedName(i), lines) ELSE <<>>
<1>1. PICK n, l : /\ n \in Nat /\ n = Len(lines)
                  /\ l = Mapped(ListedName(i), lines)
  OBVIOUS
<1> n \in Nat
  BY <1>1
<1>0. DOMAIN lines = 1 .. n
  BY <1>1
<1>2. ASSUME NEW k \in 1 .. n
      PROVE  l[k] = Marked(ListedName(i), lines[k]) /\ lines[k] \in LineTexts
  BY <1>0, <1>1 DEF Mapped
<1>3. ListedName(i) \in LineTexts
  BY NamesOfLines
<1>4. ASSUME NEW k \in 1 .. n
      PROVE  l[k] \in Seq(STRING) /\ (FromText(l[k]) <=> i \in TextFiles)
  <2>1. l[k] \in LineTexts
    BY <1>2, <1>3, MarkedIsLine
  <2> QED
    BY <1>2, <2>1, OwnPrefix, LineTextIs DEF Text
<1>5. l \in Seq(Seq(STRING)) /\ Len(l) = n
  <2>1. l = [k \in 1 .. n |-> l[k]]
    <3>1. PICK name : name = ListedName(i)
      OBVIOUS
    <3>2. l = [k \in 1 .. n |-> Marked(name, lines[k])]
      <4>1. l = Mapped(name, lines)
        BY <1>1, <3>1
      <4> QED
        BY <1>0, <4>1 DEF Mapped
    <3> QED
      BY <3>2
  <2>2. PICK A : A = Seq(STRING)
    OBVIOUS
  <2>3. \A k \in 1 .. n : l[k] \in A
    BY <1>4, <2>2
  <2> QED
    BY <2>1, <2>2, <2>3
<1>6. CASE i \in TextFiles
  BY <1>1, <1>4, <1>5, <1>6, AllFromTexts
<1>7. CASE i \notin TextFiles
  BY <1>1, <1>4, <1>5, <1>7, NoneFromTexts
<1> QED
  BY <1>1, <1>5, <1>6, <1>7

LEMMA Enumerated ==
  ASSUME NEW A, NEW n \in Nat, NEW f, f = [k \in 1 .. n |-> f[k]],
         \A k \in 1 .. n : f[k] \in A
  PROVE  f \in Seq(A) /\ Len(f) = n
OBVIOUS

\* The lines of two finds in a row.
LEMMA MappedBoth ==
  ASSUME NEW A, NEW name, NEW x \in Seq(A), NEW y \in Seq(A)
  PROVE  Mapped(name, Glue(x, y)) = Glue(Mapped(name, x), Mapped(name, y))
<1>1. PICK m, n, z :
        /\ m \in Nat /\ n \in Nat
        /\ IsRow(z, x, y) /\ m = Len(x) /\ n = Len(y)
  <2>1. Len(x) \in Nat /\ Len(y) \in Nat
    OBVIOUS
  <2> QED
    BY <2>1, Zenon DEF IsRow
<1> m \in Nat /\ n \in Nat
  BY <1>1
<1>2. /\ z \in Seq(A) /\ Len(z) = m + n
      /\ \A k \in 1 .. m : z[k] = x[k]
      /\ \A k \in 1 .. n : z[m + k] = y[k]
  <2>1. /\ z \in Seq(A) /\ Len(z) = Len(x) + Len(y)
        /\ \A k \in 1 .. Len(x) : z[k] = x[k]
        /\ \A k \in 1 .. Len(y) : z[Len(x) + k] = y[k]
    <3>1. IsRow(z, x, y) /\ x \in Seq(A) /\ y \in Seq(A)
      BY <1>1
    <3> QED
      BY <3>1, RowOf
  <2>2. m = Len(x) /\ n = Len(y)
    BY <1>1
  <2> QED
    BY <2>1, <2>2, Zenon
<1>3. PICK f, g, h : /\ f = Mapped(name, x) /\ g = Mapped(name, y)
                     /\ h = Mapped(name, z)
  OBVIOUS
<1>4. PICK q \in Nat : q = m + n
  OBVIOUS
<1>5. /\ \A k \in 1 .. m : f[k] = Marked(name, x[k])
      /\ f = [k \in 1 .. m |-> f[k]]
  <2>1. DOMAIN x = 1 .. m
    BY <1>1
  <2> QED
    BY <1>3, <2>1 DEF Mapped
<1>6. /\ \A k \in 1 .. n : g[k] = Marked(name, y[k])
      /\ g = [k \in 1 .. n |-> g[k]]
  <2>1. DOMAIN y = 1 .. n
    BY <1>1
  <2> QED
    BY <1>3, <2>1 DEF Mapped
<1>7. /\ \A k \in 1 .. q : h[k] = Marked(name, z[k])
      /\ h = [k \in 1 .. q |-> h[k]]
  <2>1. DOMAIN z = 1 .. q
    BY <1>2, <1>4
  <2> QED
    BY <1>3, <2>1 DEF Mapped
<1>8. PICK B : B = {f[k] : k \in 1 .. m} \cup {g[k] : k \in 1 .. n}
                   \cup {h[k] : k \in 1 .. q}
  OBVIOUS
<1>9. f \in Seq(B) /\ Len(f) = m
  <2>1. \A k \in 1 .. m : f[k] \in B
    BY <1>8
  <2> QED
    BY <1>5, <2>1, Enumerated
<1>10. g \in Seq(B) /\ Len(g) = n
  <2>1. \A k \in 1 .. n : g[k] \in B
    BY <1>8
  <2> QED
    BY <1>6, <2>1, Enumerated
<1>11. h \in Seq(B) /\ Len(h) = q
  <2>1. \A k \in 1 .. q : h[k] \in B
    BY <1>8
  <2> QED
    BY <1>7, <2>1, Enumerated
<1>0. PICK v : IsRow(v, f, g)
  BY DEF IsRow
<1>12. /\ v \in Seq(B) /\ Len(v) = q
       /\ \A k \in 1 .. m : v[k] = f[k]
       /\ \A k \in 1 .. n : v[m + k] = g[k]
  <2>1. f \in Seq(B) /\ g \in Seq(B)
    BY <1>9, <1>10
  <2>2. /\ v \in Seq(B) /\ Len(v) = Len(f) + Len(g)
        /\ \A k \in 1 .. Len(f) : v[k] = f[k]
        /\ \A k \in 1 .. Len(g) : v[Len(f) + k] = g[k]
    BY <2>1, <1>0, RowOf
  <2> QED
    BY <1>4, <1>9, <1>10, <2>2
<1>13. ASSUME NEW k \in 1 .. q PROVE h[k] = v[k]
  <2>1. CASE k \in 1 .. m
    BY <1>2, <1>4, <1>5, <1>7, <1>12, <2>1
  <2>2. CASE k \in m + 1 .. m + n
    <3>1. PICK i \in 1 .. n : k = m + i
      <4>1. k - m \in 1 .. n /\ k = m + (k - m)
        BY <2>2
      <4> QED
        BY <4>1
    <3> QED
      BY <1>2, <1>6, <1>7, <1>12, <3>1
  <2> QED
    BY <1>4, <2>1, <2>2
<1>14. h = v
  BY <1>11, <1>12, <1>13, SameSequence
<1> QED
  BY <1>0, <1>1, <1>3, <1>14, Zenon DEF Glue, IsRow

LEMMA SearchedMore ==
  ASSUME SearchedImage, NEW i \in 1 .. Len(direntries),
         NEW lines \in Seq(LineTexts), NEW x, Text(x), EndsLine(x),
         NEW t, t = Behind(x, Output(ListedName(i), lines), Len(lines)),
         NEW r, FromTexts(LinesOf(x)) = r
  PROVE  /\ Text(t) /\ EndsLine(t)
         /\ i \in TextFiles =>
              FromTexts(LinesOf(t)) = Glue(r, Mapped(ListedName(i), lines))
         /\ i \notin TextFiles => FromTexts(LinesOf(t)) = r
<1>1. PICK A, name : A = Seq(STRING) /\ name = ListedName(i)
  OBVIOUS
<1>2. name \in LineTexts
  BY <1>1, NamesOfLines
<1>3. /\ Text(t) /\ EndsLine(t)
      /\ LinesOf(t) = Glue(LinesOf(x), Mapped(name, lines))
  BY <1>1, <1>2, OutputLines
<1>4. PICK u, v : u = LinesOf(x) /\ v = Mapped(name, lines)
  OBVIOUS
<1>5. u \in Seq(A)
  BY <1>1, <1>4, LinesFirst
<1>6. v \in Seq(A) /\ FromTexts(v) = IF i \in TextFiles THEN v ELSE <<>>
  BY <1>1, <1>4, MappedLines
<1>7. FromTexts(Glue(u, v)) = Glue(FromTexts(u), FromTexts(v))
  BY <1>5, <1>6, FromTextsBoth
<1>8. r \in Seq(A)
  BY <1>4, <1>5, FromTextsFirst
<1>9. r \o <<>> = r
  BY <1>8
<1>10. Glue(r, <<>>) = r
  BY <1>9, Zenon DEF Glue
<1> QED
  BY <1>1, <1>3, <1>4, <1>6, <1>7, <1>10

LEMMA MappedType ==
  ASSUME NEW name, Text(name), NEW lines \in Seq(Seq(STRING))
  PROVE  Mapped(name, lines) \in Seq(Seq(STRING))
<1>1. PICK n, l, A :
        /\ n \in Nat
        /\ n = Len(lines) /\ l = Mapped(name, lines) /\ A = Seq(STRING)
  OBVIOUS
<1> n \in Nat
  BY <1>1
<1>2. DOMAIN lines = 1 .. n
  BY <1>1
<1>3. l = [k \in 1 .. n |-> Marked(name, lines[k])]
  BY <1>1, <1>2 DEF Mapped
<1>4. l = [k \in 1 .. n |-> l[k]]
  BY <1>3
<1>5. ASSUME NEW k \in 1 .. n PROVE l[k] \in A
  <2>1. PICK w, m : w = lines[k] /\ m = l[k]
    OBVIOUS
  <2>2. IsMarked(m, name, w)
    BY <1>3, <2>1 DEF IsMarked
  <2>3. Text(w)
    BY <1>1, <2>1 DEF Text
  <2>4. Text(m)
    BY <2>2, <2>3, MarkedIs
  <2> QED
    BY <1>1, <2>1, <2>4 DEF Text
<1> QED
  BY <1>1, <1>4, <1>5, Enumerated

\* What the entries give, one after the other.
LEMMA ContentIs ==
  ASSUME NEW i \in TextFiles
  PROVE  /\ i \in 1 .. Len(direntries) /\ direntries[i].filetype = "file"
         /\ Text(FileText(i)) /\ IsText(FileText(i))
         /\ \A k \in 1 .. Len(FileText(i)) : FileText(i)[k] # NUL
<1>1. /\ i \in 1 .. Len(direntries) /\ direntries[i].filetype = "file"
      /\ IsText(FileText(i))
  BY DirectoryAssumption DEF TextFiles, FileText
<1>2. Text(FileText(i))
  BY <1>1, DirectoryAssumption, ImageAssumption DEF FileText, Text
<1>3. \A k \in 1 .. Len(FileText(i)) : FileText(i)[k] # NUL
  BY <1>1 DEF IsText, NUL
<1> QED
  BY <1>1, <1>2, <1>3

LEMMA AllPieces ==
  ASSUME NEW s, NEW t, Text(t)
  PROVE  LinesWith(s, t) = FirstOf(Pieces(s, t), Len(t))
<1>1. PICK n, f : n \in Nat /\ n = Len(t) /\ f = Pieces(s, t)
  BY DEF Text
<1> n \in Nat
  BY <1>1
<1>2. DOMAIN t = 1 .. n
  BY <1>1 DEF Text
<1>3. f = [k \in 1 .. n |-> f[k]]
  BY <1>1, <1>2 DEF Pieces
<1>4. LinesWith(s, t) = FlattenSeq(f)
  BY <1>1, Zenon DEF LinesWith, Pieces
<1> QED
  BY <1>1, <1>3, <1>4, FirstAll

LEMMA EntryIs ==
  ASSUME NEW s, NEW i \in 1 .. Len(direntries)
  PROVE  /\ i \in TextFiles =>
              Entries(s)[i] =
                Mapped(ListedName(i),
                       FirstOf(Pieces(s, FileText(i)), Len(FileText(i))))
         /\ i \notin TextFiles => Entries(s)[i] = <<>>
         /\ Entries(s)[i] \in Seq(Seq(STRING))
<1>1. i \in DOMAIN direntries
  BY DirectoryAssumption
<1>2. CASE i \in TextFiles
  <2>1. PICK t, l : t = FileText(i) /\ l = FirstOf(Pieces(s, t), Len(t))
    OBVIOUS
  <2>2. Text(t)
    BY <1>2, <2>1, ContentIs
  <2>3. LinesWith(s, t) = l
    BY <2>1, <2>2, AllPieces
  <2>4. Entries(s)[i] = Mapped(ListedName(i), LinesWith(s, t))
    BY <1>1, <1>2, <2>1 DEF Entries, FileText
  <2>5. l \in Seq(Seq(STRING))
    <3>1. Len(t) \in 0 .. Len(t)
      BY <2>2 DEF Text
    <3> QED
      BY <2>1, <2>2, <3>1, PiecesType
  <2>6. Text(ListedName(i))
    BY NamesAreTexts DEF Text
  <2>7. Mapped(ListedName(i), l) \in Seq(Seq(STRING))
    BY <2>5, <2>6, MappedType
  <2> QED
    BY <1>2, <2>1, <2>3, <2>4, <2>7
<1>3. CASE i \notin TextFiles
  <2>1. Entries(s)[i] = <<>>
    BY <1>1, <1>3 DEF Entries
  <2> QED
    BY <1>3, <2>1
<1> QED
  BY <1>2, <1>3

LEMMA EntriesFirst ==
  ASSUME NEW s
  PROVE  /\ \A k \in 0 .. Len(direntries) :
              FirstOf(Entries(s), k) \in Seq(Seq(STRING))
         /\ \A i \in 1 .. Len(direntries) :
              FirstOf(Entries(s), i)
                = Glue(FirstOf(Entries(s), i - 1), Entries(s)[i])
         /\ FirstOf(Entries(s), Len(direntries)) = GrepAnswer(s)
<1>1. PICK n, f, A :
        /\ n \in Nat
        /\ n = Len(direntries) /\ f = Entries(s) /\ A = Seq(STRING)
  <2>1. Len(direntries) \in Nat
    OBVIOUS
  <2> QED
    BY <2>1, Zenon
<1> n \in Nat
  BY <1>1
<1>2. \A i \in 1 .. n : f[i] \in Seq(A)
  BY <1>1, EntryIs
<1>3. ASSUME NEW k \in 0 .. n PROVE FirstOf(f, k) \in Seq(A)
  <2>1. k \in Nat /\ \A i \in 1 .. k : f[i] \in Seq(A)
    BY <1>2
  <2> QED
    BY <2>1, FirstType
<1>4. ASSUME NEW i \in 1 .. n
      PROVE  FirstOf(f, i) = Glue(FirstOf(f, i - 1), f[i])
  <2>1. PICK k \in 0 .. n : k = i - 1 /\ k \in Nat /\ k + 1 = i
    OBVIOUS
  <2>2. FirstOf(f, k) \in Seq(A) /\ f[k + 1] \in Seq(A)
    BY <1>2, <1>3, <2>1
  <2>3. FirstOf(f, k + 1) = FirstOf(f, k) \o f[k + 1]
    BY <2>1, <2>2, FirstNext
  <2> QED
    BY <2>1, <2>3, Zenon DEF Glue
<1>5. FirstOf(f, n) = GrepAnswer(s)
  <2>1. DOMAIN direntries = 1 .. n
    BY <1>1, DirectoryAssumption
  <2>2. f = [i \in 1 .. n |-> f[i]]
    BY <1>1, <2>1 DEF Entries
  <2>3. FlattenSeq(f) = FirstOf(f, n)
    BY <2>2, FirstAll
  <2>4. GrepAnswer(s) = FlattenSeq(f)
    BY <1>1, Zenon DEF GrepAnswer, Entries, Mapped, Marked, Prefix
  <2> QED
    BY <2>3, <2>4
<1> QED
  BY <1>1, <1>3, <1>4, <1>5

\* Of a text, what is found in some more of it.
LEMMA FoundMore ==
  ASSUME NEW name, Text(name), NEW e \in Seq(Seq(STRING)),
         NEW x \in Seq(Seq(STRING)), NEW y \in Seq(Seq(STRING))
  PROVE  Glue(Glue(e, Mapped(name, x)), Mapped(name, y))
           = Glue(e, Mapped(name, Glue(x, y)))
<1>1. PICK A, u, v : /\ A = Seq(STRING) /\ u = Mapped(name, x)
                     /\ v = Mapped(name, y)
  OBVIOUS
<1>2. u \in Seq(A) /\ v \in Seq(A) /\ e \in Seq(A)
  BY <1>1, MappedType
<1>3. Mapped(name, Glue(x, y)) = Glue(u, v)
  BY <1>1, MappedBoth
<1>4. (e \o u) \o v = e \o (u \o v)
  BY <1>2, Associative
<1> QED
  BY <1>1, <1>3, <1>4, Zenon DEF Glue

(***************************************************************************)
(* grep: its steps.                                                        *)
(***************************************************************************)
\* The argument s stays what it is.
Argument(s) == sys_getargs(BUFSIZE).code = 0 /\ sys_getargs(BUFSIZE).bytes = s

LEMMA ArgumentStays ==
  ASSUME UNCHANGED kernel
  PROVE  /\ sys_getargs(BUFSIZE)' = sys_getargs(BUFSIZE)
         /\ \A s : Argument(s)' <=> Argument(s)
BY DEF kernel, sys_getargs, Argument

LEMMA ArgumentIsText ==
  ASSUME SInv, Running, NEW s, Argument(s) PROVE Text(s) /\ s # <<>>
<1> DEFINE c == line
           n == FnameLength(c)
<1>1. c \in Lines /\ CString(arg, 0) = ArgsOf(c) /\ arg_length = Len(ArgsOf(c))
  BY RunningFacts DEF Parsed
<1>2. sys_getargs(BUFSIZE) = [code |-> 0, bytes |-> CString(arg, 0)]
      /\ arg_length # 0
  <2>1. Failed.code = -1
    BY DEF Failed
  <2> QED
    BY <2>1 DEF sys_getargs, Argument
<1>3. s = ArgsOf(c) /\ Len(s) # 0
  BY <1>1, <1>2 DEF Argument
<1>4. c \in Seq(STRING) /\ n \in 0 .. Len(c)
  BY <1>1, FnameLengthFits, LaunchAssumption
<1> HIDE DEF c, n
<1>5. SubSeq(c, n + 2, Len(c)) \in Seq(STRING)
  <2>1. PICK p \in Nat \ {0} : p = n + 2
    BY <1>4
  <2> QED
    BY <1>4, <2>1
<1>6. s \in Seq(STRING)
  BY <1>3, <1>5 DEF ArgsOf, n
<1> QED
  BY <1>3, <1>6 DEF Text

\* What is to be shown of a step.
InFiles == {"read", "open", "fill", "close"}

LEMMA GrepGoesOn ==
  ASSUME prog' = "grep", pc' \in InFiles, ~loc'.dirty => GrepState'
  PROVE  GrepShown'
BY DEF GrepShown, InFiles

LEMMA GrepEnds ==
  ASSUME prog' = "grep", pc' = "exit",
         NEW s, Argument(s)' /\ ~loc'.dirty => Shows(GrepAnswer(s))',
         sys_getargs(BUFSIZE)'.bytes = s
  PROVE  GrepShown'
<1>1. ShowsAnswer'
  BY DEF ShowsAnswer, Argument, Shows
<1> QED
  BY <1>1 DEF GrepShown

LEMMA DirectoryOpen ==
  ASSUME SearchedImage, SInv, prog = "grep", pc \in InFiles, NEW d,
         d = Named(<<".">>)
  PROVE  /\ d \in 1 .. Len(direntries) /\ direntries[d].filetype = "dir"
         /\ Reads(loc.fd, d) /\ Running /\ IInv /\ Child \in Slots
         /\ Using(loc.fd, "dir")
<1>1. Running /\ EntriesFor(<<".">>) # {}
  BY DEF Running, InFiles, SearchedImage, ListedImage
<1>2. IInv /\ Using(loc.fd, "dir") /\ Child \in Slots
  BY <1>1, RunningFacts DEF LocalInv, GrepInv, InFiles
<1>3. d \in 1 .. Len(direntries) /\ direntries[d].filetype = "dir"
  BY <1>1, NamedIsEntry, ListedAll
<1> QED
  BY <1>1, <1>2, <1>3 DEF Reads, Using

LEMMA NothingShown ==
  ASSUME NEW s
  PROVE  /\ Text(<<>>) /\ EndsLine(<<>>)
         /\ FromTexts(LinesOf(<<>>)) = FirstOf(Entries(s), 0)
<1>1. FromTexts(<<>>) = <<>>
  <2>1. PICK l, A : l = <<>> /\ A = STRING
    OBVIOUS
  <2>2. l \in Seq(A) /\ Len(l) = 0
    BY <2>1, NoLines DEF Text
  <2>3. \A k \in 1 .. Len(l) : ~FromText(l[k])
    BY <2>2
  <2>4. FromTexts(l) = <<>>
    BY <2>2, <2>3, NoneFromTexts
  <2> QED
    BY <2>1, <2>4
<1> QED
  BY <1>1, NoLines, FirstNone DEF EndsLine

LEMMA GrepStartShows ==
  ASSUME SearchedImage, SInv, GrepShown, UNCHANGED <<kernel, shell, prog>>,
         GrepStart
  PROVE  GrepShown'
<1>1. prog = "grep" /\ prog' = "grep" /\ pc = "start" /\ Running /\ Begun
  BY DEF GrepStart, At, Running, GrepShown
<1>2. PICK s : s = sys_getargs(BUFSIZE).bytes
  OBVIOUS
<1>3. s = sys_getargs(BUFSIZE)'.bytes /\ (Argument(s)' <=> Argument(s))
  BY <1>2, ArgumentStays
<1>4. CASE sys_getargs(BUFSIZE).code # 0
  <2>1. PICK message : message = "could not read argument"
    OBVIOUS
  <2>2. Fail(message, 3)
    BY <1>4, <2>1 DEF GrepStart
  <2>3. pc' = "exit"
    BY <2>2 DEF Fail, Exit
  <2> QED
    BY <1>1, <1>3, <1>4, <2>3, GrepEnds DEF Argument
<1>5. CASE sys_getargs(BUFSIZE).code = 0
  <2>1. PICK name, message :
          /\ name = <<".">> /\ message = "directory open failed"
    OBVIOUS
  <2>2. OpenOrFail(name, message)
    BY <1>5, <2>1 DEF GrepStart
  <2>3. EntriesFor(name) # {}
    BY <2>1 DEF SearchedImage, ListedImage
  <2>4. /\ pc' = "read" /\ shown' = <<>>
        /\ Position(loc.fd)' = 0
        /\ \A d \in Regular : d # loc'.fd => f_desc'[Child][d].flag = 1
    BY <1>1, <2>2, <2>3, BeginsToRead
  <2>5. sys_getargs(BUFSIZE)'.code = 0
    BY <1>5, ArgumentStays
  <2>6. OnlyOpen({loc.fd})'
    BY <2>4 DEF OnlyOpen
  <2>7. shown' \in Seq(STRING) /\ EndsLine(shown)'
        /\ Shows(FirstOf(Entries(s), 0))'
    <3>1. /\ Text(<<>>) /\ EndsLine(<<>>)
          /\ FromTexts(LinesOf(<<>>)) = FirstOf(Entries(s), 0)
      BY NothingShown
    <3> QED
      BY <2>4, <3>1 DEF Text, EndsLine, Shows
  <2>8. 0 \in 0 .. Len(direntries)
    BY DirectoryAssumption
  <2>9. GrepState'
    BY <1>3, <2>4, <2>5, <2>6, <2>7, <2>8 DEF GrepState
  <2> QED
    BY <1>1, <2>4, <2>9, GrepGoesOn DEF InFiles
<1> QED
  BY <1>4, <1>5

LEMMA OpenKept ==
  ASSUME NEW fd, NEW fds, fd \in fds, Only(fd), OnlyOpen(fds)
  PROVE  \A x \in Regular \ fds : f_desc'[Child][x].flag = 1
BY DescriptorAssumption DEF Only, OnlyOpen, Regular

\* An entry that is searched gives all that it has to give.
LEMMA NextEntry ==
  ASSUME NEW s, NEW q \in 1 .. Len(direntries), q \notin TextFiles
  PROVE  FirstOf(Entries(s), q) = FirstOf(Entries(s), q - 1)
<1>1. PICK p, e, A :
        /\ p \in 0 .. Len(direntries)
        /\ p = q - 1 /\ e = FirstOf(Entries(s), p) /\ A = Seq(STRING)
  OBVIOUS
<1> p \in 0 .. Len(direntries)
  BY <1>1
<1>2. e \in Seq(A)
  BY <1>1, EntriesFirst
<1>3. e \o <<>> = e
  BY <1>2
<1>4. FirstOf(Entries(s), q) = Glue(FirstOf(Entries(s), q - 1), Entries(s)[q])
  BY EntriesFirst
<1>5. Entries(s)[q] = <<>>
  BY EntryIs
<1> QED
  BY <1>1, <1>3, <1>4, <1>5, Zenon DEF Glue

LEMMA GrepNameShows ==
  ASSUME SearchedImage, SInv, GrepShown, UNCHANGED <<kernel, shell, prog>>,
         GrepName
  PROVE  GrepShown'
<1>1. /\ prog = "grep" /\ prog' = "grep" /\ pc = "read"
      /\ Read(Child, loc.fd, FILENAME_LEN, FALSE)
  <2>1. Read(Child, loc.fd, SBUFSIZE - 1, FALSE)
    BY DEF GrepName
  <2>2. SBUFSIZE - 1 = FILENAME_LEN
    BY SomeSizes
  <2> QED
    BY <2>1, <2>2 DEF GrepName, At
<1>2. PICK s, d, fd :
        /\ s = sys_getargs(BUFSIZE).bytes /\ d = Named(<<".">>) /\ fd = loc.fd
  OBVIOUS
<1>3. s = sys_getargs(BUFSIZE)'.bytes /\ (Argument(s)' <=> Argument(s))
  BY <1>2, ArgumentStays
<1>4. /\ d \in 1 .. Len(direntries) /\ direntries[d].filetype = "dir"
      /\ Reads(fd, d) /\ Running /\ IInv /\ fd \in Regular
  BY <1>1, <1>2, DirectoryOpen DEF InFiles, Using
<1>5. /\ loc' = loc /\ pc' \in {"exit", "read", "open"}
      /\ ret'.code = 0 => pc' = "exit" /\ shown' = shown
      /\ ret'.code > 0 => /\ shown' = shown
                          /\ pc' = IF ret'.bytes[1] = "." THEN "read"
                                   ELSE "open"
  <2>1. FILENAME_LEN \in Nat /\ FILENAME_LEN \in AllSizes
    BY SomeSizes
  <2>2. ret'.code = -1 \/ ret'.code \in Nat
    <3>1. /\ ret'.bytes \in Seq(STRING)
          /\ ret'.code = -1 \/ ret'.code = Len(ret'.bytes)
      BY <1>1, <1>2, <1>4, <2>1, ProgramReads
    <3> QED
      BY <3>1
  <2>3. CASE ret'.code = -1
    <3> DEFINE message == "directory entry read failed"
    <3>1. ret'.code # 0 /\ ~(ret'.code > 0)
      BY <2>3
    <3>2. Fail(message, 3)
      BY <2>3, <3>1 DEF GrepName
    <3> HIDE DEF message
    <3> QED
      BY <2>3, <3>2 DEF Fail, Exit
  <2>4. CASE ret'.code = 0
    BY <2>4 DEF GrepName, Exit
  <2>5. CASE ret'.code \in Nat /\ ret'.code # 0
    <3>1. ret'.code > 0 /\ ret'.code # -1
      BY <2>5
    <3>2. /\ Go(IF ret'.bytes[1] = "." THEN "read" ELSE "open", loc)
          /\ shown' = shown
      BY <2>5, <3>1 DEF GrepName
    <3> QED
      BY <2>5, <3>2 DEF Go
  <2> QED
    BY <2>2, <2>3, <2>4, <2>5
<1>6. CASE loc.dirty
  BY <1>1, <1>3, <1>5, <1>6, GrepGoesOn, GrepEnds DEF InFiles
<1>7. CASE ~loc.dirty
  <2>1. GrepState
    BY <1>1, <1>7 DEF GrepShown
  <2>2. PICK p \in 0 .. Len(direntries) : p = Position(fd)
    BY <1>2, <2>1 DEF GrepState
  <2>3. /\ Argument(s) /\ OnlyOpen({fd}) /\ Shows(FirstOf(Entries(s), p))
        /\ shown \in Seq(STRING) /\ EndsLine(shown)
    BY <1>1, <1>2, <2>1, <2>2 DEF GrepState, Argument
  <2>4. PICK k \in Nat :
          /\ ret'.code = k /\ Only(fd)
          /\ k = 0 <=> p = Len(direntries)
          /\ k # 0 => /\ ret'.bytes = ListedName(p + 1)
                      /\ Reads(fd, d)' /\ Position(fd)' = p + 1
    <3>1. GivesEntry(fd, d, p)
      <4>1. FILENAME_LEN \in Nat /\ FILENAME_LEN <= FILENAME_LEN
        BY SomeSizes
      <4> QED
        BY <1>1, <1>2, <1>4, <2>2, <4>1, EntryRead DEF SearchedImage
    <3> QED
      BY <3>1 DEF GivesEntry
  <2>5. CASE k = 0
    <3>1. Shows(GrepAnswer(s))
      BY <2>3, <2>4, <2>5, EntriesFirst
    <3>2. pc' = "exit" /\ shown' = shown
      BY <1>5, <2>4, <2>5
    <3>3. Shows(GrepAnswer(s))'
      BY <3>1, <3>2 DEF Shows
    <3> QED
      BY <1>1, <1>3, <3>2, <3>3, GrepEnds
  <2>6. CASE k # 0
    <3>1. PICK q \in 1 .. Len(direntries) : q = p + 1 /\ q # 0 /\ q - 1 = p
      BY <2>2, <2>4, <2>6, DirectoryAssumption
    <3>2. /\ shown' = shown /\ ret'.bytes = ListedName(q) /\ Position(fd)' = q
          /\ pc' = IF ret'.bytes[1] = "." THEN "read" ELSE "open"
      BY <1>5, <2>4, <2>6, <3>1
    <3>3. /\ OnlyOpen({loc.fd})' /\ Position(loc.fd)' = q
      <4>1. \A x \in Regular \ {fd} : f_desc'[Child][x].flag = 1
        BY <2>3, <2>4, OpenKept
      <4>2. fd = loc'.fd
        BY <1>2, <1>5
      <4> QED
        BY <3>2, <4>1, <4>2 DEF OnlyOpen, Position
    <3>4. /\ sys_getargs(BUFSIZE)'.code = 0 /\ shown' \in Seq(STRING)
          /\ EndsLine(shown)' /\ q \in 0 .. Len(direntries)
      BY <2>3, <3>1, <3>2, ArgumentStays DEF EndsLine, Argument
    <3>5. CASE ret'.bytes[1] = "."
      <4>1. q \notin TextFiles
        BY <3>2, <3>5 DEF SearchedImage
      <4>2. Shows(FirstOf(Entries(s), q))
        BY <2>3, <3>1, <4>1, NextEntry
      <4>3. Shows(FirstOf(Entries(s), q))'
        BY <3>2, <4>2 DEF Shows
      <4>4. GrepState'
        BY <1>3, <3>2, <3>3, <3>4, <3>5, <4>3 DEF GrepState
      <4> QED
        BY <1>1, <3>2, <3>5, <4>4, GrepGoesOn DEF InFiles
    <3>6. CASE ret'.bytes[1] # "."
      <4>1. Shows(FirstOf(Entries(s), q - 1))'
        BY <2>3, <3>1, <3>2 DEF Shows
      <4>2. GrepState'
        BY <1>3, <3>1, <3>2, <3>3, <3>4, <3>6, <4>1 DEF GrepState
      <4> QED
        BY <1>1, <3>2, <3>6, <4>2, GrepGoesOn DEF InFiles
    <3> QED
      BY <3>5, <3>6
  <2> QED
    BY <2>5, <2>6
<1> QED
  BY <1>6, <1>7

LEMMA OwnName ==
  ASSUME SearchedImage, NEW i \in 1 .. Len(direntries), NEW name,
         name = ListedName(i)
  PROVE  EntriesFor(name) # {} /\ \A j \in EntriesFor(name) : j = i
<1>1. Cut(name) = name
  <2>1. direntries[i].filename \in Seq(STRING)
    BY DirectoryAssumption
  <2>2. Len(name) <= FILENAME_LEN
    BY <2>1, SizeAssumption DEF ListedName, Cut
  <2> QED
    BY <2>2 DEF Cut
<1>2. EntriesFor(name) = {j \in 1 .. Len(direntries) : ListedName(j) = name}
  BY <1>1 DEF EntriesFor, ListedName
<1>3. \A j \in 1 .. Len(direntries) : ListedName(j) = ListedName(i) => j = i
  BY DirectoryAssumption DEF SearchedImage
<1> QED
  BY <1>2, <1>3

LEMMA MappedNothing == ASSUME NEW name PROVE Mapped(name, <<>>) = <<>>
BY DEF Mapped

\* The search of a text begins with nothing found.
LEMMA NothingFoundYet ==
  ASSUME NEW s, NEW i \in 1 .. Len(direntries), NEW t
  PROVE  FirstOf(Entries(s), i - 1)
           = Glue(FirstOf(Entries(s), i - 1),
                  Mapped(ListedName(i), FirstOf(Pieces(s, t), 0)))
<1>1. PICK p, e, A :
        /\ p \in 0 .. Len(direntries)
        /\ p = i - 1 /\ e = FirstOf(Entries(s), p) /\ A = Seq(STRING)
  OBVIOUS
<1> p \in 0 .. Len(direntries)
  BY <1>1
<1>2. e \in Seq(A)
  BY <1>1, EntriesFirst
<1>3. e \o <<>> = e
  BY <1>2
<1>4. Mapped(ListedName(i), FirstOf(Pieces(s, t), 0)) = <<>>
  BY FirstNone, MappedNothing
<1> QED
  BY <1>1, <1>3, <1>4, Zenon DEF Glue

LEMMA GrepOpenShows ==
  ASSUME SearchedImage, SInv, GrepShown, UNCHANGED <<kernel, shell, prog>>,
         GrepOpen
  PROVE  GrepShown'
<1>1. /\ prog = "grep" /\ prog' = "grep" /\ pc = "open"
      /\ Open(Child, ret.bytes)
  BY DEF GrepOpen, At
<1>2. PICK s, d, fd, name :
        /\ s = sys_getargs(BUFSIZE).bytes /\ d = Named(<<".">>) /\ fd = loc.fd
        /\ name = ret.bytes
  OBVIOUS
<1>3. s = sys_getargs(BUFSIZE)'.bytes /\ (Argument(s)' <=> Argument(s))
  BY <1>2, ArgumentStays
<1>4. Running /\ IInv /\ fd \in Regular /\ f_desc[Child][fd].flag = 0
  BY <1>1, <1>2, DirectoryOpen DEF InFiles, Using
<1>5. \/ ret'.code = -1 /\ pc' = "exit" /\ loc' = loc
      \/ /\ ret'.code # -1 /\ pc' = "fill" /\ shown' = shown
         /\ loc'.fd = fd /\ loc'.file = ret'.code /\ loc'.name = name
         /\ loc'.last = 0
         /\ \E junk \in {NUL, NEWLINE} :
              /\ loc'.data = [k \in 0 .. BUFSIZE |-> junk]
              /\ loc'.dirty = (loc.dirty \/ junk = NEWLINE)
  <2>1. CASE ret'.code = -1
    <3> DEFINE message == "file open failed"
    <3>1. Fail(message, 3)
      BY <2>1 DEF GrepOpen
    <3> HIDE DEF message
    <3> QED
      BY <2>1, <3>1 DEF Fail, Exit
  <2>2. CASE ret'.code # -1
    <3>1. PICK junk \in {NUL, NEWLINE} :
            Go("fill", [fd |-> loc.fd, file |-> ret'.code, name |-> ret.bytes,
                        data |-> [i \in 0 .. BUFSIZE |-> junk], last |-> 0,
                        dirty |-> loc.dirty \/ junk = NEWLINE])
      BY <2>2 DEF GrepOpen
    <3> DEFINE data == [i \in 0 .. BUFSIZE |-> junk]
               dirty == loc.dirty \/ junk = NEWLINE
               m == [fd |-> loc.fd, file |-> ret'.code, name |-> ret.bytes,
                     data |-> data, last |-> 0, dirty |-> dirty]
    <3>2. pc' = "fill" /\ loc' = m
      BY <3>1 DEF Go
    <3> HIDE DEF data, dirty
    <3>3. /\ m.fd = loc.fd /\ m.file = ret'.code /\ m.name = ret.bytes
          /\ m.last = 0 /\ m.data = data
      OBVIOUS
    <3>4. m.dirty = dirty
      BY Zenon
    <3> HIDE DEF m
    <3>5. loc'.data = data /\ loc'.dirty = dirty
      BY <3>2, <3>3, <3>4, Zenon
    <3>6. \E j \in {NUL, NEWLINE} :
            /\ loc'.data = [k \in 0 .. BUFSIZE |-> j]
            /\ loc'.dirty = (loc.dirty \/ j = NEWLINE)
      BY <3>5, Zenon DEF data, dirty
    <3>7. shown' = shown
      BY <2>2 DEF GrepOpen
    <3> QED
      BY <1>2, <2>2, <3>2, <3>3, <3>6, <3>7
  <2> QED
    BY <2>1, <2>2
<1>6. CASE loc.dirty
  <2>1. pc' = "exit" \/ pc' = "fill"
    BY <1>5
  <2>2. loc'.dirty
    BY <1>5, <1>6
  <2> QED
    BY <1>1, <1>3, <2>1, <2>2, GrepGoesOn, GrepEnds DEF InFiles
<1>7. CASE ~loc.dirty
  <2>1. GrepState
    BY <1>1, <1>7 DEF GrepShown, InFiles
  <2>2. PICK i \in 1 .. Len(direntries) : i = Position(fd) /\ i # 0
    BY <1>1, <1>2, <2>1, DirectoryAssumption DEF GrepState
  <2>3. /\ Argument(s) /\ OnlyOpen({fd}) /\ Shows(FirstOf(Entries(s), i - 1))
        /\ shown \in Seq(STRING) /\ EndsLine(shown) /\ name = ListedName(i)
    BY <1>1, <1>2, <2>1, <2>2 DEF GrepState, Argument
  <2>4. EntriesFor(name) # {} /\ \A j \in EntriesFor(name) : j = i
    BY <2>3, OwnName
  <2>5. ret'.code # -1
    <3>1. PICK x \in Regular : x # fd
      <4>1. 2 \in Regular /\ 3 \in Regular
        BY DescriptorAssumption DEF Regular, SearchedImage
      <4> QED
        BY <4>1
    <3>2. x \in FreeFds(Child)
      BY <2>3, <3>1 DEF OnlyOpen, FreeFds
    <3>3. Child \in Slots /\ Open(Child, name)
      BY <1>1, <1>2, <1>4, RunningFacts
    <3>4. ret'.code \in FreeFds(Child)
      BY <1>4, <2>4, <3>2, <3>3, OpenDoes
    <3> QED
      BY <3>4, DescriptorAssumption DEF FreeFds, Regular
  <2>6. PICK f \in FreeFds(Child) :
          /\ ret'.code = f /\ Sets(Child, f, 0)
          /\ Named(name) \in EntriesFor(name)
          /\ Reads(f, Named(name))' /\ Position(f)' = 0
    BY <1>1, <1>2, <1>4, <2>5, OpenForReading
  <2>7. Reads(f, i)' /\ f # fd /\ f \in Regular
    BY <1>4, <2>4, <2>6 DEF FreeFds
  <2>8. \A x \in Regular : x # f => f_desc'[Child][x] = f_desc[Child][x]
    BY <2>6, DescriptorAssumption DEF Sets, Regular
  <2>9. /\ pc' = "fill" /\ shown' = shown
        /\ loc'.fd = fd /\ loc'.file = f /\ loc'.name = name
        /\ loc'.last = 0
    BY <1>5, <2>5, <2>6
  <2>10. PICK junk \in {NUL, NEWLINE} :
           /\ loc'.data = [k \in 0 .. BUFSIZE |-> junk]
           /\ loc'.dirty = (loc.dirty \/ junk = NEWLINE)
    BY <1>5, <2>5
  <2>11. CASE junk = NEWLINE
    BY <1>1, <2>9, <2>10, <2>11, GrepGoesOn DEF InFiles
  <2>12. CASE junk = NUL
    <3>1. /\ sys_getargs(BUFSIZE)'.code = 0 /\ shown' \in Seq(STRING)
          /\ EndsLine(shown)' /\ i \in 0 .. Len(direntries)
          /\ Shows(FirstOf(Entries(s), i - 1))'
      BY <2>3, <2>9, ArgumentStays DEF EndsLine, Argument, Shows
    <3>2. Position(loc.fd)' = i /\ Position(loc.file)' = 0
      BY <1>4, <2>2, <2>6, <2>7, <2>8, <2>9 DEF Position
    <3>3. Reads(loc.file, i)'
      BY <2>7, <2>9 DEF Reads
    <3>4. OnlyOpen({loc.fd, loc.file})'
      BY <2>3, <2>8, <2>9 DEF OnlyOpen
    <3>5. BUFSIZE \in Nat /\ BUFSIZE # 0
      BY SomeSizes, SizeAssumption DEF SearchedImage, ListedImage
    <3>6. loc'.data \in [0 .. BUFSIZE -> STRING] /\ loc'.data[BUFSIZE] = NUL
      BY <2>10, <2>12, <3>5, CharacterAssumption
    <3>7. ASSUME i \in TextFiles
          PROVE  Searched(s, i, loc'.data, 0, 0, FromTexts(LinesOf(shown')))
      <4>1. PICK t : t = FileText(i)
        OBVIOUS
      <4>2. 0 \in 0 .. Len(t) /\ 0 - 0 = 0
        <5>1. Text(t)
          BY <3>7, <4>1, ContentIs
        <5> QED
          BY <5>1 DEF Text
      <4>3. Between(t, 0)
        BY DEF Between
      <4>4. FirstOf(Entries(s), i - 1)
              = Glue(FirstOf(Entries(s), i - 1),
                     Mapped(ListedName(i), FirstOf(Pieces(s, t), 0)))
        BY NothingFoundYet
      <4>5. FromTexts(LinesOf(shown'))
              = Glue(FirstOf(Entries(s), i - 1),
                     Mapped(ListedName(i), FirstOf(Pieces(s, t), 0)))
        BY <3>1, <4>4 DEF Shows
      <4>6. \A k \in 0 .. 0 - 1 : loc'.data[k] = t[0 + k + 1]
        OBVIOUS
      <4> QED
        BY <3>6, <4>1, <4>2, <4>3, <4>5, <4>6 DEF Searched
    <3>8. GrepState'
      BY <1>3, <2>2, <2>3, <2>9, <3>1, <3>2, <3>3, <3>4, <3>5, <3>6, <3>7
         DEF GrepState
    <3> QED
      BY <1>1, <2>9, <3>8, GrepGoesOn DEF InFiles
  <2> QED
    BY <2>11, <2>12
<1> QED
  BY <1>6, <1>7

LEMMA GrepCloseShows ==
  ASSUME SearchedImage, SInv, GrepShown, UNCHANGED <<kernel, shell, prog>>,
         GrepClose
  PROVE  GrepShown'
<1>1. /\ prog = "grep" /\ prog' = "grep" /\ pc = "close"
      /\ Close(Child, loc.file)
  BY DEF GrepClose, At
<1>2. PICK s, d, fd, f :
        /\ s = sys_getargs(BUFSIZE).bytes /\ d = Named(<<".">>) /\ fd = loc.fd
        /\ f = loc.file
  OBVIOUS
<1>3. s = sys_getargs(BUFSIZE)'.bytes /\ (Argument(s)' <=> Argument(s))
  BY <1>2, ArgumentStays
<1>4. /\ Running /\ IInv /\ Child \in Slots /\ fd \in Regular
      /\ f \in Regular /\ f # fd
  BY <1>1, <1>2, DirectoryOpen, RunningFacts
     DEF InFiles, Using, LocalInv, GrepInv
<1>5. \/ ret'.code = -1 /\ pc' = "exit" /\ loc' = loc
      \/ /\ ret'.code # -1 /\ pc' = "read" /\ shown' = shown
         /\ loc' = [fd |-> loc.fd, dirty |-> loc.dirty]
  <2>1. CASE ret'.code = -1
    <3> DEFINE message == "file close failed"
    <3>1. Fail(message, 3)
      BY <2>1 DEF GrepClose
    <3> HIDE DEF message
    <3> QED
      BY <2>1, <3>1 DEF Fail, Exit
  <2>2. CASE ret'.code # -1
    BY <2>2 DEF GrepClose, Go
  <2> QED
    BY <2>1, <2>2
<1>6. pc' = "read" => loc'.fd = fd /\ loc'.dirty = loc.dirty
  <2>1. [fd |-> loc.fd, dirty |-> loc.dirty].fd = loc.fd
    OBVIOUS
  <2>2. [fd |-> loc.fd, dirty |-> loc.dirty].dirty = loc.dirty
    BY Zenon
  <2> QED
    BY <1>2, <1>5, <2>1, <2>2
<1>7. CASE loc.dirty
  BY <1>1, <1>3, <1>5, <1>6, <1>7, GrepGoesOn, GrepEnds DEF InFiles
<1>8. CASE ~loc.dirty
  <2>1. GrepState
    BY <1>1, <1>8 DEF GrepShown, InFiles
  <2>2. PICK i \in 0 .. Len(direntries) : i = Position(fd)
    BY <1>2, <2>1 DEF GrepState
  <2>3. /\ Argument(s) /\ OnlyOpen({fd, f}) /\ Shows(FirstOf(Entries(s), i))
        /\ shown \in Seq(STRING) /\ EndsLine(shown) /\ Reads(f, i)
    BY <1>1, <1>2, <2>1, <2>2 DEF GrepState, Argument
  <2>4. ret'.code = 0 /\ Sets(Child, f, 1)
    <3>1. f \in Int /\ f_desc[Child][f].flag = 0 /\ Close(Child, f)
      BY <1>1, <1>2, <1>4, <2>3, DescriptorAssumption DEF Reads, Regular
    <3> QED
      BY <1>4, <3>1, CloseDoes
  <2>5. /\ pc' = "read" /\ shown' = shown /\ loc'.fd = fd
    BY <1>5, <1>6, <2>4
  <2>6. \A x \in Regular : x # f => f_desc'[Child][x] = f_desc[Child][x]
    BY <2>4, DescriptorAssumption DEF Sets, Regular
  <2>7. f_desc'[Child][f].flag = 1
    BY <2>4 DEF Sets
  <2>8. Position(loc.fd)' = i
    BY <1>4, <2>2, <2>5, <2>6 DEF Position
  <2>9. OnlyOpen({loc.fd})'
    BY <2>3, <2>5, <2>6, <2>7 DEF OnlyOpen
  <2>10. /\ sys_getargs(BUFSIZE)'.code = 0 /\ shown' \in Seq(STRING)
         /\ EndsLine(shown)' /\ Shows(FirstOf(Entries(s), i))'
    BY <2>3, <2>5, ArgumentStays DEF EndsLine, Argument, Shows
  <2>11. GrepState'
    BY <1>3, <2>2, <2>5, <2>8, <2>9, <2>10 DEF GrepState
  <2> QED
    BY <1>1, <2>5, <2>11, GrepGoesOn DEF InFiles
<1> QED
  BY <1>7, <1>8

\* A read of what grep has opened does not fail.
LEMMA FileGives ==
  ASSUME IInv, NEW fd, NEW i \in 1 .. Len(direntries), Reads(fd, i),
         NEW size \in Nat \ {0}, size \in AllSizes, size < WORD,
         Read(Child, fd, size, FALSE)
  PROVE  /\ ret'.code \in Nat /\ ret'.code <= size
         /\ ret'.bytes \in Seq(STRING) /\ ret'.code = Len(ret'.bytes)
         /\ Only(fd) /\ Reads(fd, i)'
<1>1. /\ fd \in Regular /\ Child \in live
      /\ f_desc[Child][fd].flag = 0
      /\ f_desc[Child][fd].ops = direntries[i].filetype
  BY DEF Reads, Read
<1>2. /\ ret'.bytes \in Seq(STRING) /\ Len(ret'.bytes) <= size
      /\ ret'.code = -1 \/ ret'.code = Len(ret'.bytes)
  BY <1>1, ProgramReads
<1>3. CASE direntries[i].filetype = "file"
  <2>1. ret'.code \in Nat /\ Only(fd) /\ Reads(fd, i)'
    <3>1. PICK t, p : t = Texts[direntries[i].inode_num] /\ p = Position(fd)
      OBVIOUS
    <3> QED
      BY <1>3, <3>1, TextRead
  <2> QED
    BY <1>2, <2>1
<1>4. CASE direntries[i].filetype = "rtc"
  <2>1. ret'.code = 0 /\ ret'.bytes = <<>> /\ Only(fd) /\ Reads(fd, i)'
    BY <1>4, ClockRead
  <2>2. ret'.code \in Nat /\ ret'.code <= size /\ ret'.code = Len(ret'.bytes)
    BY <2>1
  <2> QED
    BY <1>2, <2>1, <2>2
<1>5. CASE direntries[i].filetype = "dir"
  <2>1. dir_read(Child, fd, FALSE, size)
    <3>1. ~CannotRead(Child, fd)
      BY <1>1, DescriptorAssumption DEF CannotRead, Regular
    <3> QED
      BY <1>1, <1>5, <3>1 DEF Read
  <2>2. Advance(Child, fd, 1) /\ \E b : ret' = Bytes(b)
    BY <2>1 DEF dir_read
  <2>3. /\ f_desc'[Child][fd].flag = f_desc[Child][fd].flag
        /\ f_desc'[Child][fd].ops = f_desc[Child][fd].ops
        /\ Only(fd)
    BY <1>1, <2>2, AdvancedOnly DEF Only
  <2>4. Reads(fd, i)'
    BY <1>1, <1>5, <2>3 DEF Reads
  <2>5. ret'.code = Len(ret'.bytes)
    BY <2>2 DEF Bytes
  <2> QED
    BY <1>2, <2>3, <2>4, <2>5
<1> QED
  BY <1>3, <1>4, <1>5, KindOfEntry

\* The buffer with size more characters of the text, from p on.
Filled(filled, data, last, bytes, k) ==
  \A j \in 0 .. BUFSIZE :
    filled[j] = IF j \in last .. (last + k) - 1 THEN bytes[j - last + 1]
                ELSE data[j]

\* The buffer holds last characters, up to the p-th of the n, and size more
\* fit, of which k are read.
Reading(n, p, c, last, size, k) ==
  /\ n \in Nat /\ p \in Nat /\ p <= n /\ c \in Nat /\ last \in Nat
  /\ c + last = p
  /\ size \in Nat \ {0} /\ last + size = BUFSIZE
  /\ k \in Nat /\ k = Least(size, n - p)

LEMMA ReadingFits ==
  ASSUME NEW n, NEW p, NEW c, NEW last, NEW size, NEW k,
         Reading(n, p, c, last, size, k), NEW end, end = last + k
  PROVE  /\ c \in Nat /\ p + 1 \in Nat \ {0} /\ p + k \in 0 .. n
         /\ end \in 0 .. BUFSIZE /\ c + end = p + k /\ c + end <= n
         /\ k = 0 => c + end = n
         /\ end = BUFSIZE \/ c + end = n
BY DEF Reading, Least

LEMMA FillHolds ==
  ASSUME NEW t, Text(t), \A j \in 1 .. Len(t) : t[j] # NUL,
         NEW p, NEW c, NEW last, NEW size, NEW k,
         Reading(Len(t), p, c, last, size, k),
         NEW data, data[BUFSIZE] = NUL,
         \A j \in 0 .. last - 1 : data[j] = t[c + j + 1],
         NEW bytes, k # 0 => bytes = SubSeq(t, p + 1, p + k),
         NEW filled, Buffer(filled), Filled(filled, data, last, bytes, k)
  PROVE  Holds(filled, last + k, t, c)
<1> DEFINE end == last + k
<1>1. /\ BUFSIZE \in Nat /\ p \in Nat /\ c \in Nat /\ last \in Nat /\ k \in Nat
      /\ c + last = p
  BY SomeSizes DEF Reading
<1>6. end \in Nat /\ end = last + k
  BY <1>1
<1> HIDE DEF end
<1>2. PICK n \in Nat : n = Len(t)
  BY DEF Text
<1>3. /\ p + 1 \in Nat \ {0} /\ p + k \in 0 .. n /\ end \in 0 .. BUFSIZE
      /\ c + end <= n
  BY <1>2, <1>6, ReadingFits
<1>4. filled[BUFSIZE] = NUL
  <2>1. BUFSIZE \in 0 .. BUFSIZE /\ BUFSIZE \notin last .. (last + k) - 1
    <3>1. last + k <= BUFSIZE
      BY <1>1, <1>3, <1>6
    <3> QED
      BY <1>1, <3>1
  <2> QED
    BY <2>1 DEF Filled
<1>5. ASSUME NEW j \in 0 .. end - 1 PROVE filled[j] = t[c + j + 1]
  <2>1. j \in 0 .. BUFSIZE
    BY <1>1, <1>3, <1>6
  <2>2. CASE j \in 0 .. last - 1
    <3>1. j \notin last .. (last + k) - 1
      BY <1>1, <2>2
    <3> QED
      BY <2>1, <2>2, <3>1 DEF Filled
  <2>3. CASE j \in last .. (last + k) - 1
    <3>1. PICK x, q, e : /\ x \in 1 .. k /\ x = j - last + 1
                         /\ q = p + 1 /\ q \in Nat \ {0}
                         /\ e = p + k /\ e \in 0 .. n
      <4>1. j - last + 1 \in 1 .. k
        <5>1. j \in Nat /\ last \in Nat /\ k \in Nat
          BY <1>1, <2>1
        <5>2. last <= j /\ j <= last + k - 1
          BY <5>1, <2>3
        <5> QED
          BY <5>1, <5>2
      <4> QED
        BY <1>3, <4>1, Zenon
    <3>2. filled[j] = bytes[x] /\ k # 0
      <4>1. filled[j] = bytes[j - last + 1]
        BY <2>1, <2>3 DEF Filled
      <4>2. k # 0 /\ x = j - last + 1
        BY <1>1, <3>1
      <4> QED
        BY <4>1, <4>2
    <3>3. \A y \in 1 .. e + 1 - q : SubSeq(t, q, e)[y] = t[q + y - 1]
      <4>1. PICK A : A = STRING
        OBVIOUS
      <4> QED
        BY <1>2, <3>1, <4>1, PartType DEF Text
    <3>4. x \in 1 .. e + 1 - q /\ q + x - 1 = c + j + 1
      BY <1>1, <2>3, <3>1
    <3>5. bytes[x] = t[q + x - 1]
      BY <3>1, <3>2, <3>3, <3>4
    <3> QED
      BY <3>2, <3>4, <3>5
  <2>4. j \in 0 .. last - 1 \/ j \in last .. (last + k) - 1
    BY <1>1, <1>6
  <2> QED
    BY <2>2, <2>3, <2>4
<1> QED
  BY <1>1, <1>2, <1>3, <1>4, <1>5, <1>6 DEF Holds

LEMMA LineTextsAre == LineTexts \subseteq Seq(STRING)
BY DEF LineTexts

LEMMA SearchedIs ==
  ASSUME NEW s, NEW i, NEW data, NEW last, NEW p, NEW lines, NEW t, NEW c,
         t = FileText(i), c = p - last, c \in 0 .. Len(t), Between(t, c),
         \A k \in 0 .. last - 1 : data[k] = t[c + k + 1],
         data[BUFSIZE] = NUL,
         lines = Glue(FirstOf(Entries(s), i - 1),
                      Mapped(ListedName(i), FirstOf(Pieces(s, t), c)))
  PROVE  Searched(s, i, data, last, p, lines)
BY DEF Searched

\* The search of a text, one read further.
LEMMA SearchGoesOn ==
  ASSUME SearchedImage, NEW s, Text(s), s # <<>>, NEW i \in TextFiles,
         NEW t, t = FileText(i), NEW name, name = ListedName(i),
         NEW filled, NEW end \in 0 .. BUFSIZE, NEW c, Holds(filled, end, t, c),
         c \in 0 .. Len(t), Between(t, c), NEW k \in Nat,
         k = 0 => c + end = Len(t), end = BUFSIZE \/ c + end = Len(t),
         NEW done, done = do_lines(filled, end, k, s),
         NEW r, r = Glue(FirstOf(Entries(s), i - 1),
                         Mapped(name, FirstOf(Pieces(s, t), c)))
  PROVE  /\ Searched(s, i, done.data, done.last, c + end,
                     Glue(r, Mapped(name, done.lines)))
         /\ k = 0 => Glue(r, Mapped(name, done.lines)) = FirstOf(Entries(s), i)
<1>0. PICK q, n, m, g : /\ q = c + end /\ n = done.last /\ m = q - n
                        /\ g = Glue(r, Mapped(name, done.lines))
  OBVIOUS
<1>1. /\ i \in 1 .. Len(direntries) /\ Text(t) /\ IsText(t) /\ Text(name)
      /\ BUFSIZE # 0 /\ BUFSIZE \in Nat /\ Buffer(filled)
  <2>1. BUFSIZE # 0 /\ BUFSIZE \in Nat
    BY SomeSizes, SizeAssumption DEF SearchedImage, ListedImage
  <2>2. Text(name) /\ i \in 1 .. Len(direntries)
    BY ContentIs, NamesOfLines
  <2> QED
    BY <2>1, <2>2, ContentIs DEF Holds
<1>2. PICK u : u = Consumed(filled, end, k)
  OBVIOUS
<1>3. /\ done.last = end - u /\ done.lines \in Seq(LineTexts)
      /\ done.last \in 0 .. BUFSIZE - 1
  BY <1>1, <1>2, BufferStays
<1>4. u \in 0 .. end /\ Between(t, c + u)
  BY <1>1, <1>2, NextIsStart DEF Consumed
<1>5. m = c + u /\ c \in Nat
  <2>1. Len(t) \in Nat
    BY <1>1 DEF Text
  <2> QED
    BY <1>0, <1>3, <1>4, <2>1
<1>6. /\ m \in 0 .. Len(t)
      /\ FirstOf(Pieces(s, t), m) = Glue(FirstOf(Pieces(s, t), c), done.lines)
  <2>1. FlattenSeq(Printed(filled, end, k, s)) = done.lines
    BY LinesDone
  <2>2. /\ m \in 0 .. Len(t)
        /\ FirstOf(Pieces(s, t), m)
             = Glue(FirstOf(Pieces(s, t), c),
                    FlattenSeq(Printed(filled, end, k, s)))
    BY <1>1, <1>2, <1>5, LinesFound
  <2> QED
    BY <2>1, <2>2
<1>7. /\ done.data[BUFSIZE] = NUL
      /\ \A j \in 0 .. done.last - 1 : done.data[j] = t[m + j + 1]
  BY <1>1, <1>2, <1>5, BufferLeft
<1>8. PICK e, x, y : /\ e = FirstOf(Entries(s), i - 1)
                     /\ x = FirstOf(Pieces(s, t), c) /\ y = done.lines
  OBVIOUS
<1>9. e \in Seq(Seq(STRING)) /\ x \in Seq(Seq(STRING)) /\ y \in Seq(Seq(STRING))
  <2>1. i - 1 \in 0 .. Len(direntries)
    BY <1>1
  <2>2. y \in Seq(Seq(STRING))
    <3>1. PICK A, B : A = LineTexts /\ B = Seq(STRING) /\ A \subseteq B
      BY LineTextsAre
    <3>2. y \in Seq(A)
      BY <1>3, <1>8, <3>1
    <3> QED
      BY <3>1, <3>2
  <2> QED
    BY <1>1, <1>8, <2>1, <2>2, EntriesFirst, PiecesType
<1>10. g = Glue(e, Mapped(name, Glue(x, y)))
  <2>1. Glue(Glue(e, Mapped(name, x)), Mapped(name, y))
          = Glue(e, Mapped(name, Glue(x, y)))
    BY <1>1, <1>9, FoundMore
  <2> QED
    BY <1>0, <1>8, <2>1
<1>11. g = Glue(e, Mapped(name, FirstOf(Pieces(s, t), m)))
  BY <1>6, <1>8, <1>10
<1>12. ASSUME k = 0 PROVE g = FirstOf(Entries(s), i)
  <2>1. u = end
    BY <1>2, <1>12 DEF Consumed, Unfinished
  <2>2. m = Len(t)
    BY <1>5, <1>12, <2>1
  <2>3. Entries(s)[i] = Mapped(name, FirstOf(Pieces(s, t), Len(t)))
    BY <1>1, EntryIs
  <2>4. FirstOf(Entries(s), i) = Glue(e, Entries(s)[i])
    BY <1>1, <1>8, EntriesFirst
  <2> QED
    BY <1>11, <2>2, <2>3, <2>4
<1>13. Searched(s, i, done.data, done.last, c + end, g)
  <2>1. PICK d : d = done.data
    OBVIOUS
  <2>2. m = q - n /\ Between(t, m)
    BY <1>0, <1>4, <1>5
  <2>3. d[BUFSIZE] = NUL /\ \A j \in 0 .. n - 1 : d[j] = t[m + j + 1]
    BY <1>0, <1>7, <2>1
  <2>4. g = Glue(FirstOf(Entries(s), i - 1),
                 Mapped(ListedName(i), FirstOf(Pieces(s, t), m)))
    BY <1>8, <1>11
  <2>5. Searched(s, i, d, n, q, g)
    BY <1>6, <2>2, <2>3, <2>4, SearchedIs
  <2> QED
    BY <1>0, <2>1, <2>5
<1> QED
  BY <1>0, <1>12, <1>13

Spoken(t, x, f) == t = x \o FlattenSeq(f)

LEMMA ShownBehind ==
  ASSUME NEW name, NEW lines \in Seq(LineTexts), NEW x, NEW t,
         Spoken(t, x, Output(name, lines))
  PROVE  t = Behind(x, Output(name, lines), Len(lines))
<1>1. PICK n, f : n \in Nat /\ n = Len(lines) /\ f = Output(name, lines)
  <2>1. Len(lines) \in Nat
    OBVIOUS
  <2> QED
    BY <2>1, Zenon
<1> n \in Nat
  BY <1>1
<1>2. DOMAIN lines = 1 .. n
  BY <1>1
<1>3. f = [k \in 1 .. n |-> f[k]]
  BY <1>1, <1>2 DEF Output
<1>4. FlattenSeq(f) = FirstOf(f, n)
  BY <1>3, FirstAll
<1> QED
  BY <1>1, <1>4, Zenon DEF Behind, Spoken

\* How far a read of a text goes.
LEMMA FileRead ==
  ASSUME IInv, NEW f, NEW i \in 1 .. Len(direntries), Reads(f, i),
         direntries[i].filetype = "file",
         NEW size \in Nat \ {0}, size < WORD, Read(Child, f, size, FALSE)
  PROVE  \E k \in Nat :
           /\ Position(f) \in 0 .. Len(FileText(i))
           /\ k = Least(size, Len(FileText(i)) - Position(f))
           /\ ret'.code = k
           /\ k # 0 => ret'.bytes = SubSeq(FileText(i), Position(f) + 1,
                                          Position(f) + k)
           /\ Position(f)' = Position(f) + k
<1> DEFINE t == Texts[direntries[i].inode_num]
<1>1. Position(f) \in 0 .. Len(t)
  BY TextRead
<1>2. PICK k \in Nat :
        /\ k = Least(size, Len(t) - Position(f)) /\ ret'.code = k
        /\ k # 0 => ret'.bytes = SubSeq(t, Position(f) + 1, Position(f) + k)
        /\ Reads(f, i)' /\ Position(f)' = Position(f) + k
  BY TextRead
<1>3. t = FileText(i)
  BY DEF FileText
<1> QED
  BY <1>1, <1>2, <1>3

\* What the read asks for and where its bytes end.
ReadTo(last, size, cnt, end) ==
  size = BUFSIZE - last /\ cnt = ret'.code /\ end = last + cnt

\* Of the i-th entry all lines with s before the last characters in data are
\* among lines, or it has none.
Reached(s, i, data, last, p, lines) ==
  IF i \in TextFiles THEN Searched(s, i, data, last, p, lines)
  ELSE lines = FirstOf(Entries(s), i - 1)

\* A read of grep from f, and what it says of the lines in its buffer.
FillStep(f, name, last, data, s, done, t) ==
  \E size, cnt, end, filled :
    /\ ReadTo(last, size, cnt, end) /\ Read(Child, f, size, FALSE)
    /\ Buffer(filled) /\ Filled(filled, data, last, ret'.bytes, cnt)
    /\ done = do_lines(filled, end, cnt, s)
    /\ Spoken(t, shown, Output(name, done.lines))

\* What grep has then shown and what it has left.
LEMMA FillShows ==
  ASSUME SearchedImage, SInv, Running, NEW s, Text(s), s # <<>>,
         NEW i \in 1 .. Len(direntries), NEW f, Reads(f, i),
         NEW last \in Nat, last < BUFSIZE, NEW data, Buffer(data),
         Text(shown), EndsLine(shown),
         Reached(s, i, data, last, Position(f), FromTexts(LinesOf(shown))),
         NEW done, NEW t, FillStep(f, ListedName(i), last, data, s, done, t)
  PROVE  /\ Text(t) /\ EndsLine(t)
         /\ Reached(s, i, done.data, done.last, Position(f)',
                    FromTexts(LinesOf(t)))
         /\ ret'.code = 0 => FromTexts(LinesOf(t)) = FirstOf(Entries(s), i)
         /\ Buffer(done.data) /\ done.last < BUFSIZE
<1> DEFINE Goal == /\ Text(t) /\ EndsLine(t)
                   /\ Reached(s, i, done.data, done.last, Position(f)',
                              FromTexts(LinesOf(t)))
                   /\ ret'.code = 0 =>
                        FromTexts(LinesOf(t)) = FirstOf(Entries(s), i)
                   /\ Buffer(done.data) /\ done.last < BUFSIZE
<1> SUFFICES ASSUME NEW size, NEW cnt, NEW end, NEW filled,
                    ReadTo(last, size, cnt, end), Read(Child, f, size, FALSE),
                    Buffer(filled),
                    Filled(filled, data, last, ret'.bytes, cnt),
                    done = do_lines(filled, end, cnt, s),
                    Spoken(t, shown, Output(ListedName(i), done.lines))
             PROVE  Goal
  BY DEF FillStep
<1> PICK name : name = ListedName(i)
  OBVIOUS
<1>0. PICK r : r = FromTexts(LinesOf(shown))
  OBVIOUS
<1>1. /\ IInv /\ BUFSIZE \in Nat /\ BUFSIZE # 0 /\ BUFSIZE < WORD
      /\ size \in Nat \ {0} /\ size \in AllSizes /\ size < WORD
      /\ last + size = BUFSIZE /\ cnt = ret'.code /\ end = last + cnt
  <2>1. /\ BUFSIZE \in Nat /\ BUFSIZE # 0 /\ BUFSIZE < WORD /\ WORD \in Nat
        /\ SBUFSIZE \in Nat /\ 0 .. BUFSIZE + SBUFSIZE \subseteq AllSizes
    BY SomeSizes, SizeAssumption DEF SearchedImage, ListedImage
  <2> QED
    BY <2>1 DEF SInv, ReadTo
<1>2. cnt \in Nat /\ cnt <= size
  BY <1>1, FileGives
<1>3. end \in 0 .. BUFSIZE
  BY <1>1, <1>2
<1>4. /\ done.lines \in Seq(LineTexts)
      /\ Buffer(done.data) /\ done.last < BUFSIZE
  BY <1>1, <1>3, BufferStays
<1>5. /\ Text(t) /\ EndsLine(t)
      /\ i \in TextFiles =>
           FromTexts(LinesOf(t)) = Glue(r, Mapped(name, done.lines))
      /\ i \notin TextFiles => FromTexts(LinesOf(t)) = r
  <2>1. PICK lines, x : lines = done.lines /\ x = shown
    OBVIOUS
  <2>2. lines \in Seq(LineTexts) /\ Text(x) /\ EndsLine(x)
        /\ FromTexts(LinesOf(x)) = r
    BY <1>0, <1>4, <2>1
  <2>3. t = Behind(x, Output(ListedName(i), lines), Len(lines))
    BY <2>1, <2>2, ShownBehind
  <2> QED
    BY <2>1, <2>2, <2>3, SearchedMore
<1>6. CASE i \notin TextFiles
  <2>1. r = FirstOf(Entries(s), i - 1)
    BY <1>0, <1>6 DEF Reached
  <2>2. FirstOf(Entries(s), i) = FirstOf(Entries(s), i - 1)
    BY <1>6, NextEntry
  <2> QED
    BY <1>1, <1>4, <1>5, <1>6, <2>1, <2>2 DEF Reached
<1>7. CASE i \in TextFiles
  <2>1. PICK u, p, c : u = FileText(i) /\ p = Position(f) /\ c = p - last
    OBVIOUS
  <2>2. /\ c \in 0 .. Len(u) /\ Between(u, c) /\ data[BUFSIZE] = NUL
        /\ \A k \in 0 .. last - 1 : data[k] = u[c + k + 1]
        /\ r = Glue(FirstOf(Entries(s), i - 1),
                    Mapped(name, FirstOf(Pieces(s, u), c)))
    BY <1>0, <1>7, <2>1 DEF Searched, Reached
  <2>3. /\ Text(u) /\ direntries[i].filetype = "file"
        /\ \A k \in 1 .. Len(u) : u[k] # NUL
    BY <1>7, <2>1, ContentIs
  <2>4. PICK k \in Nat :
          /\ p \in 0 .. Len(u) /\ k = Least(size, Len(u) - p) /\ cnt = k
          /\ k # 0 => ret'.bytes = SubSeq(u, p + 1, p + k)
          /\ Position(f)' = p + k
    <3>1. PICK k \in Nat :
            /\ Position(f) \in 0 .. Len(FileText(i))
            /\ k = Least(size, Len(FileText(i)) - Position(f))
            /\ ret'.code = k
            /\ k # 0 => ret'.bytes = SubSeq(FileText(i), Position(f) + 1,
                                           Position(f) + k)
            /\ Position(f)' = Position(f) + k
      BY <1>1, <2>3, FileRead
    <3> QED
      BY <1>1, <2>1, <3>1
  <2>5. Reading(Len(u), p, c, last, size, k)
    <3>1. PICK n \in Nat : n = Len(u)
      BY <2>3 DEF Text
    <3>2. c \in Nat /\ p \in Nat /\ p <= n /\ c + last = p
      BY <2>1, <2>2, <2>4, <3>1
    <3> QED
      BY <1>1, <2>4, <3>1, <3>2 DEF Reading
  <2>6. /\ Holds(filled, end, u, c) /\ c + end = p + k
        /\ k = 0 => c + end = Len(u)
        /\ end = BUFSIZE \/ c + end = Len(u)
    <3>1. end = last + k
      BY <1>1, <2>4
    <3>2. Filled(filled, data, last, ret'.bytes, k)
      BY <2>4
    <3>3. Holds(filled, last + k, u, c)
      BY <2>2, <2>3, <2>4, <2>5, <3>2, FillHolds
    <3> QED
      BY <2>5, <3>1, <3>3, ReadingFits
  <2>7. done = do_lines(filled, end, k, s)
    BY <2>4
  <2>8. /\ Searched(s, i, done.data, done.last, c + end,
                    Glue(r, Mapped(name, done.lines)))
        /\ k = 0 => Glue(r, Mapped(name, done.lines)) = FirstOf(Entries(s), i)
    BY <1>3, <1>7, <2>1, <2>2, <2>6, <2>7, SearchGoesOn
  <2>9. c + end = Position(f)'
    BY <2>4, <2>6
  <2>10. FromTexts(LinesOf(t)) = Glue(r, Mapped(name, done.lines))
    BY <1>5, <1>7
  <2> QED
    BY <1>1, <1>4, <1>5, <1>7, <2>4, <2>8, <2>9, <2>10 DEF Reached
<1> QED
  BY <1>6, <1>7

\* What a read of grep does with its buffer.
Typed == /\ loc.last \in Nat /\ Buffer(loc.data)
         /\ ret'.bytes \in Seq(STRING) /\ ret'.code = Len(ret'.bytes)

LEMMA FillIs ==
  ASSUME GrepFill, ret'.code # -1, FillFields \subseteq DOMAIN loc
  PROVE  \E filled, done :
           /\ Typed => Buffer(filled)
           /\ Filled(filled, loc.data, loc.last, ret'.bytes, ret'.code)
           /\ done = do_lines(filled, loc.last + ret'.code, ret'.code,
                              sys_getargs(BUFSIZE).bytes)
           /\ Spoken(shown', shown, Output(loc.name, done.lines))
           /\ pc' = IF ret'.code = 0 THEN "close" ELSE "fill"
           /\ loc'.fd = loc.fd /\ loc'.file = loc.file /\ loc'.name = loc.name
           /\ loc'.dirty = loc.dirty
           /\ loc'.data = done.data /\ loc'.last = done.last
<1> DEFINE cnt == ret'.code
           end == loc.last + cnt
           filled == [i \in 0 .. BUFSIZE |->
                        IF i \in loc.last .. end - 1
                          THEN ret'.bytes[i - loc.last + 1] ELSE loc.data[i]]
           s == sys_getargs(BUFSIZE).bytes
           done == do_lines(filled, end, cnt, s)
           next == IF EndOfFile(cnt) THEN "close" ELSE "fill"
           m == [loc EXCEPT !.data = done.data, !.last = done.last]
<1>1. /\ Go(next, m)
      /\ Say(FlattenSeq([k \in DOMAIN done.lines |->
               loc.name \o <<":">> \o done.lines[k] \o <<NEWLINE>>]))
  BY DEF GrepFill
<1>2. Filled(filled, loc.data, loc.last, ret'.bytes, cnt)
  <2>1. ASSUME NEW j \in 0 .. BUFSIZE
        PROVE  filled[j] = IF j \in loc.last .. end - 1
                             THEN ret'.bytes[j - loc.last + 1] ELSE loc.data[j]
    BY Zenon
  <2> HIDE DEF filled
  <2> QED
    BY <2>1 DEF Filled
<1>3. ASSUME Typed PROVE Buffer(filled)
  <2>1. PICK l, c, b, d : /\ l = loc.last /\ c = cnt /\ b = ret'.bytes
                          /\ d = loc.data
    OBVIOUS
  <2>2. l \in Nat /\ c = Len(b) /\ b \in Seq(STRING) /\ Buffer(d)
    BY <1>3, <2>1 DEF Typed
  <2>3. ASSUME NEW i \in 0 .. BUFSIZE
        PROVE  (IF i \in l .. (l + c) - 1 THEN b[i - l + 1] ELSE d[i])
                 \in STRING
    <3>1. CASE i \in l .. (l + c) - 1
      <4>1. i - l + 1 \in 1 .. Len(b)
        BY <2>2, <3>1
      <4> QED
        BY <2>2, <3>1, <4>1
    <3>2. CASE i \notin l .. (l + c) - 1
      BY <2>2, <3>2 DEF Buffer
    <3> QED
      BY <3>1, <3>2
  <2>4. Filled(filled, d, l, b, c)
    BY <1>2, <2>1
  <2>5. filled = [i \in 0 .. BUFSIZE |-> filled[i]]
    BY Zenon
  <2> HIDE DEF filled
  <2>6. \A i \in 0 .. BUFSIZE : filled[i] \in STRING
    BY <2>3, <2>4 DEF Filled
  <2> QED
    BY <2>5, <2>6 DEF Buffer
<1> HIDE DEF filled
<1>4. Spoken(shown', shown, Output(loc.name, done.lines))
  BY <1>1 DEF Say, Spoken, Output
<1> HIDE DEF done
<1>5. pc' = IF cnt = 0 THEN "close" ELSE "fill"
  BY <1>1 DEF Go, EndOfFile
<1>6. loc' = m
  BY <1>1 DEF Go
<1>7. /\ m.fd = loc.fd /\ m.file = loc.file /\ m.name = loc.name
      /\ m.data = done.data /\ m.last = done.last
  BY DEF FillFields
<1>8. m.dirty = loc.dirty
  <2>1. "dirty" \in DOMAIN loc /\ "dirty" # "data" /\ "dirty" # "last"
    BY DEF FillFields
  <2> QED
    BY <2>1, Zenon
<1> HIDE DEF m
<1>9. /\ loc'.fd = loc.fd /\ loc'.file = loc.file /\ loc'.name = loc.name
      /\ loc'.data = done.data /\ loc'.last = done.last
  BY <1>6, <1>7
<1>10. loc'.dirty = loc.dirty
  BY <1>6, <1>8, Zenon
<1>11. done = do_lines(filled, end, cnt, s)
  BY DEF done
<1> QED
  BY <1>2, <1>3, <1>4, <1>5, <1>9, <1>10, <1>11

\* A read of grep does not fail.
LEMMA GrepFillGives ==
  ASSUME SearchedImage, SInv, GrepShown, GrepFill, ~loc.dirty,
         NEW f, f = loc.file, NEW i, i = Position(loc.fd)
  PROVE  /\ GrepState /\ i \in 1 .. Len(direntries)
         /\ ret'.code \in Nat /\ ret'.bytes \in Seq(STRING)
         /\ ret'.code = Len(ret'.bytes)
         /\ Only(f) /\ Reads(f, i)'
<1>1. /\ prog = "grep" /\ pc = "fill"
      /\ Read(Child, loc.file, BUFSIZE - loc.last, FALSE)
  BY DEF GrepFill, At
<1>2. GrepState /\ IInv
  BY <1>1, DirectoryOpen DEF GrepShown, InFiles
<1>3. PICK fd : fd = loc.fd
  OBVIOUS
<1>4. /\ i \in 0 .. Len(direntries) /\ i # 0 /\ Reads(f, i)
      /\ loc.last < BUFSIZE
  BY <1>1, <1>2, <1>3 DEF GrepState
<1>5. loc.last \in 0 .. BUFSIZE /\ f # fd /\ f \in Regular /\ fd \in Regular
  BY <1>1, <1>3, DirectoryOpen, RunningFacts
     DEF InFiles, Using, LocalInv, GrepInv
<1>6. i \in 1 .. Len(direntries)
  <2>1. Len(direntries) \in Nat
    BY DirectoryAssumption
  <2> QED
    BY <1>4, <2>1
<1>7. PICK size : /\ size = BUFSIZE - loc.last
                  /\ size \in Nat \ {0} /\ size \in AllSizes /\ size < WORD
  <2>1. /\ BUFSIZE \in Nat /\ BUFSIZE < WORD /\ WORD \in Nat
        /\ SBUFSIZE \in Nat /\ 0 .. BUFSIZE + SBUFSIZE \subseteq AllSizes
    BY SomeSizes, SizeAssumption DEF SearchedImage, ListedImage
  <2> QED
    BY <1>4, <1>5, <2>1
<1>8. Read(Child, f, size, FALSE)
  BY <1>1, <1>3, <1>7
<1>9. /\ ret'.code \in Nat /\ ret'.code <= size
      /\ ret'.bytes \in Seq(STRING) /\ ret'.code = Len(ret'.bytes)
      /\ Only(f) /\ Reads(f, i)'
  BY <1>2, <1>4, <1>6, <1>7, <1>8, FileGives
<1> QED
  BY <1>2, <1>3, <1>6, <1>9

LEMMA GrepFillShows ==
  ASSUME SearchedImage, SInv, GrepShown, UNCHANGED <<kernel, shell, prog>>,
         GrepFill
  PROVE  GrepShown'
<1>1. /\ prog = "grep" /\ prog' = "grep" /\ pc = "fill"
      /\ Read(Child, loc.file, BUFSIZE - loc.last, FALSE)
  BY DEF GrepFill, At
<1>2. PICK s, fd, f, last, name, data :
        /\ s = sys_getargs(BUFSIZE).bytes /\ fd = loc.fd /\ f = loc.file
        /\ last = loc.last /\ name = loc.name /\ data = loc.data
  OBVIOUS
<1>3. s = sys_getargs(BUFSIZE)'.bytes /\ (Argument(s)' <=> Argument(s))
  BY <1>2, ArgumentStays
<1>4. /\ Running /\ IInv /\ Child \in Slots /\ fd \in Regular
      /\ f \in Regular /\ f # fd /\ FillFields \subseteq DOMAIN loc
      /\ last \in 0 .. BUFSIZE
  BY <1>1, <1>2, DirectoryOpen, RunningFacts
     DEF InFiles, Using, LocalInv, GrepInv
<1>5. CASE ret'.code = -1
  <2>1. pc' = "exit" /\ loc' = loc
    <3> DEFINE message == "file read failed"
    <3>1. Fail(message, 3)
      BY <1>5 DEF GrepFill
    <3> HIDE DEF message
    <3> QED
      BY <3>1 DEF Fail, Exit
  <2>2. loc.dirty \/ ret'.code # -1
    BY <1>5, GrepFillGives
  <2> QED
    BY <1>1, <1>3, <1>5, <2>1, <2>2, GrepEnds
<1>6. CASE ret'.code # -1
  <2>1. PICK filled, done :
           /\ Typed => Buffer(filled)
           /\ Filled(filled, loc.data, loc.last, ret'.bytes, ret'.code)
           /\ done = do_lines(filled, loc.last + ret'.code, ret'.code,
                              sys_getargs(BUFSIZE).bytes)
           /\ Spoken(shown', shown, Output(loc.name, done.lines))
           /\ pc' = IF ret'.code = 0 THEN "close" ELSE "fill"
           /\ loc'.fd = loc.fd /\ loc'.file = loc.file /\ loc'.name = loc.name
           /\ loc'.dirty = loc.dirty
           /\ loc'.data = done.data /\ loc'.last = done.last
    BY <1>4, <1>6, FillIs
  <2>2. pc' \in InFiles
    BY <2>1 DEF InFiles
  <2>3. CASE loc.dirty
    BY <1>1, <2>1, <2>2, <2>3, GrepGoesOn
  <2>4. CASE ~loc.dirty
    <3>1. PICK i \in 1 .. Len(direntries) : i = Position(fd)
      BY <1>1, <1>2, <2>4, GrepFillGives
    <3>2. /\ Argument(s) /\ OnlyOpen({fd, f}) /\ Reads(f, i)
          /\ Text(shown) /\ EndsLine(shown) /\ name = ListedName(i)
          /\ last < BUFSIZE /\ last \in Nat /\ Buffer(data)
          /\ Reached(s, i, data, last, Position(f), FromTexts(LinesOf(shown)))
      <4>1. GrepState
        BY <1>1, <2>4 DEF GrepShown, InFiles
      <4>2. last \in Nat
        BY <1>4, SomeSizes
      <4> QED
        BY <1>1, <1>2, <3>1, <4>1, <4>2
           DEF GrepState, Argument, Text, Buffer, Shows, Reached
    <3>3. /\ ret'.code \in Nat /\ ret'.bytes \in Seq(STRING)
          /\ ret'.code = Len(ret'.bytes) /\ Only(f) /\ Reads(f, i)'
      BY <1>1, <1>2, <2>4, <3>1, GrepFillGives
    <3>4. Buffer(filled) /\ Filled(filled, data, last, ret'.bytes, ret'.code)
          /\ done = do_lines(filled, last + ret'.code, ret'.code, s)
          /\ Spoken(shown', shown, Output(name, done.lines))
      BY <1>2, <2>1, <3>2, <3>3 DEF Typed
    <3>5. Text(s) /\ s # <<>>
      BY <1>4, <3>2, ArgumentIsText
    <3>6. /\ Text(shown') /\ EndsLine(shown')
          /\ Reached(s, i, done.data, done.last, Position(f)',
                     FromTexts(LinesOf(shown')))
          /\ ret'.code = 0 =>
               FromTexts(LinesOf(shown')) = FirstOf(Entries(s), i)
          /\ Buffer(done.data) /\ done.last < BUFSIZE
      <4>1. PICK size, cnt, end, t :
              /\ size = BUFSIZE - loc.last /\ cnt = ret'.code
              /\ end = loc.last + cnt /\ t = shown'
        OBVIOUS
      <4>2. ReadTo(last, size, cnt, end) /\ Read(Child, f, size, FALSE)
        BY <1>1, <1>2, <4>1 DEF ReadTo
      <4>3. /\ Buffer(filled) /\ Filled(filled, data, last, ret'.bytes, cnt)
            /\ done = do_lines(filled, end, cnt, s)
            /\ Spoken(t, shown, Output(ListedName(i), done.lines))
        BY <1>2, <3>2, <3>4, <4>1
      <4>4. FillStep(f, ListedName(i), last, data, s, done, t)
        BY <4>2, <4>3 DEF FillStep
      <4>5. Running
        BY <1>4
      <4> QED
        BY <3>2, <3>5, <4>1, <4>4, <4>5, FillShows
    <3>8. /\ fd = loc'.fd /\ f = loc'.file /\ name = loc'.name
          /\ done.last = loc'.last /\ done.data = loc'.data
      BY <1>2, <2>1
    <3>9. Position(loc.fd)' = i /\ Position(loc.file)' = Position(f)'
          /\ OnlyOpen({loc.fd, loc.file})' /\ Reads(loc.file, i)'
      <4>1. \A x \in Regular \ {fd, f} : f_desc'[Child][x].flag = 1
        BY <3>2, <3>3, OpenKept
      <4>2. f_desc'[Child][fd] = f_desc[Child][fd]
        BY <1>4, <3>3, DescriptorAssumption DEF Only, Regular
      <4>3. OnlyOpen({loc.fd, loc.file})'
        BY <3>8, <4>1 DEF OnlyOpen
      <4>4. Position(loc.fd)' = i /\ Position(loc.file)' = Position(f)'
        BY <3>1, <3>8, <4>2 DEF Position
      <4>5. Reads(loc.file, i)'
        BY <3>3, <3>8 DEF Reads
      <4> QED
        BY <4>3, <4>4, <4>5
    <3>10. /\ sys_getargs(BUFSIZE)'.code = 0 /\ shown' \in Seq(STRING)
           /\ EndsLine(shown)' /\ i \in 0 .. Len(direntries) /\ i # 0
      BY <3>1, <3>2, <3>6, ArgumentStays, DirectoryAssumption
         DEF EndsLine, Argument, Text
    <3>11. ASSUME ret'.code = 0 PROVE GrepState'
      <4>1. pc' = "close"
        BY <2>1, <3>11
      <4>2. Shows(FirstOf(Entries(s), i))'
        BY <3>6, <3>11 DEF Shows
      <4> QED
        BY <1>3, <3>9, <3>10, <4>1, <4>2 DEF GrepState
    <3>12. ASSUME ret'.code # 0 PROVE GrepState'
      <4>1. pc' = "fill"
        BY <2>1, <3>12
      <4>2. /\ loc'.name = ListedName(i) /\ loc'.last < BUFSIZE
            /\ loc'.data \in [0 .. BUFSIZE -> STRING]
        BY <3>2, <3>6, <3>8 DEF Buffer
      <4>3. IF i \in TextFiles
              THEN Searched(s, i, loc'.data, loc'.last, Position(loc.file)',
                            FromTexts(LinesOf(shown')))
            ELSE Shows(FirstOf(Entries(s), i - 1))'
        BY <3>6, <3>8, <3>9 DEF Reached, Shows
      <4>4. GrepState'
        BY <1>3, <3>9, <3>10, <4>1, <4>2, <4>3 DEF GrepState
      <4> QED
        BY <4>4
    <3>13. GrepState'
      BY <3>11, <3>12
    <3> QED
      BY <1>1, <2>2, <3>13, GrepGoesOn
  <2> QED
    BY <2>3, <2>4
<1> QED
  BY <1>5, <1>6

LEMMA GrepStep ==
  ASSUME SearchedImage, SInv, GrepShown, UNCHANGED <<kernel, shell, prog>>,
         Grep
  PROVE  GrepShown'
BY GrepStartShows, GrepNameShows, GrepOpenShows, GrepFillShows, GrepCloseShows
   DEF Grep

(***************************************************************************)
(* All programs show what they promise.                                    *)
(***************************************************************************)
ShownInv == CatInv /\ LsInv /\ CounterInv /\ GrepShown

LEMMA OnlyItsOwn ==
  /\ prog' # "cat" => CatInv'
  /\ prog' # "ls" => LsInv'
  /\ prog' # "counter" => CounterInv'
  /\ prog' # "grep" => GrepShown'
BY DEF CatInv, LsInv, CounterInv, GrepShown

\* A program that has not begun, and one that promises nothing.
LEMMA NothingPromised ==
  \/ prog' \notin {"cat", "ls", "counter", "grep"}
  \/ pc' = "start" /\ Begun'
  => ShownInv'
<1>1. ASSUME prog' \notin {"cat", "ls", "counter", "grep"} PROVE ShownInv'
  BY <1>1, OnlyItsOwn DEF ShownInv
<1>2. ASSUME pc' = "start", Begun' PROVE ShownInv'
  BY <1>2 DEF ShownInv, CatInv, LsInv, CounterInv, GrepShown, CopiesWith
<1> QED
  BY <1>1, <1>2

LEMMA InitShown == LaunchInit => ShownInv
BY DEF LaunchInit, ShownInv, CatInv, LsInv, CounterInv, GrepShown

LEMMA ProgramShows ==
  ASSUME SearchedImage, SInv, ShownInv,
         ProgramStep(Supplied) \/ ProgramStep(AnyProgram)
  PROVE  StartInv' /\ ShownInv'
<1>1. UNCHANGED <<kernel, shell, prog>> /\ prog' = prog
  BY DEF ProgramStep
<1>2. Running /\ (Cat => prog = "cat") /\ (Ls => prog = "ls")
      /\ (Grep => prog = "grep") /\ (Counter => prog = "counter")
      /\ \/ Cat \/ Ls \/ Grep \/ Counter
         \/ prog \in {"sigtest", "syserr", "any"}
  BY DEF ProgramStep, Supplied, AnyProgram, Running, At, Cat, CatStart,
         CopyRead, CopyWrite, Ls, LsStart, Grep, GrepStart, GrepName, GrepOpen,
         GrepFill, GrepClose, Counter, CounterStart, CounterCount, Sigtest,
         SigtestStart, SigtestStore, Syserr, SyserrStart, SyserrCall, SyserrEnd
<1>3. StartInv'
  BY <1>1, <1>2, ProgramStarted
<1>4. ListedImage
  BY DEF SearchedImage
<1>5. CASE Cat
  BY <1>1, <1>2, <1>3, <1>4, <1>5, CatStep, OnlyItsOwn DEF ShownInv
<1>6. CASE Ls
  BY <1>1, <1>2, <1>3, <1>4, <1>6, LsStep, OnlyItsOwn DEF ShownInv
<1>7. CASE Grep
  BY <1>1, <1>2, <1>3, <1>7, GrepStep, OnlyItsOwn DEF ShownInv
<1>8. CASE Counter
  BY <1>1, <1>2, <1>3, <1>8, CounterStep, OnlyItsOwn DEF ShownInv
<1>9. CASE prog \in {"sigtest", "syserr", "any"}
  BY <1>1, <1>3, <1>9, NothingPromised
<1> QED
  BY <1>2, <1>3, <1>5, <1>6, <1>7, <1>8, <1>9

LEMMA ShownStays == ASSUME UNCHANGED allvars, ShownInv PROVE ShownInv'
<1>1. /\ UNCHANGED <<live, f_desc, call, ret>> /\ UNCHANGED kernel
      /\ prog' = prog /\ pc' = pc /\ loc' = loc /\ shown' = shown
      /\ ending' = ending
  BY DEF allvars, vars, child
<1>2. sys_getargs(BUFSIZE)' = sys_getargs(BUFSIZE)
  BY <1>1, ArgumentStays
<1>3. ShowsAnswer => ShowsAnswer'
  BY <1>1, <1>2 DEF ShowsAnswer
<1>4. Begun => Begun'
  BY <1>1 DEF Begun, NoneOpen
<1>5. /\ \A fd, i : Reads(fd, i)' <=> Reads(fd, i)
      /\ \A fd : f_desc'[Child][fd].file_position = Position(fd)
  BY <1>1 DEF Reads, Position
<1>6. \A name, tail : CopiesWith(name, tail) => CopiesWith(name, tail)'
  BY <1>1, <1>5 DEF CopiesWith, Reads, Position
<1>7. CatInv'
  BY <1>1, <1>2, <1>3, <1>4, <1>6
     DEF ShownInv, CatInv, CopiesWith, Reads, Position
<1>8. LsInv'
  BY <1>1, <1>3, <1>4, <1>6 DEF ShownInv, LsInv
<1>9. CounterInv'
  BY <1>1, <1>4 DEF ShownInv, CounterInv, Counted, EndsLine
<1>10. GrepState => GrepState'
  BY <1>1, <1>2, <1>5 DEF GrepState, EndsLine, Shows, OnlyOpen, Position, Reads
<1>11. GrepShown'
  BY <1>1, <1>3, <1>4, <1>10 DEF ShownInv, GrepShown
<1> QED
  BY <1>7, <1>8, <1>9, <1>11 DEF ShownInv

LEMMA ShowingStep ==
  SearchedImage /\ SInv /\ StartInv /\ ShownInv /\ [SystemNext]_allvars
    => StartInv' /\ ShownInv'
<1> SUFFICES ASSUME SearchedImage, SInv, StartInv, ShownInv,
                    [SystemNext]_allvars
             PROVE  StartInv' /\ ShownInv'
  OBVIOUS
<1>1. CASE ShellNext \/ ChildHalts
  BY <1>1, LaunchBegins, NothingPromised
<1>2. CASE UNCHANGED allvars
  BY <1>2, ShownStays DEF allvars, vars, shell, child, StartInv
<1> QED
  BY <1>1, <1>2, ProgramShows DEF SystemNext

LEMMA ShownAnswers == ShownInv => ShowsAnswer
<1>1. ASSUME prog \in {"cat", "ls", "grep"}, pc = "exit", ShownInv
      PROVE  ShowsAnswer
  BY <1>1 DEF ShownInv, CatInv, LsInv, GrepShown
<1>2. ASSUME prog = "counter", pc = "exit", ShownInv PROVE ShowsAnswer
  <2>1. CASE loc = NoLocals
    BY <1>2, <2>1 DEF ShowsAnswer
  <2>2. CASE loc # NoLocals
    BY <1>2, <2>2, CountedShows DEF ShownInv, CounterInv
  <2> QED
    BY <2>1, <2>2
<1>3. ASSUME prog \notin {"cat", "ls", "grep", "counter"} PROVE ShowsAnswer
  BY <1>3 DEF ShowsAnswer
<1>4. pc # "exit" => ShowsAnswer
  BY DEF ShowsAnswer
<1> QED
  BY <1>1, <1>2, <1>3, <1>4

\* What a supplied program has shown when it returns from main is what the
\* image says it should be: cat the file or the names, ls the names, counter
\* its numbers in order, and grep every line with its argument of every text,
\* whatever the size of its buffer, the length of the files and lines, and
\* the places at which its reads happen to end.
THEOREM AnswersCorrect == ASSUME SearchedImage PROVE System => []ShowsAnswer
<1>1. LaunchInit => StartInv /\ ShownInv
  BY InitStart, InitShown
<1>2. SInv /\ StartInv /\ ShownInv /\ [SystemNext]_allvars
        => StartInv' /\ ShownInv'
  BY ShowingStep
<1>3. ShownInv => ShowsAnswer
  BY ShownAnswers
<1> QED
  BY <1>1, <1>2, <1>3, SystemSound, PTL DEF System
==============================================================================
