------------------------- MODULE UpdateResultProofs -------------------------
(***************************************************************************)
(* Proofs about the result file, for any hmps, any number of results in    *)
(* the file and any interleaving of its writers, its reader and power      *)
(* losses.  What a rewrite leaves and what a reader is told are computed   *)
(* line by line, so the facts about them are proved by induction over the  *)
(* positions of the file.  Induction is used as a statement about a set of *)
(* naturals, which follows from the least element of its complement.       *)
(***************************************************************************)
EXTENDS UpdateResult, SequenceTheorems, WellFoundedInduction, TLAPS

-----------------------------------------------------------------------------
(***************************************************************************)
(* Induction.                                                              *)
(***************************************************************************)
\* A set of naturals that is not empty has a least element.
LEMMA LeastNat ==
    ASSUME NEW S \in SUBSET Nat, S # {}
    PROVE  \E m \in S : \A n \in S : m <= n
<1> DEFINE R == OpToRel(<, Nat)
<1>1. IsWellFoundedOn(R, Nat)
  BY NatLessThanWellFounded
<1>2. PICK m \in S : \A n \in S : ~(<<n, m>> \in R)
  <2> HIDE DEF R
  <2> QED
    BY <1>1, WFMin
<1>3. \A n \in S : ~(n < m)
  BY <1>2 DEF OpToRel
<1> QED
  BY <1>3

\* A set of naturals with 0 and the successor of each member has them all.
LEMMA SetInduction ==
    ASSUME NEW S \in SUBSET Nat, 0 \in S, \A n \in S : n + 1 \in S
    PROVE  S = Nat
<1> SUFFICES ASSUME Nat \ S # {} PROVE FALSE
  OBVIOUS
<1>1. PICK m \in Nat \ S : \A n \in Nat \ S : m <= n
  BY LeastNat
<1>2. m # 0 /\ m - 1 \in Nat
  OBVIOUS
<1>3. m - 1 \in S
  BY <1>1, <1>2
<1> QED
  BY <1>3, <1>2

\* The same up to a bound.
LEMMA UpTo ==
    ASSUME NEW N \in Nat, NEW S, 0 \in S, \A n \in 0..(N - 1) : n \in S => n + 1 \in S
    PROVE  0..N \subseteq S
<1> DEFINE T == {n \in Nat : n <= N => n \in S}
<1>1. T \in SUBSET Nat /\ 0 \in T
  OBVIOUS
<1>2. ASSUME NEW n \in T PROVE n + 1 \in T
  OBVIOUS
<1> HIDE DEF T
<1>3. T = Nat
  BY <1>1, <1>2, SetInduction
<1> QED
  BY <1>3 DEF T

\* Min of a set of naturals is its least element.
LEMMA MinIsLeast ==
    ASSUME NEW S \in SUBSET Nat, S # {}
    PROVE  Min(S) \in S /\ \A n \in S : Min(S) <= n
<1>1. \E m \in S : \A n \in S : m <= n
  BY LeastNat
<1> QED
  BY <1>1 DEF Min

\* Max of a bounded set of naturals is its greatest element.
LEMMA MaxIsGreatest ==
    ASSUME NEW S \in SUBSET Nat, S # {}, NEW N \in Nat, \A n \in S : n <= N
    PROVE  Max(S) \in S /\ \A n \in S : n <= Max(S)
<1> DEFINE T == {m \in 0..N : N - m \in S}
<1>1. T \in SUBSET Nat /\ T # {}
  <2>1. PICK n \in S : TRUE
    OBVIOUS
  <2>2. N - n \in 0..N /\ N - (N - n) = n
    OBVIOUS
  <2>3. N - n \in T
    BY <2>2
  <2>4. T \subseteq Nat
    OBVIOUS
  <2> HIDE DEF T
  <2> QED
    BY <2>3, <2>4
<1>2. PICK m \in T : \A n \in T : m <= n
  <2> HIDE DEF T
  <2> QED
    BY <1>1, LeastNat
<1> DEFINE g == N - m
<1>3. g \in S
  OBVIOUS
<1>4. ASSUME NEW n \in S PROVE g >= n
  <2>1. N - n \in T
    <3>1. N - n \in 0..N /\ N - (N - n) = n
      OBVIOUS
    <3> QED
      BY <3>1
  <2>2. m \in Nat /\ m <= N - n
    BY <1>2, <2>1
  <2> QED
    BY <2>2
<1>5. \E x \in S : \A y \in S : x >= y
  BY <1>3, <1>4
<1> QED
  BY <1>5 DEF Max

\* The steps of an iteration on X, and its values up to N from b on.
Steps(X) == [Nat -> [X -> X]]
Iterates(X, b, F, N) ==
    \E g \in [0..N -> X] : g[0] = b /\ \A k \in 1..N : g[k] = F[k][g[k - 1]]

\* A function can be defined on 0..N by its value at 0 and a step.
LEMMA Iteration ==
    ASSUME NEW X, NEW b \in X, NEW F \in Steps(X), NEW N \in Nat
    PROVE  Iterates(X, b, F, N)
<1> USE DEF Steps, Iterates
<1> DEFINE Up(n, g) == g[0] = b /\ \A k \in 1..n : g[k] = F[k][g[k - 1]]
           S == {n \in Nat : \E g \in [0..n -> X] : Up(n, g)}
<1>1. 0 \in S
  <2>1. [k \in 0..0 |-> b] \in [0..0 -> X] /\ Up(0, [k \in 0..0 |-> b])
    OBVIOUS
  <2> QED
    BY <2>1
<1>2. ASSUME NEW n \in S PROVE n + 1 \in S
  <2>1. PICK g \in [0..n -> X] : Up(n, g)
    OBVIOUS
  <2> DEFINE h == [k \in 0..(n + 1) |-> IF k = n + 1 THEN F[n + 1][g[n]] ELSE g[k]]
  <2>2. h \in [0..(n + 1) -> X]
    OBVIOUS
  <2>3. h[0] = b
    BY <2>1
  <2>4. ASSUME NEW k \in 1..(n + 1) PROVE h[k] = F[k][h[k - 1]]
    BY <2>1
  <2>5. n + 1 \in Nat /\ \E f \in [0..(n + 1) -> X] : Up(n + 1, f)
    <3>1. n + 1 \in Nat
      OBVIOUS
    <3> HIDE DEF h, S
    <3> QED
      BY <3>1, <2>2, <2>3, <2>4
  <2> QED
    BY <2>5
<1>3. S \in SUBSET Nat
  OBVIOUS
<1>4. S = Nat
  <2> HIDE DEF S
  <2> QED
    BY <1>1, <1>2, <1>3, SetInduction
<1> QED
  BY <1>4

\* FlattenSeq appends the sequences one after the other.
LEMMA FlattenSteps ==
    ASSUME NEW X, NEW q \in Seq(Seq(X)), Len(q) # 0
    PROVE  \E f : /\ f[1] = q[1]
                  /\ \A k \in 2..Len(q) : f[k] = f[k - 1] \o q[k]
                  /\ FlattenSeq(q) = f[Len(q)]
<1> DEFINE P(k) == IF k \in 1..Len(q) THEN q[k] ELSE <<>>
           F == [k \in Nat |-> [t \in Seq(X) |-> t \o P(k)]]
           N == Len(q)
           Def(f) == [i \in 1..N |-> IF i = 1 THEN q[i] ELSE f[i - 1] \o q[i]]
           fl == CHOOSE f : f = Def(f)
<1>1. N \in Nat /\ <<>> \in Seq(X) /\ \A k \in 1..N : q[k] \in Seq(X)
  OBVIOUS
<1>2. F \in [Nat -> [Seq(X) -> Seq(X)]]
  <2>1. \A k \in Nat : P(k) \in Seq(X)
    BY <1>1
  <2> HIDE DEF P
  <2> QED
    BY <2>1, ConcatProperties
<1>3. PICK g \in [0..N -> Seq(X)] :
          g[0] = <<>> /\ \A k \in 1..N : g[k] = F[k][g[k - 1]]
  <2>1. F \in Steps(Seq(X))
    BY <1>2 DEF Steps
  <2>2. Iterates(Seq(X), <<>>, F, N)
    <3> HIDE DEF F, N
    <3> QED
      BY <1>1, <2>1, Iteration
  <2> HIDE DEF F, N, P, Def, fl
  <2> QED
    BY <2>2 DEF Iterates
<1>4. \A k \in 1..N : g[k] = g[k - 1] \o q[k]
  <2> SUFFICES ASSUME NEW k \in 1..N PROVE g[k] = g[k - 1] \o q[k]
    OBVIOUS
  <2>1. g[k - 1] \in Seq(X) /\ k \in Nat
    <3>1. k \in Nat /\ k - 1 \in 0..N
      BY <1>1
    <3> HIDE DEF F, N, P, Def, fl
    <3> QED
      BY <3>1
  <2>2. F[k][g[k - 1]] = g[k - 1] \o P(k)
    BY <2>1
  <2> QED
    BY <1>3, <2>2
<1> DEFINE h == [i \in 1..N |-> g[i]]
<1>5. h = Def(h)
  <2> SUFFICES ASSUME NEW i \in 1..N
               PROVE  h[i] = IF i = 1 THEN q[i] ELSE h[i - 1] \o q[i]
    OBVIOUS
  <2>1. q[i] \in Seq(X) /\ <<>> \o q[i] = q[i]
    BY <1>1
  <2>2. g[i] = g[i - 1] \o q[i]
    BY <1>4
  <2>3. CASE i = 1
    <3>1. g[0] = <<>> /\ i - 1 = 0
      BY <1>3, <2>3
    <3>2. g[i] = <<>> \o q[i]
      <4> HIDE DEF F, N, P, Def, fl
      <4> QED
        BY <2>2, <3>1
    <3> QED
      BY <2>1, <2>3, <3>2
  <2>4. CASE i # 1
    <3>1. i - 1 \in 1..N
      BY <2>4, <1>1
    <3> QED
      BY <2>2, <2>4, <3>1
  <2> QED
    BY <2>3, <2>4
<1>6. fl = Def(fl)
  <2> HIDE DEF Def, h
  <2> QED
    BY <1>5
<1>7. FlattenSeq(q) = fl[N]
  BY DEF FlattenSeq
<1>8. fl[1] = q[1] /\ \A k \in 2..N : fl[k] = fl[k - 1] \o q[k]
  <2> HIDE DEF fl
  <2>1. ASSUME NEW i \in 1..N PROVE fl[i] = IF i = 1 THEN q[i] ELSE fl[i - 1] \o q[i]
    BY <1>6
  <2>2. 1 \in 1..N
    BY <1>1
  <2>3. \A k \in 2..N : k \in 1..N /\ k # 1
    BY <1>1
  <2> HIDE DEF N
  <2> QED
    BY <2>1, <2>2, <2>3
<1> HIDE DEF fl
<1> QED
  BY <1>7, <1>8

-----------------------------------------------------------------------------
(***************************************************************************)
(* Lines.  What a reader makes of a line is decided by its head.           *)
(***************************************************************************)
Item == Piece \cup {NL}
HeadItems(s) == {s[i] : i \in Heads(s)}

\* What the heads of a rewritten file can be.
Left(s, r) == {s[i] : i \in Heads(s) \ Hit(s, r)} \cup (IF Hit(s, r) = {} THEN {} ELSE {r})

\* A head is a result.
LEMMA HeadsAreResults ==
    ASSUME NEW s \in Seq(Item), NEW i \in Heads(s) PROVE i \in 1..Len(s) /\ s[i] \in Piece
  BY DEF Heads, Item

\* An empty file has no lines.
LEMMA NoHeads == Heads(<<>>) = {}
  BY DEF Heads

\* Where two texts meet a line may be lost, but none is made.
LEMMA HeadsConcat ==
    ASSUME NEW X, NEW a \in Seq(X), NEW b \in Seq(X)
    PROVE  HeadItems(a \o b) \subseteq HeadItems(a) \cup HeadItems(b)
<1> SUFFICES ASSUME NEW i \in Heads(a \o b)
             PROVE  (a \o b)[i] \in HeadItems(a) \cup HeadItems(b)
  BY DEF HeadItems
<1>1. Len(a) \in Nat /\ Len(b) \in Nat /\ DOMAIN a = 1..Len(a) /\ DOMAIN b = 1..Len(b)
  OBVIOUS
<1>2. i \in 1..(Len(a) + Len(b))
  BY DEF Heads
<1>3. CASE i <= Len(a)
  <2>1. i \in 1..Len(a) /\ (a \o b)[i] = a[i] /\ (i = 1 \/ (a \o b)[i - 1] = a[i - 1])
    BY <1>1, <1>2, <1>3
  <2>2. i \in Heads(a)
    BY <1>1, <2>1 DEF Heads
  <2> QED
    BY <2>1, <2>2 DEF HeadItems
<1>4. CASE i > Len(a)
  <2> DEFINE j == i - Len(a)
  <2>1. j \in 1..Len(b) /\ (a \o b)[i] = b[j] /\ (j = 1 \/ (a \o b)[i - 1] = b[j - 1])
    BY <1>1, <1>2, <1>4
  <2>2. i # 1 => j = 1 \/ (a \o b)[i - 1] = NL
    BY DEF Heads
  <2>3. i = 1 => j = 1
    BY <1>1, <1>4
  <2>4. (a \o b)[i] # NL
    BY DEF Heads
  <2> HIDE DEF j
  <2>5. j \in Heads(b)
    BY <1>1, <2>1, <2>2, <2>3, <2>4 DEF Heads
  <2> QED
    BY <2>1, <2>5 DEF HeadItems
<1> QED
  BY <1>1, <1>2, <1>3, <1>4

\* A result with its line end is at most one line.
LEMMA PairHeads ==
    ASSUME NEW r \in Piece
    PROVE  <<r, NL>> \in Seq(Item) /\ HeadItems(<<r, NL>>) \subseteq {r}
<1>1. <<r, NL>> \in Seq(Item)
  BY DEF Item
<1>2. Heads(<<r, NL>>) \subseteq {1}
  BY DEF Heads
<1> QED
  BY <1>1, <1>2 DEF HeadItems

\* A line ends in the file, at its head or after it, and has no line end inside.
LEMMA LineEndPlace ==
    ASSUME NEW s \in Seq(Item), NEW i \in Heads(s)
    PROVE  /\ i \in 1..Len(s) /\ LineEnd(s, i) \in i..Len(s)
           /\ \A k \in i..LineEnd(s, i) : s[k] # NL
<1> DEFINE S == {j \in i..Len(s) : \A k \in i..j : s[k] # NL}
<1>1. Len(s) \in Nat /\ i \in 1..Len(s) /\ s[i] # NL
  BY DEF Heads
<1>2. S \in SUBSET Nat /\ S # {} /\ \A n \in S : n <= Len(s)
  BY <1>1
<1>3. Max(S) \in S
  <2> HIDE DEF S
  <2> QED
    BY <1>1, <1>2, MaxIsGreatest
<1> QED
  BY <1>1, <1>3 DEF LineEnd

\* A kept line begins with the same result.
LEMMA LineHeads ==
    ASSUME NEW s \in Seq(Item), NEW i \in Heads(s)
    PROVE  /\ SubSeq(s, i, LineEnd(s, i)) \in Seq(Item)
           /\ HeadItems(SubSeq(s, i, LineEnd(s, i))) \subseteq {s[i]}
<1> DEFINE e == LineEnd(s, i)
           t == SubSeq(s, i, e)
<1>1. Len(s) \in Nat /\ i \in 1..Len(s)
  BY LineEndPlace
<1>2. e \in i..Len(s) /\ \A k \in i..e : s[k] # NL
  BY LineEndPlace
<1> HIDE DEF e
<1>3. t \in Seq(Item) /\ DOMAIN t = 1..(e - i + 1) /\ \A k \in 1..(e - i + 1) : t[k] = s[i + k - 1]
  BY <1>1, <1>2, SubSeqProperties
<1>4. \A k \in 1..(e - i + 1) : t[k] # NL
  BY <1>1, <1>2, <1>3
<1>5. Heads(t) \subseteq {1}
  <2> SUFFICES ASSUME NEW k \in Heads(t), k # 1 PROVE FALSE
    OBVIOUS
  <2>1. k \in 1..(e - i + 1) /\ t[k - 1] = NL
    BY <1>3 DEF Heads
  <2>2. k - 1 \in 1..(e - i + 1)
    BY <1>1, <1>2, <2>1
  <2> QED
    BY <1>4, <2>1, <2>2
<1>6. t[1] = s[i]
  BY <1>1, <1>2, <1>3
<1> QED
  BY <1>3, <1>5, <1>6 DEF HeadItems, e

\* A line that is left and begins with the module's result is no success.
LEMMA LeftLines ==
    ASSUME NEW s \in Seq(Item), NEW r, NEW x \in Left(s, r)
    PROVE  \/ x \in HeadItems(s) /\ (x.h = r.h => x.code # 0)
           \/ x = r /\ Hit(s, r) # {}
<1> SUFFICES ASSUME NEW i \in Heads(s) \ Hit(s, r), s[i].h = r.h, s[i].code = 0
             PROVE  FALSE
  BY DEF Left, HeadItems
<1>1. i \in i..LineEnd(s, i)
  BY LineEndPlace
<1> QED
  BY <1>1 DEF Hit

\* What becomes of a line.
LEMMA KeptLines ==
    ASSUME NEW s \in Seq(Item), NEW r \in Piece, NEW i \in 1..Len(s)
    PROVE  Kept(s, r, i) \in Seq(Item) /\ HeadItems(Kept(s, r, i)) \subseteq Left(s, r)
<1>1. CASE i \in Hit(s, r)
  <2>1. Kept(s, r, i) = <<r, NL>>
    BY <1>1 DEF Kept
  <2>2. r \in Left(s, r)
    BY <1>1 DEF Left
  <2> QED
    BY <2>1, <2>2, PairHeads
<1>2. CASE i \in Heads(s) \ Hit(s, r)
  <2>1. Kept(s, r, i) = SubSeq(s, i, LineEnd(s, i))
    BY <1>2 DEF Kept
  <2>2. s[i] \in Left(s, r)
    BY <1>2 DEF Left
  <2> QED
    BY <1>2, <2>1, <2>2, LineHeads
<1>3. CASE i \notin Hit(s, r) /\ i \notin Heads(s) \ Hit(s, r)
  <2>1. Kept(s, r, i) = <<>>
    BY <1>3 DEF Kept
  <2> QED
    BY <2>1, NoHeads DEF HeadItems
<1> QED
  BY <1>1, <1>2, <1>3

(***************************************************************************)
(* A rewrite leaves no line that begins with a success of the module, and  *)
(* none that begins with anything but an earlier head or the new result.   *)
(***************************************************************************)
LEMMA RewriteLines ==
    ASSUME NEW s \in Seq(Item), NEW r \in Piece
    PROVE  Rewrite(s, r) \in Seq(Item) /\ HeadItems(Rewrite(s, r)) \subseteq Left(s, r)
<1> DEFINE q == [i \in DOMAIN s |-> Kept(s, r, i)]
           N == Len(s)
           Good(t) == t \in Seq(Item) /\ HeadItems(t) \subseteq Left(s, r)
<1>1. N \in Nat /\ DOMAIN s = 1..N
  OBVIOUS
<1>2. ASSUME NEW k \in 1..N PROVE Good(q[k])
  BY <1>1, KeptLines
<1>3. q \in Seq(Seq(Item)) /\ Len(q) = N
  <2>1. q \in [1..N -> Seq(Item)]
    BY <1>1, <1>2
  <2> HIDE DEF q
  <2> QED
    BY <1>1, <2>1, IsASeq, LenProperties
<1>4. Rewrite(s, r) = FlattenSeq(q)
  BY DEF Rewrite
<1>5. CASE N = 0
  <2>1. FlattenSeq(q) = q /\ q = <<>>
    <3> HIDE DEF q
    <3> QED
      BY <1>3, <1>5, EmptySeq DEF FlattenSeq
  <2>2. <<>> \in Seq(Item) /\ HeadItems(<<>>) = {}
    BY NoHeads DEF HeadItems
  <2> HIDE DEF q
  <2> QED
    BY <1>4, <2>1, <2>2
<1>6. CASE N # 0
  <2>1. PICK f : /\ f[1] = q[1]
                 /\ \A k \in 2..N : f[k] = f[k - 1] \o q[k]
                 /\ FlattenSeq(q) = f[N]
    <3> HIDE DEF q, N
    <3>1. \E f : /\ f[1] = q[1]
                 /\ \A k \in 2..Len(q) : f[k] = f[k - 1] \o q[k]
                 /\ FlattenSeq(q) = f[Len(q)]
      BY <1>3, <1>6, FlattenSteps
    <3> QED
      BY <1>3, <3>1
  <2> HIDE DEF q, N
  <2> DEFINE S == {k \in 0..N : k # 0 => Good(f[k])}
  <2>2. 0 \in S
    BY <1>1
  <2>3. ASSUME NEW n \in 0..(N - 1), n \in S PROVE n + 1 \in S
    <3>1. n + 1 \in 1..N /\ n \in 0..N
      BY <1>1
    <3>2. CASE n = 0
      BY <1>2, <2>1, <3>1, <3>2
    <3>3. CASE n # 0
      <4>1. Good(f[n]) /\ Good(q[n + 1])
        BY <1>2, <2>3, <3>1, <3>3
      <4>2. n + 1 \in 2..N /\ (n + 1) - 1 = n
        BY <1>1, <3>3
      <4>3. f[n + 1] = f[n] \o q[n + 1]
        BY <2>1, <4>2
      <4>4. Good(f[n + 1])
        BY <4>1, <4>3, HeadsConcat, ConcatProperties
      <4> QED
        BY <3>1, <4>4
    <3> QED
      BY <3>2, <3>3
  <2>4. 0..N \subseteq S
    <3> HIDE DEF S
    <3> QED
      BY <1>1, <2>2, <2>3, UpTo
  <2>5. Good(f[N])
    BY <1>1, <1>6, <2>4
  <2> QED
    BY <1>4, <2>1, <2>5
<1> QED
  BY <1>5, <1>6
-----------------------------------------------------------------------------
(***************************************************************************)
(* What a reader is told.                                                  *)
(***************************************************************************)
\* An entry has a result that this set has for the module of the entry.
From(e, H) == \E x \in H : e.h = x.h /\ e.code = x.code

\* Entries of which each is a result of its module.
Drawn(H) == {es \in Seq(Piece) : \A i \in DOMAIN es : From(es[i], H)}

\* Entering a line keeps the entries what they were, or makes one the line's.
LEMMA EnterDrawn ==
    ASSUME NEW H, NEW es \in Drawn(H), NEW r \in Piece, r \in H
    PROVE  Enter(es, r) \in Drawn(H)
<1> DEFINE hits == {i \in DOMAIN es : PathContains(es[i], r)}
           m == Min(hits)
           u == [es EXCEPT ![m].code = r.code]
<1>1. es \in Seq(Piece) /\ \A i \in DOMAIN es : From(es[i], H)
  BY DEF Drawn
<1>2. Len(es) \in Nat /\ DOMAIN es = 1..Len(es)
  BY <1>1
<1>3. CASE hits = {}
  <2>1. Enter(es, r) = Append(es, r)
    BY <1>3 DEF Enter
  <2>2. Append(es, r) \in Seq(Piece) /\ DOMAIN Append(es, r) = 1..(Len(es) + 1)
    BY <1>1
  <2>3. ASSUME NEW i \in 1..(Len(es) + 1) PROVE From(Append(es, r)[i], H)
    <3>1. CASE i = Len(es) + 1
      BY <1>1, <3>1 DEF From
    <3>2. CASE i # Len(es) + 1
      <4>1. i \in 1..Len(es) /\ Append(es, r)[i] = es[i]
        BY <1>1, <1>2, <3>2
      <4> QED
        BY <1>1, <1>2, <4>1
    <3> QED
      BY <3>1, <3>2
  <2> QED
    BY <2>1, <2>2, <2>3 DEF Drawn
<1>4. CASE hits # {}
  <2>1. Enter(es, r) = u
    BY <1>4 DEF Enter
  <2>2. m \in DOMAIN es /\ PathContains(es[m], r)
    <3>1. hits \in SUBSET Nat
      BY <1>2
    <3>2. m \in hits
      <4> HIDE DEF hits
      <4> QED
        BY <1>4, <3>1, MinIsLeast
    <3> QED
      BY <3>2
  <2> HIDE DEF m
  <2>3. es[m] \in Piece
    BY <1>1, <2>2
  <2>4. [es[m] EXCEPT !.code = r.code] \in Piece
    BY <2>3 DEF Piece
  <2>5. u \in Seq(Piece) /\ DOMAIN u = DOMAIN es
    BY <1>1, <2>2, <2>4, ExceptSeq
  <2>6. ASSUME NEW i \in DOMAIN es PROVE From(u[i], H)
    <3>1. CASE i = m
      <4>1. u[i] = [es[m] EXCEPT !.code = r.code]
        BY <3>1
      <4>2. u[i].h = r.h /\ u[i].code = r.code
        BY <2>2, <2>3, <4>1 DEF PathContains, Piece
      <4> QED
        BY <4>2 DEF From
    <3>2. CASE i # m
      BY <1>1, <3>2
    <3> QED
      BY <3>1, <3>2
  <2> QED
    BY <2>1, <2>5, <2>6 DEF Drawn
<1> QED
  BY <1>3, <1>4

(***************************************************************************)
(* Every entry that GetHmpUpdateResult returns has the module and the code *)
(* of one of the lines' heads.                                             *)
(***************************************************************************)
LEMMA ToldDrawn ==
    ASSUME NEW s \in Seq(Item)
    PROVE  Told(s) \in Drawn(HeadItems(s))
<1> DEFINE N == Len(s)
           D == Drawn(HeadItems(s))
           Enters(k, es) == IF k \in Heads(s) THEN Enter(es, s[k]) ELSE es
           F == [k \in Nat |-> [es \in D |-> Enters(k, es)]]
           Def(f) == [k \in 0..N |-> IF k = 0 THEN <<>>
                                     ELSE IF k \in Heads(s) THEN Enter(f[k - 1], s[k]) ELSE f[k - 1]]
           told == CHOOSE f : f = Def(f)
<1>1. N \in Nat /\ <<>> \in D
  BY DEF Drawn
<1>2. ASSUME NEW k \in Nat, NEW es \in D PROVE Enters(k, es) \in D
  <2>1. CASE k \in Heads(s)
    <3>1. s[k] \in Piece /\ s[k] \in HeadItems(s)
      BY <2>1, HeadsAreResults DEF HeadItems
    <3> QED
      BY <2>1, <3>1, EnterDrawn
  <2> QED
    BY <2>1
<1>3. F \in Steps(D)
  <2> HIDE DEF Enters, D
  <2> QED
    BY <1>2 DEF Steps
<1>4. Iterates(D, <<>>, F, N)
  <2> HIDE DEF F, N, D
  <2> QED
    BY <1>1, <1>3, Iteration
<1>5. PICK g \in [0..N -> D] : g[0] = <<>> /\ \A k \in 1..N : g[k] = F[k][g[k - 1]]
  <2> HIDE DEF F, N, D, Def, told
  <2> QED
    BY <1>4 DEF Iterates
<1>6. ASSUME NEW k \in 1..N PROVE g[k] = Enters(k, g[k - 1])
  <2>1. k \in Nat /\ k - 1 \in 0..N
    BY <1>1
  <2>2. g[k - 1] \in D
    <3> HIDE DEF D, N, F, Def, told
    <3> QED
      BY <2>1
  <2>3. F[k][g[k - 1]] = Enters(k, g[k - 1])
    <3> HIDE DEF D, N, Enters, Def, told
    <3> QED
      BY <2>1, <2>2
  <2> QED
    BY <1>5, <2>3
<1>7. g = Def(g)
  <2>1. ASSUME NEW k \in 0..N
        PROVE  g[k] = IF k = 0 THEN <<>>
                      ELSE IF k \in Heads(s) THEN Enter(g[k - 1], s[k]) ELSE g[k - 1]
    <3>1. CASE k = 0
      BY <1>5, <3>1
    <3>2. CASE k # 0
      <4>1. k \in 1..N
        BY <1>1, <3>2
      <4> QED
        BY <1>6, <3>2, <4>1
    <3> QED
      BY <3>1, <3>2
  <2> HIDE DEF D, N, F, told
  <2> QED
    BY <2>1
<1>8. told = Def(told)
  <2> HIDE DEF Def
  <2> QED
    BY <1>7
<1>9. Told(s) = told[N]
  BY DEF Told
<1> HIDE DEF told
<1> DEFINE S == {k \in 0..N : told[k] \in D}
<1>10. 0 \in S
  <2>1. told[0] = <<>>
    <3>1. 0 \in 0..N
      BY <1>1
    <3> HIDE DEF D, N
    <3> QED
      BY <1>8, <3>1
  <2> QED
    BY <1>1, <2>1
<1>11. ASSUME NEW n \in 0..(N - 1), n \in S PROVE n + 1 \in S
  <2>1. n + 1 \in 0..N /\ n + 1 # 0 /\ (n + 1) - 1 = n /\ n + 1 \in Nat
    BY <1>1
  <2>2. told[n + 1] = Enters(n + 1, told[n])
    <3> HIDE DEF D, N, F
    <3> QED
      BY <1>8, <2>1
  <2> HIDE DEF D, N, Enters
  <2> QED
    BY <1>2, <1>11, <2>1, <2>2
<1>12. 0..N \subseteq S
  <2> HIDE DEF S, N
  <2> QED
    BY <1>1, <1>10, <1>11, UpTo
<1> HIDE DEF D
<1> QED
  BY <1>1, <1>9, <1>12 DEF D

-----------------------------------------------------------------------------
(***************************************************************************)
(* The inductive invariant.                                                *)
(***************************************************************************)
WriterPC == {"idle", "read", "trunc", "flush", "append", "done"}

FileTypes ==
    /\ file \in [there : BOOLEAN, text : Seq(Item)]
    /\ disk \in Seq(Item)
    /\ ~file.there => file.text = <<>> /\ disk = <<>> /\ ~fd /\ ~out
    /\ fd \in BOOLEAN /\ out \in BOOLEAN /\ boot \in BOOLEAN
    /\ overlap \in BOOLEAN /\ raced \in BOOLEAN /\ torn \in BOOLEAN
    /\ wr \in [pc : WriterPC, h : Hmps, text : Seq(Item), found : BOOLEAN]
    /\ get.pc \in {"idle", "unlink"}
    /\ failed \subseteq Hmps

\* The writer has read the file and will write its lines.
Rewriting == wr.pc \in {"trunc", "flush"}

\* The heads of the lines in the file and of those a power loss may bring back.
Lines == HeadItems(file.text) \cup HeadItems(disk)

\* The head of every line was saved, those of the lines to be written too.
TrueLines ==
    /\ \A x \in Lines : <<x.h, x.code>> \in saved
    /\ Rewriting => \A x \in HeadItems(wr.text) :
                        <<x.h, x.code>> \in saved \/ (wr.found /\ x = NewResult)

(***************************************************************************)
(* No line begins with the success of a module that has failed since, and  *)
(* what the writer has still to write will not bring one back: neither for *)
(* the modules that have failed nor for its own.                           *)
(***************************************************************************)
NoFalseSuccess ==
    /\ \A x \in Lines : x.h \in failed => x.code # 0
    /\ Rewriting => \A x \in HeadItems(wr.text) : x.h \in failed \cup {wr.h} => x.code # 0
    /\ wr.pc = "append" => \A x \in Lines : x.h = wr.h => x.code # 0

\* Nobody else writes between the truncation and the lines, so they are the whole file.
Alone == wr.pc = "flush" => file.text = <<>> /\ disk = <<>>

\* Unless a revert is being saved, the file is the one that was read.
ToldIsThere == get.pc = "unlink" /\ ~overlap => wr.pc = "idle" /\ get.told = Told(file.text)

ResultInd ==
    /\ FileTypes
    /\ ~torn => TrueLines
    /\ ~raced => NoFalseSuccess /\ Alone
    /\ ToldIsThere

-----------------------------------------------------------------------------
(***************************************************************************)
(* The steps.                                                              *)
(***************************************************************************)
\* An appended result adds at most its own line.
LEMMA AppendLines ==
    ASSUME NEW s \in Seq(Item), NEW r \in Piece
    PROVE  /\ s \o <<r, NL>> \in Seq(Item)
           /\ HeadItems(s \o <<r, NL>>) \subseteq HeadItems(s) \cup {r}
  BY PairHeads, HeadsConcat, ConcatProperties

\* A file without text.
LEMMA EmptyText == <<>> \in Seq(Item) /\ HeadItems(<<>>) = {}
  BY NoHeads DEF HeadItems

\* Results are well typed, and so is the writer at rest.
LEMMA RecordType ==
    ASSUME NEW h \in Hmps, NEW form \in {"path", "name"}, NEW code \in {0, 1}
    PROVE  /\ Record(h, form, code) \in Piece
           /\ Record(h, form, code).h = h /\ Record(h, form, code).code = code
  BY DEF Record, Piece

LEMMA IdleWriter == Idle \in [pc : WriterPC, h : Hmps, text : Seq(Item), found : BOOLEAN]
  BY ResultAssumption, EmptyText DEF Idle, WriterPC

LEMMA NewResultType ==
    ASSUME FileTypes
    PROVE  NewResult \in Piece /\ NewResult.h = wr.h /\ NewResult.code = 1
  BY RecordType DEF NewResult, FileTypes

\* What is left when lines are written over a text is a text, and no other than the
\* lines or the text if one of them is empty.
LEMMA OverwrittenText ==
    ASSUME NEW s \in Seq(Item), NEW t \in Seq(Item), NEW u \in Overwritten(s, t)
    PROVE  u \in Seq(Item) /\ (t = <<>> => u = s) /\ (s = <<>> => u = t)
<1>1. CASE s = <<>>
  BY <1>1 DEF Overwritten
<1>2. CASE s # <<>>
  <2>1. ASSUME NEW n \in DOMAIN t, NEW r \in Remains(t, n) PROVE r \in Seq(Item) /\ t # <<>>
    <3>1. n \in 1..Len(t) /\ Len(t) \in Nat
      OBVIOUS
    <3>2. SubSeq(t, n + 1, Len(t)) \in Seq(Item)
      BY <3>1
    <3>3. ASSUME NEW p \in Piece PROVE <<p>> \o SubSeq(t, n + 1, Len(t)) \in Seq(Item)
      <4>1. <<p>> \in Seq(Item)
        BY DEF Item
      <4> QED
        BY <3>2, <4>1, ConcatProperties
    <3>4. \/ r = SubSeq(t, n + 1, Len(t))
          \/ \E p \in Piece : r = <<p>> \o SubSeq(t, n + 1, Len(t))
      BY Zenon DEF Remains
    <3>5. r \in Seq(Item)
      BY <3>2, <3>3, <3>4
    <3> QED
      BY <3>1, <3>5
  <2>2. u = s \/ \E n \in DOMAIN t : \E r \in Remains(t, n) : u = s \o r
    BY <1>2 DEF Overwritten
  <2> QED
    BY <1>2, <2>1, <2>2, ConcatProperties
<1> QED
  BY <1>1, <1>2

\* The file is made by the first writer.
LEMMA ResultInit == Init => ResultInd
<1> SUFFICES ASSUME Init PROVE ResultInd
  OBVIOUS
<1>1. FileTypes
  BY IdleWriter, EmptyText DEF Init, FileTypes
<1>2. wr.pc = "idle" /\ file.text = <<>> /\ disk = <<>> /\ get.pc = "idle"
  BY DEF Init, Idle
<1> QED
  BY <1>1, <1>2, EmptyText DEF ResultInd, TrueLines, NoFalseSuccess, Alone, Lines, ToldIsThere, Rewriting

\* The types are kept by every step.
LEMMA TypesStep == ASSUME ResultInd, Next PROVE FileTypes'
<1> USE DEF ResultInd
<1>1. ASSUME NEW h \in Hmps, OpenResult(h) PROVE FileTypes'
  <2>1. wr' \in [pc : WriterPC, h : Hmps, text : Seq(Item), found : BOOLEAN]
    BY <1>1, EmptyText DEF OpenResult, Idle, WriterPC
  <2> QED
    BY <1>1, <2>1 DEF OpenResult, FileTypes, histVars, raceVars
<1>2. ASSUME NEW h \in Hmps, NEW code \in {0, 1}, SaveInstallerResult(h, code) PROVE FileTypes'
  <2>1. file'.text \in Seq(Item)
    BY <1>2, RecordType, AppendLines DEF SaveInstallerResult, FileTypes
  <2> QED
    BY <1>2, <2>1 DEF SaveInstallerResult, FileTypes
<1>3. CASE GetHmpUpdateResult
  BY <1>3 DEF GetHmpUpdateResult, FileTypes, fileVars, histVars, raceVars
<1>4. CASE GetUnlink
  BY <1>4, EmptyText DEF GetUnlink, FileTypes
<1>5. CASE ReadResult
  <2>1. Rewrite(file.text, NewResult) \in Seq(Item)
    BY NewResultType, RewriteLines DEF FileTypes
  <2> QED
    BY <1>5, <2>1 DEF ReadResult, FileTypes, WriterPC, fileVars, histVars, raceVars
<1>6. CASE TruncResult
  BY <1>6, EmptyText DEF TruncResult, FileTypes, WriterPC, histVars, raceVars
<1>7. CASE FlushResult
  <2>1. wr' \in [pc : WriterPC, h : Hmps, text : Seq(Item), found : BOOLEAN]
    BY <1>7, EmptyText DEF FlushResult, FileTypes, WriterPC
  <2>2. CASE ~out
    BY <1>7, <2>1, <2>2 DEF FlushResult, FileTypes, histVars
  <2>3. CASE out
    <3>1. PICK t \in Overwritten(wr.text, file.text) : file' = [file EXCEPT !.text = t]
      BY <1>7, <2>3 DEF FlushResult
    <3>2. t \in Seq(Item)
      BY OverwrittenText DEF FileTypes
    <3>3. file' \in [there : BOOLEAN, text : Seq(Item)] /\ file'.there
      BY <2>3, <3>1, <3>2 DEF FileTypes
    <3>4. disk' = file.text /\ torn' \in BOOLEAN
      BY <1>7, <2>3 DEF FlushResult, FileTypes
    <3>5. failed' \subseteq Hmps
      BY <1>7 DEF FlushResult, FileTypes, histVars
    <3> QED
      BY <1>7, <2>1, <3>3, <3>4, <3>5 DEF FlushResult, FileTypes
  <2> QED
    BY <2>2, <2>3
<1>8. CASE AppendResult
  <2>1. file.text \o <<NewResult, NL>> \in Seq(Item)
    BY NewResultType, AppendLines DEF FileTypes
  <2> QED
    BY <1>8, <2>1 DEF AppendResult, FileTypes, WriterPC, histVars, raceVars
<1>9. CASE RevertAndReboot
  BY <1>9, IdleWriter DEF RevertAndReboot, FileTypes, histVars, raceVars
<1>10. CASE RevertReturns
  BY <1>10, IdleWriter DEF RevertReturns, FileTypes, histVars, raceVars
<1>11. CASE BootDone
  BY <1>11 DEF BootDone, FileTypes, fileVars, histVars, raceVars
<1>12. CASE Crash
  BY <1>12, IdleWriter, EmptyText DEF Crash, FileTypes, histVars, raceVars
<1> QED
  BY <1>1, <1>2, <1>3, <1>4, <1>5, <1>6, <1>7, <1>8, <1>9, <1>10, <1>11, <1>12 DEF Next

\* Steps that leave alone what is saved, or forget it with the file.
Quiet ==
    /\ Lines' \subseteq Lines
    /\ wr' = wr \/ ((~Rewriting)' /\ wr'.pc # "append")
    /\ saved' = saved /\ failed' = failed /\ raced' = raced /\ torn' = torn

LEMMA QuietSteps ==
    ASSUME ResultInd, \/ \E h \in Hmps : OpenResult(h)
                      \/ GetHmpUpdateResult \/ RevertAndReboot \/ RevertReturns
                      \/ BootDone \/ Crash
    PROVE  Quiet
<1> USE DEF Quiet, Rewriting, Lines
<1>1. ASSUME NEW h \in Hmps, OpenResult(h) PROVE Quiet
  BY <1>1 DEF OpenResult, Idle, histVars, raceVars, ResultInd, FileTypes
<1>2. CASE GetHmpUpdateResult
  BY <1>2 DEF GetHmpUpdateResult, fileVars, histVars, raceVars
<1>3. CASE RevertAndReboot
  BY <1>3 DEF RevertAndReboot, Idle, histVars, raceVars
<1>4. CASE RevertReturns
  BY <1>4 DEF RevertReturns, Idle, histVars, raceVars
<1>5. CASE BootDone
  BY <1>5 DEF BootDone, fileVars, histVars, raceVars
<1>6. CASE Crash
  <2>1. file'.text \in {file.text, disk} /\ disk' = file'.text
    BY <1>6 DEF Crash, ResultInd, FileTypes
  <2> QED
    BY <1>6, <2>1 DEF Crash, Idle, histVars, raceVars
<1> QED
  BY <1>1, <1>2, <1>3, <1>4, <1>5, <1>6

LEMMA QuietKeeps ==
    ASSUME ResultInd, Quiet PROVE (~torn => TrueLines)' /\ (~raced => NoFalseSuccess)'
  BY DEF ResultInd, Quiet, TrueLines, NoFalseSuccess, Rewriting, NewResult

\* A step that makes the file, and what is on the disk, the same text.
LEMMA SameText == ASSUME disk' = file'.text PROVE Lines' = HeadItems(file'.text)
  BY DEF Lines

\* A step that leaves both empty.
LEMMA NoLines == ASSUME file'.text = <<>>, disk' = <<>> PROVE Lines' = {}
  BY EmptyText DEF Lines

\* What is left of the lines when a rewrite is written: they and those of the file.
LEMMA FlushedLines ==
    ASSUME ResultInd, FlushResult, ~torn'
    PROVE  /\ ~torn /\ ~Rewriting'
           /\ Lines' \subseteq Lines \cup (IF out THEN HeadItems(wr.text) ELSE {})
<1> USE DEF ResultInd
<1>1. ~Rewriting' /\ (~out => file' = file /\ disk' = disk /\ torn' = torn)
  BY DEF FlushResult, Rewriting, FileTypes
<1>2. CASE out
  <2>1. PICK t \in Overwritten(wr.text, file.text) : file' = [file EXCEPT !.text = t]
    BY <1>2 DEF FlushResult
  <2>2. file'.text = t /\ disk' = file.text
    BY <1>2, <2>1 DEF FlushResult, FileTypes
  <2>3. ~torn /\ (wr.text = <<>> \/ file.text = <<>>)
    BY <1>2 DEF FlushResult, FileTypes
  <2>4. t \in {wr.text, file.text}
    BY <2>3, OverwrittenText DEF FileTypes
  <2> QED
    BY <1>1, <1>2, <2>2, <2>3, <2>4 DEF Lines
<1> QED
  BY <1>1, <1>2 DEF Lines

\* Every head was saved, unless a line was torn.
LEMMA TrueStep == ASSUME ResultInd, Next PROVE (~torn => TrueLines)'
<1> USE DEF ResultInd
<1> SUFFICES ASSUME ~torn' PROVE TrueLines'
  OBVIOUS
<1>1. CASE \/ \E h \in Hmps : OpenResult(h)
           \/ GetHmpUpdateResult \/ RevertAndReboot \/ RevertReturns \/ BootDone \/ Crash
  BY <1>1, QuietSteps, QuietKeeps
<1>2. ASSUME NEW h \in Hmps, NEW code \in {0, 1}, SaveInstallerResult(h, code) PROVE TrueLines'
  <2> DEFINE r == Record(h, "path", code)
  <2>1. r \in Piece /\ r.h = h /\ r.code = code
    BY RecordType
  <2> HIDE DEF r
  <2>2. Lines' \subseteq HeadItems(file.text) \cup {r}
    <3>1. file'.text = file.text \o <<r, NL>> /\ disk' = file'.text
      BY <1>2 DEF SaveInstallerResult, r
    <3> QED
      BY <2>1, <3>1, AppendLines, SameText DEF FileTypes
  <2>3. saved' = saved \cup {<<h, code>>} /\ wr' = wr /\ ~torn
    BY <1>2 DEF SaveInstallerResult, Saved
  <2> QED
    BY <2>1, <2>2, <2>3 DEF TrueLines, Lines, Rewriting, NewResult
<1>3. CASE GetUnlink
  <2>1. file'.text = <<>> /\ disk' = <<>> /\ wr' = wr /\ (wr.pc # "idle" => saved' = saved /\ ~torn)
    BY <1>3 DEF GetUnlink, FileTypes
  <2> QED
    BY <2>1, NoLines DEF TrueLines, Rewriting, NewResult
<1>4. CASE ReadResult
  <2>1. file' = file /\ disk' = disk /\ saved' = saved /\ ~torn
    BY <1>4 DEF ReadResult, fileVars, histVars, raceVars
  <2>2. CASE file.there
    <3>1. wr' = [wr EXCEPT !.pc = "trunc", !.text = Rewrite(file.text, NewResult),
                           !.found = Hit(file.text, NewResult) # {}]
      BY <1>4, <2>2 DEF ReadResult
    <3>2. /\ wr'.h = wr.h /\ wr'.text = Rewrite(file.text, NewResult)
          /\ wr'.found = (Hit(file.text, NewResult) # {})
      BY <3>1 DEF FileTypes
    <3>3. NewResult' = NewResult
      BY <3>2 DEF NewResult
    <3>4. HeadItems(wr'.text) \subseteq Left(file.text, NewResult)
      BY <3>2, NewResultType, RewriteLines DEF FileTypes
    <3>5. \A x \in HeadItems(wr'.text) :
              x \in HeadItems(file.text) \/ (wr'.found /\ x = NewResult)
      BY <3>2, <3>4, LeftLines DEF FileTypes
    <3> QED
      BY <2>1, <3>3, <3>5 DEF TrueLines, Lines
  <2>3. CASE ~file.there
    BY <1>4, <2>1, <2>3 DEF ReadResult, TrueLines, Lines, Rewriting, FileTypes
  <2> QED
    BY <2>2, <2>3
<1>5. CASE TruncResult
  <2>1. /\ file'.text = <<>> /\ disk' = <<>> /\ saved' = saved /\ wr' = [wr EXCEPT !.pc = "flush"]
        /\ Rewriting /\ ~torn
    BY <1>5 DEF TruncResult, histVars, raceVars, Rewriting
  <2>2. wr'.text = wr.text /\ wr'.h = wr.h /\ wr'.found = wr.found
    BY <2>1 DEF FileTypes
  <2> QED
    BY <2>1, <2>2, NoLines DEF TrueLines, NewResult
<1>6. CASE FlushResult
  <2>1. ~torn /\ ~Rewriting' /\ Lines' \subseteq Lines \cup (IF out THEN HeadItems(wr.text) ELSE {})
    BY <1>6, FlushedLines
  <2>2. Rewriting /\ saved' = IF wr.found /\ out THEN saved \cup {<<wr.h, 1>>} ELSE saved
    BY <1>6 DEF FlushResult, histVars, Saved, Rewriting
  <2> QED
    BY <2>1, <2>2, NewResultType DEF TrueLines
<1>7. CASE AppendResult
  <2>1. ~Rewriting' /\ ~torn
    BY <1>7 DEF AppendResult, Rewriting, FileTypes, raceVars
  <2>2. CASE fd
    <3>1. /\ file'.text = file.text \o <<NewResult, NL>> /\ disk' = file'.text
          /\ saved' = saved \cup {<<wr.h, 1>>}
      BY <1>7, <2>2 DEF AppendResult, Saved, FileTypes
    <3>2. Lines' \subseteq HeadItems(file.text) \cup {NewResult}
      BY <3>1, NewResultType, AppendLines, SameText DEF FileTypes
    <3> QED
      BY <2>1, <3>1, <3>2, NewResultType DEF TrueLines, Lines
  <2>3. CASE ~fd
    <3>1. file' = file /\ disk' = disk /\ saved' = saved
      BY <1>7, <2>3 DEF AppendResult, histVars
    <3> QED
      BY <2>1, <3>1 DEF TrueLines, Lines
  <2> QED
    BY <2>2, <2>3
<1> QED
  BY <1>1, <1>2, <1>3, <1>4, <1>5, <1>6, <1>7 DEF Next

(***************************************************************************)
(* No success of a module that has failed comes back, unless the result of *)
(* an update was saved while a revert's was.                               *)
(***************************************************************************)
LEMMA SuccessStep == ASSUME ResultInd, Next PROVE (~raced => NoFalseSuccess)'
<1> USE DEF ResultInd
<1> SUFFICES ASSUME ~raced' PROVE NoFalseSuccess'
  OBVIOUS
<1>1. CASE \/ \E h \in Hmps : OpenResult(h)
           \/ GetHmpUpdateResult \/ RevertAndReboot \/ RevertReturns \/ BootDone \/ Crash
  BY <1>1, QuietSteps, QuietKeeps
<1>2. ASSUME NEW h \in Hmps, NEW code \in {0, 1}, SaveInstallerResult(h, code)
      PROVE  NoFalseSuccess'
  <2> DEFINE r == Record(h, "path", code)
  <2>1. r \in Piece /\ r.h = h
    BY RecordType
  <2> HIDE DEF r
  <2>2. Lines' \subseteq HeadItems(file.text) \cup {r}
    <3>1. file'.text = file.text \o <<r, NL>> /\ disk' = file'.text
      BY <1>2 DEF SaveInstallerResult, r
    <3> QED
      BY <2>1, <3>1, AppendLines, SameText DEF FileTypes
  <2>3. failed' = failed \ {h} /\ wr' = wr /\ wr.pc = "idle" /\ ~raced
    BY <1>2 DEF SaveInstallerResult, FileTypes
  <2> QED
    BY <2>1, <2>2, <2>3 DEF NoFalseSuccess, Lines, Rewriting
<1>3. CASE GetUnlink
  <2>1. /\ file'.text = <<>> /\ disk' = <<>> /\ wr' = wr /\ failed' = failed
        /\ wr.pc # "idle" => ~raced
    BY <1>3 DEF GetUnlink, FileTypes
  <2> QED
    BY <2>1, NoLines DEF NoFalseSuccess, Rewriting
<1>4. CASE ReadResult
  <2>1. file' = file /\ disk' = disk /\ failed' = failed /\ ~raced
    BY <1>4 DEF ReadResult, fileVars, histVars, raceVars
  <2>2. CASE file.there
    <3>1. wr' = [wr EXCEPT !.pc = "trunc", !.text = Rewrite(file.text, NewResult),
                           !.found = Hit(file.text, NewResult) # {}]
      BY <1>4, <2>2 DEF ReadResult
    <3>2. wr'.pc = "trunc" /\ wr'.h = wr.h /\ wr'.text = Rewrite(file.text, NewResult)
      BY <3>1 DEF FileTypes
    <3>3. HeadItems(wr'.text) \subseteq Left(file.text, NewResult)
      BY <3>2, NewResultType, RewriteLines DEF FileTypes
    <3>4. \A x \in HeadItems(wr'.text) :
              \/ x \in HeadItems(file.text) /\ (x.h = wr.h => x.code # 0)
              \/ x.code = 1
      BY <3>3, LeftLines, NewResultType DEF FileTypes
    <3> QED
      BY <2>1, <3>2, <3>4 DEF NoFalseSuccess, Lines
  <2>3. CASE ~file.there
    <3>1. wr'.pc = "append" /\ file'.text = <<>> /\ disk' = <<>>
      BY <1>4, <2>1, <2>3 DEF ReadResult, FileTypes
    <3> QED
      BY <3>1, NoLines DEF NoFalseSuccess, Rewriting
  <2> QED
    BY <2>2, <2>3
<1>5. CASE TruncResult
  <2>1. /\ file'.text = <<>> /\ disk' = <<>> /\ failed' = failed /\ wr' = [wr EXCEPT !.pc = "flush"]
        /\ Rewriting /\ ~raced
    BY <1>5 DEF TruncResult, histVars, raceVars, Rewriting
  <2>2. wr'.text = wr.text /\ wr'.h = wr.h /\ wr'.pc = "flush"
    BY <2>1 DEF FileTypes
  <2> QED
    BY <2>1, <2>2, NoLines DEF NoFalseSuccess
<1>6. CASE FlushResult
  <2>1. /\ Rewriting /\ ~Rewriting' /\ ~raced /\ wr'.h = wr.h /\ failed' \subseteq failed \cup {wr.h}
        /\ file.text = <<>> /\ disk = <<>>
    BY <1>6 DEF FlushResult, Rewriting, FileTypes, histVars, Alone
  <2>2. CASE ~out
    <3>1. file'.text = <<>> /\ disk' = <<>>
      BY <1>6, <2>1, <2>2 DEF FlushResult
    <3> QED
      BY <2>1, <3>1, NoLines DEF NoFalseSuccess
  <2>3. CASE out
    <3>1. PICK t \in Overwritten(wr.text, file.text) : file' = [file EXCEPT !.text = t]
      BY <1>6, <2>3 DEF FlushResult
    <3>2. file'.text = wr.text /\ disk' = <<>>
      BY <1>6, <2>1, <2>3, <3>1, OverwrittenText DEF FlushResult, FileTypes
    <3>3. Lines' = HeadItems(wr.text)
      BY <3>2, EmptyText DEF Lines
    <3> QED
      BY <2>1, <3>3 DEF NoFalseSuccess
  <2> QED
    BY <2>2, <2>3
<1>7. CASE AppendResult
  <2>1. ~Rewriting' /\ wr'.pc # "append" /\ wr.pc = "append" /\ ~raced
    BY <1>7 DEF AppendResult, Rewriting, FileTypes, raceVars
  <2>2. CASE fd
    <3>1. /\ file'.text = file.text \o <<NewResult, NL>> /\ disk' = file'.text
          /\ failed' = failed \cup {wr.h}
      BY <1>7, <2>2 DEF AppendResult, FileTypes
    <3>2. Lines' \subseteq HeadItems(file.text) \cup {NewResult}
      BY <3>1, NewResultType, AppendLines, SameText DEF FileTypes
    <3>3. NewResult.code = 1
      BY NewResultType
    <3>4. ASSUME NEW x \in Lines', x.h \in failed' PROVE x.code # 0
      <4>1. CASE x = NewResult
        BY <3>3, <4>1
      <4>2. CASE x \in HeadItems(file.text)
        BY <2>1, <3>1, <3>4, <4>2 DEF NoFalseSuccess, Lines
      <4> QED
        BY <3>2, <4>1, <4>2
    <3> QED
      BY <2>1, <3>4 DEF NoFalseSuccess
  <2>3. CASE ~fd
    <3>1. file' = file /\ disk' = disk /\ failed' = failed
      BY <1>7, <2>3 DEF AppendResult, histVars
    <3> QED
      BY <2>1, <3>1 DEF NoFalseSuccess, Lines
  <2> QED
    BY <2>2, <2>3
<1> QED
  BY <1>1, <1>2, <1>3, <1>4, <1>5, <1>6, <1>7 DEF Next

\* Between the truncation and the lines the file stays empty, unless an update is saved.
LEMMA AloneStep == ASSUME ResultInd, Next PROVE (~raced => Alone)'
<1> USE DEF ResultInd, Alone
<1> SUFFICES ASSUME ~raced', wr'.pc = "flush" PROVE file'.text = <<>> /\ disk' = <<>>
  OBVIOUS
<1>1. CASE GetUnlink \/ TruncResult
  BY <1>1 DEF GetUnlink, TruncResult
<1>2. CASE GetHmpUpdateResult \/ BootDone
  BY <1>2 DEF GetHmpUpdateResult, BootDone, fileVars, raceVars
<1>3. ASSUME NEW h \in Hmps, NEW code \in {0, 1}, SaveInstallerResult(h, code) PROVE FALSE
  BY <1>3 DEF SaveInstallerResult, FileTypes
<1>4. ASSUME NEW h \in Hmps, OpenResult(h) PROVE FALSE
  BY <1>4 DEF OpenResult, Idle
<1>5. CASE ReadResult
  BY <1>5 DEF ReadResult, FileTypes
<1>6. CASE FlushResult
  BY <1>6 DEF FlushResult, FileTypes
<1>7. CASE AppendResult
  BY <1>7 DEF AppendResult, FileTypes
<1>8. CASE RevertAndReboot \/ RevertReturns \/ Crash
  BY <1>8 DEF RevertAndReboot, RevertReturns, Crash, Idle
<1> QED
  BY <1>1, <1>2, <1>3, <1>4, <1>5, <1>6, <1>7, <1>8 DEF Next

\* Nothing but a revert being saved changes the file between its reading and its removal.
LEMMA ToldStep == ASSUME ResultInd, Next PROVE ToldIsThere'
<1> USE DEF ResultInd
<1>1. ASSUME NEW h \in Hmps, OpenResult(h) PROVE ToldIsThere'
  BY <1>1 DEF OpenResult, ToldIsThere, FileTypes
<1>2. ASSUME NEW h \in Hmps, NEW code \in {0, 1}, SaveInstallerResult(h, code)
      PROVE  ToldIsThere'
  BY <1>2 DEF SaveInstallerResult, ToldIsThere
<1>3. CASE GetHmpUpdateResult
  <2>1. file' = file /\ wr' = wr /\ get'.told = Told(file.text) /\ overlap' = (wr.pc # "idle")
    BY <1>3 DEF GetHmpUpdateResult, fileVars
  <2> QED
    BY <2>1 DEF ToldIsThere
<1>4. CASE GetUnlink \/ RevertAndReboot \/ Crash
  BY <1>4 DEF GetUnlink, RevertAndReboot, Crash, ToldIsThere
<1>5. CASE ReadResult \/ TruncResult \/ FlushResult \/ AppendResult \/ RevertReturns
  <2>1. wr.pc # "idle" /\ get' = get /\ overlap' = overlap
    BY <1>5 DEF ReadResult, TruncResult, FlushResult, AppendResult, RevertReturns
  <2> QED
    BY <2>1 DEF ToldIsThere
<1>6. CASE BootDone
  <2>1. file' = file /\ wr' = wr /\ get' = get /\ overlap' = overlap
    BY <1>6 DEF BootDone, fileVars
  <2> QED
    BY <2>1 DEF ToldIsThere
<1> QED
  BY <1>1, <1>2, <1>3, <1>4, <1>5, <1>6 DEF Next

\* Where nothing changes the invariant stays.
LEMMA ResultStutter == ASSUME ResultInd, UNCHANGED vars PROVE ResultInd'
<1>1. /\ file' = file /\ fd' = fd /\ wr' = wr /\ get' = get /\ boot' = boot
      /\ out' = out /\ disk' = disk /\ torn' = torn /\ saved' = saved /\ failed' = failed /\ overlap' = overlap
      /\ raced' = raced
  BY DEF vars, fileVars, histVars, raceVars
<1> QED
  BY <1>1 DEF ResultInd, FileTypes, TrueLines, NoFalseSuccess, Alone, Lines, ToldIsThere, Rewriting,
     NewResult

LEMMA ResultInvariant == Spec => []ResultInd
<1>1. ResultInd /\ [Next]_vars => ResultInd'
  BY TypesStep, TrueStep, SuccessStep, AloneStep, ToldStep, ResultStutter DEF ResultInd
<1> QED
  BY <1>1, ResultInit, PTL DEF Spec
-----------------------------------------------------------------------------
(***************************************************************************)
(* The theorems.                                                           *)
(***************************************************************************)
\* What a reader of the file would be told comes from the heads of its lines.
LEMMA EntriesDrawn ==
    ASSUME FileTypes, NEW e \in Entries PROVE From(e, HeadItems(file.text))
<1>1. Told(file.text) \in Drawn(HeadItems(file.text))
  BY ToldDrawn DEF FileTypes
<1> QED
  BY <1>1 DEF Drawn, Entries

(***************************************************************************)
(* The result file and its users are well typed, and every entry that      *)
(* GetHmpUpdateResult would return is a result which the module has had,   *)
(* however lines have run together and wherever power was lost, unless the *)
(* service appended a result between the truncation of the file and the    *)
(* writing of its lines.                                                   *)
(***************************************************************************)
THEOREM ResultEntriesTrue == Spec => []ResultInv
<1>1. ASSUME ResultInd PROVE ResultTypeOK
  <2>1. \A i \in Results(file.text) : file.text[i] \in Piece
    BY <1>1 DEF ResultInd, FileTypes, Results, Item
  <2> QED
    BY <1>1, <2>1 DEF ResultInd, FileTypes, ResultTypeOK, WriterPC
<1>2. ASSUME ResultInd PROVE EntriesAreTrue
  <2> SUFFICES ASSUME ~torn, NEW e \in Entries PROVE <<e.h, e.code>> \in saved
    BY DEF EntriesAreTrue
  <2>1. PICK x \in HeadItems(file.text) : e.h = x.h /\ e.code = x.code
    BY <1>2, EntriesDrawn DEF ResultInd, From
  <2>2. <<x.h, x.code>> \in saved
    BY <1>2 DEF ResultInd, TrueLines, Lines
  <2> QED
    BY <2>1, <2>2
<1>3. ResultInd => ResultInv
  BY <1>1, <1>2 DEF ResultInv
<1> QED
  BY <1>3, ResultInvariant, PTL

(***************************************************************************)
(* A module that was reverted or could not be mounted after its update is  *)
(* not reported as updated, unless the service saved an update's result    *)
(* while the monitor was saving a revert's.                                *)
(***************************************************************************)
THEOREM ResultRevertedNotSuccessful == Spec => []RevertedNotSuccessful
<1>1. ASSUME ResultInd, ~raced, NEW e \in Entries, e.h \in failed PROVE e.code # 0
  <2>1. PICK x \in HeadItems(file.text) : e.h = x.h /\ e.code = x.code
    BY <1>1, EntriesDrawn DEF ResultInd, From
  <2>2. x.h \in failed => x.code # 0
    BY <1>1 DEF ResultInd, NoFalseSuccess, Lines
  <2> QED
    BY <1>1, <2>1, <2>2
<1>2. ResultInd => RevertedNotSuccessful
  BY <1>1 DEF RevertedNotSuccessful
<1> QED
  BY <1>2, ResultInvariant, PTL

(***************************************************************************)
(* GetHmpUpdateResult removes only what it has told, unless the monitor    *)
(* was saving a revert meanwhile.                                          *)
(***************************************************************************)
THEOREM ResultNothingRemovedUntold == Spec => NothingRemovedUntold
<1>1. ResultInd => [GetUnlink => get.told = Told(file.text) \/ overlap]_vars
  BY DEF ResultInd, ToldIsThere, GetUnlink
<1> QED
  BY <1>1, ResultInvariant, PTL DEF NothingRemovedUntold
=============================================================================
