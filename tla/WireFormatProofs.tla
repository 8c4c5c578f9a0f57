--------------------------- MODULE WireFormatProofs --------------------------
(***************************************************************************)
(* The loops of the generated code, for every string of bytes, every table *)
(* of fields and words of every width.                                     *)
(***************************************************************************)
EXTENDS WireFormat, FiniteSetTheorems, WellFoundedInduction, SequenceTheorems, TLAPS

(* A set of natural numbers that has an element has a least one: the       *)
(* counterexamples to a claim, if there are any, have a smallest one.      *)
LEMMA LeastNatural ==
    ASSUME NEW T, T \subseteq Nat, T # {}
    PROVE  \E n \in T : \A m \in T : n <= m
  <1>1. PICK n \in T : \A m \in T : ~ (<<m, n>> \in OpToRel(<, Nat))
    BY NatLessThanWellFounded, WFMin
  <1>2. \A m \in T : ~ (m < n)
    BY <1>1 DEF OpToRel
  <1> QED
    BY <1>2

(* Induction over the natural numbers: the numbers a claim holds of are all *)
(* of them if 0 is one and each one's successor is.                         *)
LEMMA NumberInduction ==
    ASSUME NEW G, 0 \in G, \A n \in Nat : n \in G => n + 1 \in G
    PROVE  \A n \in Nat : n \in G
  <1> SUFFICES ASSUME Nat \ G # {} PROVE FALSE
    OBVIOUS
  <1>1. PICK n \in Nat \ G : \A m \in Nat \ G : n <= m
    BY LeastNatural
  <1>2. n - 1 \in Nat /\ n - 1 \in G
    BY <1>1
  <1> QED
    BY <1>1, <1>2


(* A function on the natural numbers may be defined by its value at 0 and   *)
(* by the step from each value to the next.                                 *)
IsRun(f, X, base, step, n) ==
    /\ f \in [0..n -> X] /\ f[0] = base
    /\ \A k \in 0..(n - 1) : f[k + 1] = step[k][f[k]]

LEMMA RunExists ==
    ASSUME NEW X, NEW base \in X, NEW step \in [Nat -> [X -> X]]
    PROVE  \A n \in Nat : \E f : IsRun(f, X, base, step, n)
  <1> DEFINE G == {n \in Nat : \E f : IsRun(f, X, base, step, n)}
  <1>1. 0 \in G
    <2>1. PICK f : f = [k \in 0..0 |-> base]
      OBVIOUS
    <2>2. IsRun(f, X, base, step, 0)
      BY <2>1 DEF IsRun
    <2> QED
      BY <2>2
  <1>2. ASSUME NEW n \in Nat, n \in G PROVE n + 1 \in G
    <2>1. PICK f : IsRun(f, X, base, step, n)
      BY <1>2
    <2>2. PICK last : last = step[n][f[n]]
      OBVIOUS
    <2>3. last \in X
      BY <2>1, <2>2 DEF IsRun
    <2>4. PICK g : g = [k \in 0..(n + 1) |-> IF k = n + 1 THEN last ELSE f[k]]
      OBVIOUS
    <2>5. \A k \in 0..n : g[k] = f[k] /\ g[k] \in X
      BY <2>1, <2>4 DEF IsRun
    <2>6. g[n + 1] = last /\ g[0] = base
      BY <2>1, <2>4 DEF IsRun
    <2>7. g \in [0..(n + 1) -> X]
      <3>1. \A k \in 0..(n + 1) : g[k] \in X
        BY <2>3, <2>5, <2>6
      <3> QED
        BY <2>4, <3>1
    <2>8. \A k \in 0..((n + 1) - 1) : g[k + 1] = step[k][g[k]]
      <3> TAKE k \in 0..((n + 1) - 1)
      <3>1. CASE k = n
        BY <3>1, <2>2, <2>5, <2>6
      <3>2. CASE k # n
        <4>1. k \in 0..(n - 1) /\ k + 1 \in 0..n /\ k \in 0..n
          BY <3>2
        <4> QED
          BY <4>1, <2>1, <2>5 DEF IsRun
      <3> QED
        BY <3>1, <3>2
    <2>9. IsRun(g, X, base, step, n + 1)
      BY <2>6, <2>7, <2>8 DEF IsRun
    <2> QED
      BY <2>9
  <1> HIDE DEF G
  <1>3. \A n \in Nat : n \in G
    BY <1>1, <1>2, NumberInduction
  <1> QED
    BY <1>3 DEF G

LEMMA RunsAgree ==
    ASSUME NEW X, NEW base, NEW step, NEW f, NEW g, NEW m \in Nat, NEW n \in Nat,
           IsRun(f, X, base, step, m), IsRun(g, X, base, step, n)
    PROVE  \A k \in Nat : k <= m /\ k <= n => f[k] = g[k]
  <1> DEFINE G == {k \in Nat : k <= m /\ k <= n => f[k] = g[k]}
  <1>1. 0 \in G
    BY DEF IsRun
  <1>2. ASSUME NEW k \in Nat, k \in G PROVE k + 1 \in G
    <2> SUFFICES ASSUME k + 1 <= m, k + 1 <= n PROVE f[k + 1] = g[k + 1]
      OBVIOUS
    <2>1. k \in 0..(m - 1) /\ k \in 0..(n - 1) /\ f[k] = g[k]
      BY <1>2
    <2> QED
      BY <2>1 DEF IsRun
  <1> HIDE DEF G
  <1>3. \A k \in Nat : k \in G
    BY <1>1, <1>2, NumberInduction
  <1> QED
    BY <1>3 DEF G

Solves(f, X, base, step) ==
    f \in [Nat -> X] /\ f[0] = base /\ \A n \in Nat : f[n + 1] = step[n][f[n]]

LEMMA Recursion ==
    ASSUME NEW X, NEW base \in X, NEW step \in [Nat -> [X -> X]]
    PROVE  \E f : Solves(f, X, base, step)
  <1>1. PICK run : run = [n \in Nat |-> CHOOSE f : IsRun(f, X, base, step, n)]
    OBVIOUS
  <1>2. \A n \in Nat : IsRun(run[n], X, base, step, n)
    BY <1>1, RunExists
  <1>3. PICK f : f = [n \in Nat |-> run[n][n]]
    OBVIOUS
  <1>4. f \in [Nat -> X]
    <2>1. \A n \in Nat : run[n][n] \in X
      BY <1>2 DEF IsRun
    <2> QED
      BY <1>3, <2>1
  <1>5. f[0] = base
    BY <1>2, <1>3 DEF IsRun
  <1>6. ASSUME NEW n \in Nat PROVE f[n + 1] = step[n][f[n]]
    <2>1. run[n + 1][n] = run[n][n]
      <3>1. IsRun(run[n], X, base, step, n) /\ IsRun(run[n + 1], X, base, step, n + 1)
        BY <1>2
      <3> QED
        BY <3>1, RunsAgree
    <2>2. run[n + 1][n + 1] = step[n][run[n + 1][n]]
      BY <1>2 DEF IsRun
    <2> QED
      BY <1>3, <2>1, <2>2
  <1> QED
    BY <1>4, <1>5, <1>6 DEF Solves

(* Induction up to a bound. *)
LEMMA BoundedInduction ==
    ASSUME NEW N \in Nat, NEW G, 0 \in G, \A n \in 1..N : n - 1 \in G => n \in G
    PROVE  \A n \in 0..N : n \in G
  <1> DEFINE H == {n \in Nat : n <= N => n \in G}
  <1>1. 0 \in H
    OBVIOUS
  <1>2. ASSUME NEW n \in Nat, n \in H PROVE n + 1 \in H
    <2> SUFFICES ASSUME n + 1 <= N PROVE n + 1 \in G
      OBVIOUS
    <2>1. n \in G /\ n + 1 \in 1..N /\ (n + 1) - 1 = n
      BY <1>2
    <2> QED
      BY <2>1
  <1> HIDE DEF H
  <1>3. \A n \in Nat : n \in H
    BY <1>1, <1>2, NumberInduction
  <1> QED
    BY <1>3 DEF H

-----------------------------------------------------------------------------
(***************************************************************************)
(* Powers of two, least numbers and sums.                                  *)
(***************************************************************************)

LEMMA TwoToEquation ==
    /\ TwoTo[0] = 1
    /\ \A n \in Nat : TwoTo[n + 1] = 2 * TwoTo[n]
  <1>1. TwoTo = [n \in Nat |-> IF n = 0 THEN 1 ELSE 2 * TwoTo[n - 1]]
    <2>1. PICK step : step = [n \in Nat |-> [k \in Nat |-> 2 * k]]
      OBVIOUS
    <2>2. step \in [Nat -> [Nat -> Nat]]
      BY <2>1
    <2>3. PICK f : Solves(f, Nat, 1, step)
      BY <2>2, Recursion
    <2>4. \A n \in Nat : f[n + 1] = 2 * f[n]
      BY <2>1, <2>3 DEF Solves
    <2>5. \A n \in Nat : f[n] = IF n = 0 THEN 1 ELSE 2 * f[n - 1]
      <3> TAKE n \in Nat
      <3>1. CASE n = 0
        BY <3>1, <2>3 DEF Solves
      <3>2. CASE n # 0
        <4>1. n - 1 \in Nat /\ (n - 1) + 1 = n
          BY <3>2
        <4> QED
          BY <3>2, <4>1, <2>4
      <3> QED
        BY <3>1, <3>2
    <2>6. f = [n \in Nat |-> IF n = 0 THEN 1 ELSE 2 * f[n - 1]]
      BY <2>3, <2>5 DEF Solves
    <2> QED
      BY <2>6, Zenon DEF TwoTo
  <1> QED
    BY <1>1

LEMMA TwoToPositive ==
    ASSUME NEW n \in Nat
    PROVE  TwoTo[n] \in Nat /\ TwoTo[n] > 0
  <1> DEFINE G == {k \in Nat : TwoTo[k] \in Nat /\ TwoTo[k] > 0}
  <1>1. 0 \in G /\ \A k \in Nat : k \in G => k + 1 \in G
    BY TwoToEquation
  <1> HIDE DEF G
  <1>2. n \in G
    BY <1>1, NumberInduction
  <1> QED
    BY <1>2 DEF G

(* A set of natural numbers that has an element has its minimum in it. *)
LEMMA MinFacts ==
    ASSUME NEW S, S \subseteq Nat, S # {}
    PROVE  Min(S) \in S /\ \A n \in S : Min(S) <= n
  <1>1. \E n \in S : \A m \in S : n =< m
    BY LeastNatural
  <1> QED
    BY <1>1 DEF Min

(* The sums of the first numbers of a list. *)
IsSums(sum, list) ==
    /\ sum \in [0..Len(list) -> Nat] /\ sum[0] = 0
    /\ \A n \in 1..Len(list) : sum[n] = sum[n - 1] + list[n]

LEMMA SumExists ==
    ASSUME NEW list \in Seq(Nat)
    PROVE  \E sum : IsSums(sum, list) /\ SumOf(list) = sum[Len(list)]
  <1>1. PICK length : length = Len(list)
    OBVIOUS
  <1>2. length \in Nat /\ \A n \in 1..length : list[n] \in Nat
    BY <1>1
  <1>3. PICK step : step = [n \in Nat |-> [s \in Nat |-> IF n < length THEN s + list[n + 1] ELSE s]]
    OBVIOUS
  <1>4. step \in [Nat -> [Nat -> Nat]]
    <2>1. \A n \in Nat, s \in Nat : (IF n < length THEN s + list[n + 1] ELSE s) \in Nat
      BY <1>2
    <2> QED
      BY <1>3, <2>1
  <1>5. PICK g : IsRun(g, Nat, 0, step, length)
    BY <1>2, <1>4, RunExists
  <1>6. \A n \in 1..length : g[n] = g[n - 1] + list[n]
    <2> TAKE n \in 1..length
    <2>1. PICK k \in Nat : n = k + 1 /\ k < length
      BY <1>2
    <2>2. g[k + 1] = step[k][g[k]] /\ g[k] \in Nat
      BY <1>2, <1>5, <2>1 DEF IsRun
    <2> QED
      BY <2>1, <2>2, <1>3
  <1>7. g = [n \in 0..Len(list) |-> IF n = 0 THEN 0 ELSE g[n - 1] + list[n]]
    <2>1. \A n \in 0..length : g[n] = IF n = 0 THEN 0 ELSE g[n - 1] + list[n]
      BY <1>2, <1>5, <1>6 DEF IsRun
    <2> QED
      BY <1>1, <1>5, <2>1 DEF IsRun
  <1>8. PICK h : h = CHOOSE f_ : f_ = [n \in 0..Len(list) |-> IF n = 0 THEN 0 ELSE f_[n - 1] + list[n]]
    OBVIOUS
  <1>9. h = [n \in 0..Len(list) |-> IF n = 0 THEN 0 ELSE h[n - 1] + list[n]]
    BY <1>7, <1>8
  <1>10. SumOf(list) = h[Len(list)]
    BY <1>8 DEF SumOf
  <1>11. \A n \in 0..length : h[n] = IF n = 0 THEN 0 ELSE h[n - 1] + list[n]
    BY <1>1, <1>9
  <1>12. \A n \in 0..length : h[n] \in Nat
    <2> DEFINE G == {n \in Nat : h[n] \in Nat}
    <2>1. 0 \in G
      BY <1>2, <1>11
    <2>2. ASSUME NEW n \in 1..length, n - 1 \in G PROVE n \in G
      <3>1. h[n] = h[n - 1] + list[n]
        BY <1>2, <1>11
      <3> QED
        BY <1>2, <2>2, <3>1
    <2> HIDE DEF G
    <2>3. \A n \in 0..length : n \in G
      BY <1>2, <2>1, <2>2, BoundedInduction
    <2> QED
      BY <2>3 DEF G
  <1>13. h \in [0..length -> Nat]
    BY <1>1, <1>9, <1>12
  <1>14. IsSums(h, list)
    BY <1>1, <1>2, <1>11, <1>13 DEF IsSums
  <1> QED
    BY <1>10, <1>14

LEMMA SumIsNat ==
    ASSUME NEW list \in Seq(Nat)
    PROVE  SumOf(list) \in Nat
  <1>1. PICK sum : IsSums(sum, list) /\ SumOf(list) = sum[Len(list)]
    BY SumExists
  <1>2. Len(list) \in Nat
    OBVIOUS
  <1> QED
    BY <1>1, <1>2 DEF IsSums

LEMMA SumOfNone == SumOf(<<>>) = 0
  <1>1. <<>> \in Seq(Nat) /\ Len(<<>>) = 0
    OBVIOUS
  <1>2. PICK sum : IsSums(sum, <<>>) /\ SumOf(<<>>) = sum[0]
    BY <1>1, SumExists
  <1> QED
    BY <1>2 DEF IsSums

(* The first number added to the sum of the others. *)
LEMMA SumOfFirst ==
    ASSUME NEW x \in Nat, NEW list \in Seq(Nat), NEW longer \in Seq(Nat),
           Len(longer) = Len(list) + 1, longer[1] = x,
           \A n \in 1..Len(list) : longer[n + 1] = list[n]
    PROVE  SumOf(longer) = x + SumOf(list)
  <1>1. PICK s : IsSums(s, list) /\ SumOf(list) = s[Len(list)]
    BY SumExists
  <1>2. PICK t : IsSums(t, longer) /\ SumOf(longer) = t[Len(longer)]
    BY SumExists
  <1>3. PICK length : length = Len(list) /\ length \in Nat
    OBVIOUS
  <1> DEFINE G == {n \in Nat : n <= length => t[n + 1] = x + s[n]}
  <1>4. 0 \in G
    <2>1. t[1] = t[0] + longer[1]
      BY <1>2, <1>3 DEF IsSums
    <2> QED
      BY <2>1, <1>1, <1>2 DEF IsSums
  <1>5. ASSUME NEW n \in Nat, n \in G PROVE n + 1 \in G
    <2> SUFFICES ASSUME n + 1 <= length PROVE t[(n + 1) + 1] = x + s[n + 1]
      OBVIOUS
    <2>1. s[n + 1] = s[n] + list[n + 1]
      BY <1>1, <1>3 DEF IsSums
    <2>2. t[(n + 1) + 1] = t[n + 1] + longer[(n + 1) + 1]
      BY <1>2, <1>3 DEF IsSums
    <2>3. longer[(n + 1) + 1] = list[n + 1] /\ list[n + 1] \in Nat
      BY <1>3
    <2>4. t[n + 1] = x + s[n] /\ n \in 0..length
      BY <1>3, <1>5
    <2>5. s[n] \in Nat
      BY <1>1, <1>3, <2>4 DEF IsSums
    <2> QED
      BY <2>1, <2>2, <2>3, <2>4, <2>5
  <1> HIDE DEF G
  <1>6. length \in G
    BY <1>3, <1>4, <1>5, NumberInduction
  <1> QED
    BY <1>1, <1>2, <1>3, <1>6 DEF G

-----------------------------------------------------------------------------
(***************************************************************************)
(* Strings joined to one.                                                  *)
(***************************************************************************)

(* The first strings of a list, joined. *)
IsJoin(join, S, list) ==
    /\ join \in [0..Len(list) -> Seq(S)] /\ join[0] = <<>>
    /\ \A n \in 1..Len(list) : join[n] = join[n - 1] \o list[n]

LEMMA JoinExists ==
    ASSUME NEW S, NEW list \in Seq(Seq(S))
    PROVE  \E join : IsJoin(join, S, list) /\ FlattenSeq(list) = join[Len(list)]
  <1>1. PICK length : length = Len(list)
    OBVIOUS
  <1>2. length \in Nat /\ \A n \in 1..length : list[n] \in Seq(S)
    BY <1>1
  <1>3. PICK step : step = [n \in Nat |-> [s \in Seq(S) |->
                                IF n < length THEN s \o list[n + 1] ELSE s]]
    OBVIOUS
  <1>4. step \in [Nat -> [Seq(S) -> Seq(S)]]
    <2>1. \A n \in Nat, s \in Seq(S) : (IF n < length THEN s \o list[n + 1] ELSE s) \in Seq(S)
      BY <1>2
    <2> QED
      BY <1>3, <2>1
  <1>5. <<>> \in Seq(S)
    OBVIOUS
  <1>6. PICK g : IsRun(g, Seq(S), <<>>, step, length)
    BY <1>2, <1>4, <1>5, RunExists
  <1>7. \A n \in 1..length : g[n] = g[n - 1] \o list[n]
    <2> TAKE n \in 1..length
    <2>1. PICK k \in Nat : n = k + 1 /\ k < length
      BY <1>2
    <2>2. g[k + 1] = step[k][g[k]] /\ g[k] \in Seq(S)
      BY <1>2, <1>6, <2>1 DEF IsRun
    <2>3. step[k] = [s \in Seq(S) |-> IF k < length THEN s \o list[k + 1] ELSE s]
      BY <1>3
    <2>4. g[k + 1] = g[k] \o list[k + 1]
      BY <2>1, <2>2, <2>3
    <2>5. n - 1 = k
      BY <2>1
    <2> QED
      BY <2>1, <2>4, <2>5
  <1>8. CASE length = 0
    <2>1. Len(list) = 0 /\ list = <<>>
      BY <1>1, <1>8, EmptySeq
    <2>2. FlattenSeq(list) = list
      BY <2>1 DEF FlattenSeq
    <2>3. g \in [0..length -> Seq(S)] /\ g[0] = <<>>
      BY <1>6 DEF IsRun
    <2>4. IsJoin(g, S, list) /\ FlattenSeq(list) = g[Len(list)]
      BY <1>1, <1>7, <2>1, <2>2, <2>3 DEF IsJoin
    <2> QED
      BY <2>4
  <1>9. CASE length # 0
    <2>1. PICK f : f = [n \in 1..Len(list) |-> g[n]]
      OBVIOUS
    <2>2. f = [n \in 1..Len(list) |-> IF n = 1 THEN list[n] ELSE f[n - 1] \o list[n]]
      <3>1. g[0] = <<>> /\ \A n \in 1..length : f[n] = g[n]
        BY <1>1, <1>6, <2>1 DEF IsRun
      <3>2. \A n \in 1..length : f[n] = IF n = 1 THEN list[n] ELSE f[n - 1] \o list[n]
        <4> TAKE n \in 1..length
        <4>1. list[n] \in Seq(S) /\ g[n] = g[n - 1] \o list[n] /\ f[n] = g[n]
          BY <1>2, <1>7, <3>1
        <4>2. CASE n = 1
          <5>1. <<>> \o list[n] = list[n]
            BY <4>1
          <5>2. g[n - 1] = <<>>
            BY <3>1, <4>2
          <5> QED
            BY <4>1, <4>2, <5>1, <5>2
        <4>3. CASE n # 1
          <5>1. n - 1 \in 1..length
            BY <1>2, <4>3
          <5> QED
            BY <3>1, <4>1, <4>3, <5>1
        <4> QED
          BY <4>2, <4>3
      <3> QED
        BY <1>1, <2>1, <3>2
    <2>3. PICK h : h = CHOOSE f_ : f_ = [n \in 1..Len(list) |->
                              IF n = 1 THEN list[n] ELSE f_[n - 1] \o list[n]]
      OBVIOUS
    <2>4. h = [n \in 1..Len(list) |-> IF n = 1 THEN list[n] ELSE h[n - 1] \o list[n]]
      BY <2>2, <2>3
    <2>5. FlattenSeq(list) = h[Len(list)]
      BY <1>1, <1>9, <2>3 DEF FlattenSeq
    <2>6. PICK join : join = [n \in 0..length |-> IF n = 0 THEN <<>> ELSE h[n]]
      OBVIOUS
    <2>7. \A n \in 1..length : h[n] = IF n = 1 THEN list[n] ELSE h[n - 1] \o list[n]
      BY <1>1, <2>4
    <2>8. \A n \in 0..length : join[n] \in Seq(S)
      <3> DEFINE G == {n \in Nat : join[n] \in Seq(S)}
      <3>1. 0 \in G
        BY <1>2, <1>5, <2>6
      <3>2. ASSUME NEW n \in 1..length, n - 1 \in G PROVE n \in G
        <4>1. n \in Nat /\ n \in 0..length /\ n - 1 \in 0..length
          BY <1>2
        <4>2. join[n] = h[n]
          BY <2>6, <4>1
        <4>3. CASE n = 1
          BY <1>2, <2>7, <4>1, <4>2, <4>3
        <4>4. CASE n # 1
          <5>1. h[n - 1] = join[n - 1]
            BY <2>6, <4>1, <4>4
          <5>2. h[n - 1] \in Seq(S) /\ list[n] \in Seq(S)
            BY <1>2, <3>2, <5>1
          <5>3. h[n] = h[n - 1] \o list[n]
            BY <2>7, <4>4
          <5>4. h[n - 1] \o list[n] \in Seq(S)
            BY <5>2
          <5> QED
            BY <4>1, <4>2, <5>3, <5>4
        <4> QED
          BY <4>3, <4>4
      <3> HIDE DEF G
      <3>3. \A n \in 0..length : n \in G
        BY <1>2, <3>1, <3>2, BoundedInduction
      <3> QED
        BY <3>3 DEF G
    <2>9. \A n \in 1..length : join[n] = join[n - 1] \o list[n]
      <3> TAKE n \in 1..length
      <3>1. join[n] = h[n] /\ list[n] \in Seq(S)
        BY <1>2, <2>6
      <3>2. CASE n = 1
        <4>1. join[n - 1] = <<>> /\ <<>> \o list[n] = list[n]
          BY <1>2, <2>6, <3>1, <3>2
        <4> QED
          BY <2>7, <3>1, <3>2, <4>1
      <3>3. CASE n # 1
        <4>1. join[n - 1] = h[n - 1]
          BY <1>2, <2>6, <3>3
        <4> QED
          BY <2>7, <3>1, <3>3, <4>1
      <3> QED
        BY <3>2, <3>3
    <2>10. IsJoin(join, S, list) /\ FlattenSeq(list) = join[Len(list)]
      <3>1. join \in [0..length -> Seq(S)]
        BY <2>6, <2>8
      <3>2. join[0] = <<>> /\ join[length] = h[length]
        BY <1>2, <1>9, <2>6
      <3> QED
        BY <1>1, <2>5, <2>9, <3>1, <3>2 DEF IsJoin
    <2> QED
      BY <2>10
  <1> QED
    BY <1>8, <1>9

-----------------------------------------------------------------------------
(***************************************************************************)
(* Reading: whatever the bytes are, what was read lies in the string, and  *)
(* the reader is further on than before.                                   *)
(***************************************************************************)

Byte == 0..255
Word == 0..(TwoTo[WordBits] - 1)
Half == 0..(TwoTo[HalfBits] - 1)

(* What may be wrong with a string. *)
Errors == {"overflow", "eof", "length", "wiretype", "group", "tag"}

(* A result: an error, or a value and an offset behind `pos` in a string of *)
(* `length` bytes.                                                          *)
Forward(r, pos, length) ==
    /\ r.ok \in BOOLEAN
    /\ ~ r.ok => r.error \in Errors
    /\ r.ok => r.next \in Nat /\ pos < r.next /\ r.next <= length

LEMMA WordFacts ==
    /\ WordBits \in Nat /\ WordBits - 1 \in Nat /\ HalfBits \in Nat /\ HalfBits - 1 \in Nat
    /\ TwoTo[WordBits] \in Nat /\ TwoTo[WordBits] > 0
    /\ TwoTo[WordBits] = 2 * TwoTo[WordBits - 1]
    /\ TwoTo[HalfBits] \in Nat /\ TwoTo[HalfBits] > 0
    /\ TwoTo[HalfBits] = 2 * TwoTo[HalfBits - 1]
    /\ TwoTo[WordBits - 1] \in Nat /\ TwoTo[HalfBits - 1] \in Nat
  <1>1. WordBits \in Nat /\ WordBits - 1 \in Nat /\ HalfBits \in Nat /\ HalfBits - 1 \in Nat
    BY WidthAssumption
  <1>2. (WordBits - 1) + 1 = WordBits /\ (HalfBits - 1) + 1 = HalfBits
    BY <1>1
  <1>3. /\ TwoTo[(WordBits - 1) + 1] = 2 * TwoTo[WordBits - 1]
        /\ TwoTo[(HalfBits - 1) + 1] = 2 * TwoTo[HalfBits - 1]
    BY <1>1, TwoToEquation
  <1> QED
    BY <1>1, <1>2, <1>3, TwoToPositive

(* A remainder is below its divisor. *)
LEMMA Remainder ==
    ASSUME NEW v \in Int, NEW w \in Nat, w > 0
    PROVE  v % w \in Nat /\ v % w < w
  OBVIOUS

LEMMA SignedIsInt ==
    ASSUME NEW v \in Int, NEW bits \in Nat
    PROVE  Signed(v, bits) \in Int
  <1>1. PICK w : w = TwoTo[bits]
    OBVIOUS
  <1>2. w \in Nat /\ w > 0
    BY <1>1, TwoToPositive
  <1>3. v % w \in Nat
    BY <1>2, Remainder
  <1>4. (v % w) - w \in Int /\ v % w \in Int
    BY <1>2, <1>3
  <1> QED
    BY <1>1, <1>4 DEF Signed

LEMMA ReadVarintForward ==
    ASSUME NEW s \in Seq(Byte), NEW pos \in Nat, NEW r, r = ReadVarint(s, pos)
    PROVE  Forward(r, pos, Len(s)) /\ (r.ok => r.value \in Word)
  <1>1. PICK ends : ends = {k \in 0..(MaxVarint - 1) : pos + k < Len(s) /\ s[pos + k + 1] < 128}
    OBVIOUS
  <1>2. CASE ends = {}
    <2>1. r.ok = FALSE /\ r.error \in Errors
      BY <1>1, <1>2 DEF ReadVarint, Fail, Errors
    <2> QED
      BY <2>1 DEF Forward
  <1>3. CASE ends # {}
    <2>1. PICK last : last = Min(ends)
      OBVIOUS
    <2>2. last \in Nat /\ pos + last < Len(s)
      <3>1. ends \subseteq Nat
        BY <1>1
      <3>2. last \in ends
        BY <1>3, <2>1, <3>1, MinFacts
      <3> QED
        BY <1>1, <3>1, <3>2
    <2>3. PICK shifted : shifted = [j \in 1..(last + 1) |-> (s[pos + j] % 128) * TwoTo[7 * (j - 1)]]
      OBVIOUS
    <2>4. r = Read(SumOf(shifted) % TwoTo[WordBits], pos + last + 1)
      BY <1>1, <1>3, <2>1, <2>3 DEF ReadVarint, VarintUpTo
    <2>5. shifted \in Seq(Nat)
      <3>1. ASSUME NEW j \in 1..(last + 1) PROVE (s[pos + j] % 128) * TwoTo[7 * (j - 1)] \in Nat
        <4>1. s[pos + j] \in 0..255
          <5>1. pos + j \in 1..Len(s)
            BY <2>2
          <5>2. s[pos + j] \in Byte
            BY <5>1
          <5> QED
            BY <5>2 DEF Byte
        <4>2. 7 * (j - 1) \in Nat
          BY <2>2
        <4>3. PICK w : w = TwoTo[7 * (j - 1)]
          OBVIOUS
        <4>4. w \in Nat
          BY <4>2, <4>3, TwoToPositive
        <4>5. s[pos + j] % 128 \in Nat
          <5>1. \A b \in 0..255 : b % 128 \in Nat
            OBVIOUS
          <5> QED
            BY <4>1, <5>1
        <4>6. (s[pos + j] % 128) * w \in Nat
          BY <4>4, <4>5
        <4> QED
          BY <4>3, <4>6
      <3> QED
        BY <2>2, <2>3, <3>1
    <2>6. SumOf(shifted) \in Nat
      BY <2>5, SumIsNat
    <2>7. SumOf(shifted) % TwoTo[WordBits] \in Word
      <3>1. PICK sum, w : sum = SumOf(shifted) /\ w = TwoTo[WordBits]
        OBVIOUS
      <3>2. sum \in Int /\ w \in Nat /\ w > 0
        BY <2>6, <3>1, WordFacts
      <3>3. sum % w \in Nat /\ sum % w < w
        BY <3>2, Remainder
      <3> QED
        BY <3>1, <3>2, <3>3 DEF Word
    <2>8. r.ok = TRUE /\ r.next = pos + last + 1 /\ r.value = SumOf(shifted) % TwoTo[WordBits]
      BY <2>4 DEF Read
    <2>9. r.next \in Nat /\ pos < r.next /\ r.next <= Len(s)
      BY <2>2, <2>8
    <2> QED
      BY <2>7, <2>8, <2>9 DEF Forward
  <1> QED
    BY <1>2, <1>3

LEMMA AdvanceFacts ==
    ASSUME NEW pos \in Nat, NEW n \in Int, NEW r, r = Advance(pos, n)
    PROVE  /\ r.ok \in BOOLEAN
           /\ ~ r.ok => r.error \in Errors
           /\ r.ok => n \in Nat /\ r.value = n /\ r.next = pos + n
  BY DEF Advance, Fail, Read, Errors

(* A part of a sequence. *)
LEMMA SliceFacts ==
    ASSUME NEW S, NEW s \in Seq(S), NEW m \in Nat \ {0}, NEW n \in Nat, n <= Len(s), m <= n + 1
    PROVE  /\ SubSeq(s, m, n) \in Seq(S) /\ Len(SubSeq(s, m, n)) = n - m + 1
           /\ \A i \in 1..(n - m + 1) : SubSeq(s, m, n)[i] = s[m + i - 1]
  <1>1. \A i \in m..n : s[i] \in S
    OBVIOUS
  <1>2. m \in Int /\ n \in Int /\ (IF m <= n THEN n - m + 1 ELSE 0) = n - m + 1
    OBVIOUS
  <1> QED
    BY <1>1, <1>2, SubSeqProperties

(* A length and its content. *)
LEMMA ReadLengthForward ==
    ASSUME NEW s \in Seq(Byte), NEW pos \in Nat, NEW r, r = ReadLength(s, pos)
    PROVE  /\ Forward(r, pos, Len(s))
           /\ r.ok => /\ r.value \in Seq(Byte)
                      /\ Len(r.value) < r.next - pos
                      /\ r.value = SubSeq(s, r.next - Len(r.value) + 1, r.next)
  <1>1. PICK length : length = ReadVarint(s, pos)
    OBVIOUS
  <1>2. Forward(length, pos, Len(s)) /\ (length.ok => length.value \in Word)
    BY <1>1, ReadVarintForward
  <1>3. CASE ~ length.ok
    <2>1. r = length
      BY <1>1, <1>3 DEF ReadLength, Then
    <2> QED
      BY <1>2, <1>3, <2>1 DEF Forward
  <1>4. CASE length.ok
    <2>1. PICK n, behind : n = Signed(length.value, WordBits) /\ behind = Advance(length.next, n)
      OBVIOUS
    <2>2. length.next \in Nat /\ pos < length.next /\ length.next <= Len(s) /\ n \in Int
      <3>1. length.value \in Int /\ WordBits \in Nat
        BY <1>2, <1>4, WordFacts DEF Word
      <3> QED
        BY <1>2, <1>4, <2>1, <3>1, SignedIsInt DEF Forward
    <2>3. /\ behind.ok \in BOOLEAN /\ (~ behind.ok => behind.error \in Errors)
          /\ behind.ok => n \in Nat /\ behind.next = length.next + n
      BY <2>1, <2>2, AdvanceFacts
    <2>4. r = IF behind.ok
              THEN IF behind.next > Len(s) THEN Fail("eof")
                   ELSE Read(SubSeq(s, length.next + 1, behind.next), behind.next)
              ELSE behind
      BY <1>1, <1>4, <2>1 DEF ReadLength, Then
    <2>5. CASE ~ behind.ok
      BY <2>3, <2>4, <2>5 DEF Forward
    <2>6. CASE behind.ok /\ behind.next > Len(s)
      <3>1. r.ok = FALSE /\ r.error \in Errors
        BY <2>4, <2>6 DEF Fail, Errors
      <3> QED
        BY <3>1 DEF Forward
    <2>7. CASE behind.ok /\ ~ (behind.next > Len(s))
      <3>1. PICK m, k : m = length.next + 1 /\ k = behind.next
        OBVIOUS
      <3>2. PICK content : content = SubSeq(s, m, k)
        OBVIOUS
      <3>3. r = Read(content, k)
        BY <2>4, <2>7, <3>1, <3>2
      <3>4. r.ok = TRUE /\ r.next = k /\ r.value = content
        BY <3>3 DEF Read
      <3>5. k = length.next + n /\ n \in Nat /\ ~ (k > Len(s))
        BY <2>3, <2>7, <3>1
      <3>6. /\ m \in Nat \ {0} /\ k \in Nat /\ m <= k + 1 /\ k - m + 1 = n /\ k - n + 1 = m
            /\ k <= Len(s) /\ n < k - pos /\ pos < k
        <4>1. PICK p, all : p = length.next /\ all = Len(s)
          OBVIOUS
        <4>2. p \in Nat /\ all \in Nat /\ pos < p /\ m = p + 1 /\ k = p + n /\ n \in Nat /\ ~ (k > all)
          BY <2>2, <3>1, <3>5, <4>1
        <4>3. /\ m \in Nat \ {0} /\ k \in Nat /\ m <= k + 1 /\ k - m + 1 = n /\ k - n + 1 = m
              /\ k <= all /\ n < k - pos /\ pos < k
          BY <4>2
        <4> QED
          BY <4>1, <4>3
      <3>7. SubSeq(s, m, k) \in Seq(Byte) /\ Len(SubSeq(s, m, k)) = k - m + 1
        BY <3>6, SliceFacts
      <3>8. content \in Seq(Byte) /\ Len(content) = n
        BY <3>2, <3>6, <3>7
      <3>9. Forward(r, pos, Len(s))
        BY <3>4, <3>6 DEF Forward
      <3> QED
        BY <3>2, <3>4, <3>6, <3>8, <3>9
    <2> QED
      BY <2>5, <2>6, <2>7
  <1> QED
    BY <1>3, <1>4

(* Where skip is behind a value: not in front of where it was. *)
Behind(r, pos) ==
    /\ r.ok \in BOOLEAN
    /\ ~ r.ok => r.error \in Errors
    /\ r.ok => r.next \in Nat /\ pos <= r.next

LEMMA SkipValueFacts ==
    ASSUME NEW s \in Seq(Byte), NEW type, NEW pos \in Nat, NEW r, r = SkipValue(s, type, pos)
    PROVE  Behind(r, pos)
  <1>1. CASE type = 0
    <2>1. r = ReadVarint(s, pos)
      BY <1>1 DEF SkipValue
    <2>2. Forward(r, pos, Len(s))
      BY <2>1, ReadVarintForward
    <2>3. r.ok => pos < r.next /\ r.next \in Nat
      BY <2>2 DEF Forward
    <2> QED
      BY <2>2, <2>3 DEF Forward, Behind
  <1>2. ASSUME NEW n \in Int, r = Advance(pos, n)
        PROVE  Behind(r, pos)
    <2>1. r.ok \in BOOLEAN /\ (~ r.ok => r.error \in Errors) /\ (r.ok => n \in Nat /\ r.next = pos + n)
      BY <1>2, AdvanceFacts
    <2>2. n \in Nat => pos + n \in Nat /\ pos <= pos + n
      OBVIOUS
    <2> QED
      BY <2>1, <2>2 DEF Behind
  <1>3. CASE type = 1
    <2>1. r = Advance(pos, 8)
      BY <1>3 DEF SkipValue
    <2> QED
      BY <1>2, <2>1
  <1>4. CASE type = 5
    <2>1. r = Advance(pos, 4)
      BY <1>4 DEF SkipValue
    <2> QED
      BY <1>2, <2>1
  <1>5. CASE type = 2
    <2>1. PICK length : length = ReadVarint(s, pos)
      OBVIOUS
    <2>2. Forward(length, pos, Len(s)) /\ (length.ok => length.value \in Word)
      BY <2>1, ReadVarintForward
    <2>3. PICK next, n : next = length.next /\ n = Signed(length.value, WordBits)
      OBVIOUS
    <2>4. r = IF length.ok THEN Advance(next, n) ELSE length
      BY <1>5, <2>1, <2>3 DEF SkipValue, Then
    <2>5. CASE ~ length.ok
      BY <2>2, <2>4, <2>5 DEF Forward, Behind
    <2>6. CASE length.ok
      <3>1. next \in Nat /\ pos < next /\ length.value \in Word
        BY <2>2, <2>3, <2>6 DEF Forward
      <3>2. length.value \in Int /\ WordBits \in Nat
        BY <3>1, WordFacts DEF Word
      <3>3. n \in Int
        BY <2>3, <3>2, SignedIsInt
      <3>4. /\ r.ok \in BOOLEAN /\ (~ r.ok => r.error \in Errors)
            /\ r.ok => n \in Nat /\ r.next = next + n
        BY <2>4, <2>6, <3>1, <3>3, AdvanceFacts
      <3>5. n \in Nat => next + n \in Nat /\ pos <= next + n
        BY <3>1
      <3> QED
        BY <3>4, <3>5 DEF Behind
    <2> QED
      BY <2>2, <2>5, <2>6 DEF Forward
  <1>6. CASE type \in 3..4
    <2>1. r = Read(0, pos)
      BY <1>6 DEF SkipValue
    <2> QED
      BY <2>1 DEF Read, Behind
  <1>7. CASE type \notin 0..5
    <2>1. r = Fail("wiretype")
      BY <1>7 DEF SkipValue
    <2> QED
      BY <2>1 DEF Fail, Errors, Behind
  <1> QED
    BY <1>1, <1>3, <1>4, <1>5, <1>6, <1>7

(* What skip knows between two tags: the depth, and an offset behind `pos`. *)
Skipping(r, pos) ==
    /\ r.ok \in BOOLEAN
    /\ ~ r.ok => r.error \in Errors
    /\ r.ok => r.value \in Nat /\ r.next \in Nat /\ pos < r.next

LEMMA SkipTagFacts ==
    ASSUME NEW s \in Seq(Byte), NEW pos \in Nat, NEW depth \in Nat, NEW r, r = SkipTag(s, pos, depth)
    PROVE  Skipping(r, pos)
  <1>1. PICK tag : tag = ReadVarint(s, pos)
    OBVIOUS
  <1>2. Forward(tag, pos, Len(s)) /\ (tag.ok => tag.value \in Word)
    BY <1>1, ReadVarintForward
  <1>3. PICK type, next : type = tag.value % 8 /\ next = tag.next
    OBVIOUS
  <1>4. PICK past : past = SkipValue(s, type, next)
    OBVIOUS
  <1>5. r = IF pos >= Len(s) THEN Fail("eof")
            ELSE IF tag.ok
                 THEN IF type = 4 /\ depth = 0 THEN Fail("group")
                      ELSE IF past.ok THEN Read(DepthAfter(depth, type), past.next) ELSE past
                 ELSE tag
    BY <1>1, <1>3, <1>4 DEF SkipTag, Then
  <1>6. CASE pos >= Len(s) \/ (tag.ok /\ type = 4 /\ depth = 0)
    <2>1. r.ok = FALSE /\ r.error \in Errors
      BY <1>5, <1>6 DEF Fail, Errors
    <2> QED
      BY <2>1 DEF Skipping
  <1>7. CASE ~ (pos >= Len(s)) /\ ~ tag.ok
    <2>1. r = tag
      BY <1>5, <1>7
    <2> QED
      BY <1>2, <1>7, <2>1 DEF Skipping, Forward
  <1>8. CASE ~ (pos >= Len(s)) /\ tag.ok /\ ~ (type = 4 /\ depth = 0)
    <2>1. next \in Nat /\ pos < next
      BY <1>2, <1>3, <1>8 DEF Forward
    <2>2. Behind(past, next)
      BY <1>4, <2>1, SkipValueFacts
    <2>3. CASE ~ past.ok
      <3>1. r = past
        BY <1>5, <1>8, <2>3
      <3> QED
        BY <2>2, <2>3, <3>1 DEF Skipping, Behind
    <2>4. CASE past.ok
      <3>1. PICK behind : behind = past.next
        OBVIOUS
      <3>2. r = Read(DepthAfter(depth, type), behind)
        BY <1>5, <1>8, <2>4, <3>1
      <3>3. behind \in Nat /\ pos < behind
        BY <2>1, <2>2, <2>4, <3>1 DEF Behind
      <3>4. DepthAfter(depth, type) \in Nat
        BY <1>8 DEF DepthAfter
      <3>5. r.ok = TRUE /\ r.value = DepthAfter(depth, type) /\ r.next = behind
        BY <3>2 DEF Read
      <3> QED
        BY <3>3, <3>4, <3>5 DEF Skipping
    <2> QED
      BY <2>2, <2>3, <2>4
  <1> QED
    BY <1>2, <1>6, <1>7, <1>8 DEF Forward

(* One turn of skip after another. *)
SkipTurn(s, r) ==
    IF r.ok THEN IF r.value = 0 THEN r ELSE SkipTag(s, r.next, r.value) ELSE r

IsSkip(f, s, n) == \A k \in 0..n : f[k] = IF k = 0 THEN SkipTag(s, 0, 0) ELSE SkipTurn(s, f[k - 1])

LEMMA SkipExists ==
    ASSUME NEW s
    PROVE  \A n \in Nat : \E f : f = [k \in 0..n |-> f[k]] /\ IsSkip(f, s, n)
  <1> DEFINE G == {n \in Nat : \E f : f = [k \in 0..n |-> f[k]] /\ IsSkip(f, s, n)}
  <1>1. 0 \in G
    <2>1. PICK f : f = [k \in 0..0 |-> SkipTag(s, 0, 0)]
      OBVIOUS
    <2>2. f = [k \in 0..0 |-> f[k]] /\ IsSkip(f, s, 0)
      BY <2>1 DEF IsSkip
    <2> QED
      BY <2>2
  <1>2. ASSUME NEW n \in Nat, n \in G PROVE n + 1 \in G
    <2>1. PICK f : IsSkip(f, s, n)
      BY <1>2
    <2>2. PICK g : g = [k \in 0..(n + 1) |-> IF k = 0 THEN SkipTag(s, 0, 0) ELSE SkipTurn(s, f[k - 1])]
      OBVIOUS
    <2>3. \A k \in 0..n : g[k] = f[k]
      BY <2>1, <2>2 DEF IsSkip
    <2>4. \A k \in 0..(n + 1) : g[k] = IF k = 0 THEN SkipTag(s, 0, 0) ELSE SkipTurn(s, g[k - 1])
      <3> TAKE k \in 0..(n + 1)
      <3>1. k # 0 => k - 1 \in 0..n
        OBVIOUS
      <3> QED
        BY <2>2, <2>3, <3>1
    <2>5. g = [k \in 0..(n + 1) |-> g[k]] /\ IsSkip(g, s, n + 1)
      BY <2>2, <2>4 DEF IsSkip
    <2> QED
      BY <2>5
  <1> HIDE DEF G
  <1>3. \A n \in Nat : n \in G
    BY <1>1, <1>2, NumberInduction
  <1> QED
    BY <1>3 DEF G

(* The turns that skip makes, up to one that ends it. *)
LEMMA SkipIsLast ==
    ASSUME NEW s \in Seq(Byte)
    PROVE  \E h : /\ IsSkip(h, s, Len(s))
                 /\ Skip(s) = h[CHOOSE n \in 0..Len(s) : h[n].ok => h[n].value = 0]
  <1>1. PICK length : length = Len(s) /\ length \in Nat
    OBVIOUS
  <1>2. PICK f : f = [k \in 0..length |-> f[k]] /\ IsSkip(f, s, length)
    BY <1>1, SkipExists
  <1>3. \A k \in 0..length : f[k] = IF k = 0 THEN SkipTag(s, 0, 0) ELSE SkipTurn(s, f[k - 1])
    BY <1>2 DEF IsSkip
  <1>4. f = [k \in 0..length |-> IF k = 0 THEN SkipTag(s, 0, 0) ELSE SkipTurn(s, f[k - 1])]
    BY <1>2, <1>3
  <1>5. PICK h : h = CHOOSE f_ : f_ = [k \in 0..Len(s) |->
                        IF k = 0 THEN SkipTag(s, 0, 0) ELSE SkipTurn(s, f_[k - 1])]
    OBVIOUS
  <1>6. h = [k \in 0..length |-> IF k = 0 THEN SkipTag(s, 0, 0) ELSE SkipTurn(s, h[k - 1])]
    BY <1>1, <1>4, <1>5
  <1>7. Skip(s) = h[CHOOSE n \in 0..Len(s) : h[n].ok => h[n].value = 0]
    BY <1>5 DEF Skip, Then, SkipTurn
  <1>8. IsSkip(h, s, length)
    BY <1>6 DEF IsSkip
  <1> QED
    BY <1>1, <1>7, <1>8

(* Skip ends: an entry has a byte or more, and a group that is still open  *)
(* after n tags has n bytes behind it and one to come.                      *)
Nested(r, n, length) == Skipping(r, 0) /\ (r.ok /\ r.value # 0 => n < r.next /\ n < length)

LEMMA SkipTagNested ==
    ASSUME NEW s \in Seq(Byte), NEW pos \in Nat, NEW depth \in Nat, NEW n \in Nat, n <= pos,
           NEW r, r = SkipTag(s, pos, depth)
    PROVE  Nested(r, n, Len(s))
  <1>1. Skipping(r, pos)
    BY SkipTagFacts
  <1>2. pos >= Len(s) => r.ok = FALSE
    BY DEF SkipTag, Fail
  <1>3. PICK next, length : next = r.next /\ length = Len(s) /\ length \in Nat
    OBVIOUS
  <1>4. r.ok => pos < length /\ next \in Nat /\ pos < next
    BY <1>1, <1>2, <1>3 DEF Skipping
  <1>5. r.ok => n < length /\ n < next /\ 0 < next
    BY <1>3, <1>4
  <1> QED
    BY <1>1, <1>3, <1>4, <1>5 DEF Skipping, Nested

LEMMA SkipForward ==
    ASSUME NEW s \in Seq(Byte), NEW r, r = Skip(s)
    PROVE  Skipping(r, 0)
  <1>1. PICK length : length = Len(s) /\ length \in Nat
    OBVIOUS
  <1>2. PICK h : /\ IsSkip(h, s, length)
                 /\ r = h[CHOOSE n \in 0..length : h[n].ok => h[n].value = 0]
    BY <1>1, SkipIsLast
  <1> DEFINE G == {n \in Nat : n <= length => Nested(h[n], n, length)}
  <1>3. 0 \in G
    <2>1. h[0] = SkipTag(s, 0, 0)
      BY <1>1, <1>2 DEF IsSkip
    <2>2. Nested(h[0], 0, length)
      BY <1>1, <2>1, SkipTagNested
    <2> QED
      BY <2>2
  <1>4. ASSUME NEW n \in 1..length, n - 1 \in G PROVE n \in G
    <2>1. PICK before, now : before = h[n - 1] /\ now = h[n]
      OBVIOUS
    <2>2. now = SkipTurn(s, before) /\ Nested(before, n - 1, length)
      BY <1>1, <1>2, <1>4, <2>1 DEF IsSkip
    <2>3. Nested(now, n, length)
      <3>1. PICK next, depth : next = before.next /\ depth = before.value
        OBVIOUS
      <3>2. CASE before.ok /\ depth # 0
        <4>1. now = SkipTag(s, next, depth)
          BY <2>2, <3>1, <3>2 DEF SkipTurn
        <4>2. next \in Nat /\ depth \in Nat /\ n - 1 < next
          BY <2>2, <3>1, <3>2 DEF Nested, Skipping
        <4>3. n \in Nat /\ n <= next
          BY <4>2
        <4> QED
          BY <1>1, <4>1, <4>2, <4>3, SkipTagNested
      <3>3. CASE ~ (before.ok /\ depth # 0)
        <4>1. now = before
          BY <2>2, <3>1, <3>3 DEF SkipTurn
        <4> QED
          BY <2>2, <3>1, <3>3, <4>1 DEF Nested
      <3> QED
        BY <3>2, <3>3
    <2> QED
      BY <2>1, <2>3
  <1> HIDE DEF G
  <1>5. \A n \in 0..length : n \in G
    BY <1>1, <1>3, <1>4, BoundedInduction
  <1>6. \A n \in 0..length : Nested(h[n], n, length)
    BY <1>5 DEF G
  <1>7. length \in 0..length /\ (h[length].ok => h[length].value = 0)
    <2>1. length \in 0..length /\ ~ (length < length)
      BY <1>1
    <2> QED
      BY <1>6, <2>1 DEF Nested
  <1>8. PICK n \in 0..length : r = h[n]
    BY <1>2, <1>7
  <1> QED
    BY <1>6, <1>8 DEF Nested

LEMMA SkipUnknownForward ==
    ASSUME NEW s \in Seq(Byte), NEW pos \in Nat, pos < Len(s), NEW r, r = SkipUnknown(s, pos)
    PROVE  Forward(r, pos, Len(s))
  <1>1. PICK rest : rest = SubSeq(s, pos + 1, Len(s))
    OBVIOUS
  <1>2. rest \in Seq(Byte)
    BY <1>1, SliceFacts
  <1>3. PICK skippy : skippy = Skip(rest)
    OBVIOUS
  <1>4. Skipping(skippy, 0)
    BY <1>2, <1>3, SkipForward
  <1>5. PICK n, behind : n = skippy.next /\ behind = Advance(pos, n)
    OBVIOUS
  <1>6. r = IF skippy.ok
            THEN IF behind.ok THEN IF behind.next > Len(s) THEN Fail("eof") ELSE behind
                 ELSE behind
            ELSE skippy
    BY <1>1, <1>3, <1>5 DEF SkipUnknown, Then
  <1>7. CASE ~ skippy.ok
    <2>1. r = skippy
      BY <1>6, <1>7
    <2> QED
      BY <1>4, <1>7, <2>1 DEF Skipping, Forward
  <1>8. CASE skippy.ok
    <2>1. n \in Nat /\ 0 < n
      BY <1>4, <1>5, <1>8 DEF Skipping
    <2>2. /\ behind.ok \in BOOLEAN /\ (~ behind.ok => behind.error \in Errors)
          /\ behind.ok => behind.next = pos + n
      BY <1>5, <2>1, AdvanceFacts
    <2>3. CASE ~ behind.ok
      <3>1. r = behind
        BY <1>6, <1>8, <2>3
      <3> QED
        BY <2>2, <2>3, <3>1 DEF Forward
    <2>4. CASE behind.ok
      <3>1. PICK next, all : next = behind.next /\ all = Len(s)
        OBVIOUS
      <3>2. next = pos + n /\ next \in Nat /\ pos < next /\ all \in Nat
        BY <2>1, <2>2, <2>4, <3>1
      <3>3. CASE next > all
        <4>1. r.ok = FALSE /\ r.error \in Errors
          BY <1>6, <1>8, <2>4, <3>1, <3>3 DEF Fail, Errors
        <4> QED
          BY <4>1 DEF Forward
      <3>4. CASE ~ (next > all)
        <4>1. r = behind /\ next <= all
          BY <1>6, <1>8, <2>4, <3>1, <3>2, <3>4
        <4> QED
          BY <2>4, <3>1, <3>2, <4>1 DEF Forward
      <3> QED
        BY <3>3, <3>4
    <2> QED
      BY <2>2, <2>3, <2>4
  <1> QED
    BY <1>4, <1>7, <1>8 DEF Skipping

(* One turn of the loop over the varints of a packed field. *)
PackedTurn(s, post, r) ==
    IF r.ok
    THEN IF r.next >= post THEN r
         ELSE IF ReadVarint(s, r.next).ok
              THEN Read(Append(r.value, ReadVarint(s, r.next).value), ReadVarint(s, r.next).next)
              ELSE ReadVarint(s, r.next)
    ELSE r

IsPacked(f, s, first, post, n) ==
    \A k \in 0..n : f[k] = IF k = 0 THEN first ELSE PackedTurn(s, post, f[k - 1])

LEMMA PackedExists ==
    ASSUME NEW s, NEW first, NEW post
    PROVE  \A n \in Nat : \E f : f = [k \in 0..n |-> f[k]] /\ IsPacked(f, s, first, post, n)
  <1> DEFINE G == {n \in Nat : \E f : f = [k \in 0..n |-> f[k]] /\ IsPacked(f, s, first, post, n)}
  <1>1. 0 \in G
    <2>1. PICK f : f = [k \in 0..0 |-> first]
      OBVIOUS
    <2>2. f = [k \in 0..0 |-> f[k]] /\ IsPacked(f, s, first, post, 0)
      BY <2>1 DEF IsPacked
    <2> QED
      BY <2>2
  <1>2. ASSUME NEW n \in Nat, n \in G PROVE n + 1 \in G
    <2>1. PICK f : IsPacked(f, s, first, post, n)
      BY <1>2
    <2>2. PICK g : g = [k \in 0..(n + 1) |-> IF k = 0 THEN first ELSE PackedTurn(s, post, f[k - 1])]
      OBVIOUS
    <2>3. \A k \in 0..n : g[k] = f[k]
      BY <2>1, <2>2 DEF IsPacked
    <2>4. \A k \in 0..(n + 1) : g[k] = IF k = 0 THEN first ELSE PackedTurn(s, post, g[k - 1])
      <3> TAKE k \in 0..(n + 1)
      <3>1. k # 0 => k - 1 \in 0..n
        OBVIOUS
      <3> QED
        BY <2>2, <2>3, <3>1
    <2>5. g = [k \in 0..(n + 1) |-> g[k]] /\ IsPacked(g, s, first, post, n + 1)
      BY <2>2, <2>4 DEF IsPacked
    <2> QED
      BY <2>5
  <1> HIDE DEF G
  <1>3. \A n \in Nat : n \in G
    BY <1>1, <1>2, NumberInduction
  <1> QED
    BY <1>3 DEF G

(* The turns of the loop. *)
LEMMA PackedIsLast ==
    ASSUME NEW s, NEW pos, NEW post, NEW list, post - pos \in Nat
    PROVE  \E h : /\ IsPacked(h, s, Read(list, pos), post, post - pos)
                  /\ ReadPacked(s, pos, post, list) = h[post - pos]
  <1>1. PICK length, first : length = post - pos /\ length \in Nat /\ first = Read(list, pos)
    OBVIOUS
  <1>2. PICK f : f = [k \in 0..length |-> f[k]] /\ IsPacked(f, s, first, post, length)
    BY <1>1, PackedExists
  <1>3. \A k \in 0..length : f[k] = IF k = 0 THEN first ELSE PackedTurn(s, post, f[k - 1])
    BY <1>2 DEF IsPacked
  <1>4. f = [k \in 0..length |-> IF k = 0 THEN first ELSE PackedTurn(s, post, f[k - 1])]
    BY <1>2, <1>3
  <1>5. PICK h : h = CHOOSE f_ : f_ = [k \in 0..(post - pos) |->
                        IF k = 0 THEN Read(list, pos) ELSE PackedTurn(s, post, f_[k - 1])]
    OBVIOUS
  <1>6. h = [k \in 0..length |-> IF k = 0 THEN first ELSE PackedTurn(s, post, h[k - 1])]
    BY <1>1, <1>4, <1>5
  <1>7. ReadPacked(s, pos, post, list) = h[post - pos]
    BY <1>5 DEF ReadPacked, Then, PackedTurn
  <1>8. IsPacked(h, s, first, post, length)
    BY <1>6 DEF IsPacked
  <1> QED
    BY <1>1, <1>7, <1>8

(* What that loop knows: an offset in the string, at or behind `goal`. *)
Reading(r, goal, length) ==
    /\ r.ok \in BOOLEAN
    /\ ~ r.ok => r.error \in Errors
    /\ r.ok => r.next \in Nat /\ goal <= r.next /\ r.next <= length

LEMMA PackedTurnFacts ==
    ASSUME NEW s \in Seq(Byte), NEW post \in Nat, NEW goal \in Nat, NEW r, Reading(r, goal, Len(s)),
           NEW t, t = PackedTurn(s, post, r)
    PROVE  Reading(t, IF goal >= post THEN goal ELSE goal + 1, Len(s)) \/ Reading(t, post, Len(s))
  <1>1. PICK next, v, length : next = r.next /\ v = ReadVarint(s, next) /\ length = Len(s)
    OBVIOUS
  <1>2. t = IF r.ok
            THEN IF next >= post THEN r
                 ELSE IF v.ok THEN Read(Append(r.value, v.value), v.next) ELSE v
            ELSE r
    BY <1>1 DEF PackedTurn
  <1>3. length \in Nat
    BY <1>1
  <1>4. CASE ~ r.ok
    <2>1. t = r
      BY <1>2, <1>4
    <2> QED
      BY <1>4, <2>1 DEF Reading
  <1>5. CASE r.ok /\ next >= post
    <2>1. t = r
      BY <1>2, <1>5
    <2>2. next \in Nat /\ next <= length
      BY <1>1, <1>5 DEF Reading
    <2>3. post <= next
      BY <1>5, <2>2
    <2> QED
      BY <1>1, <1>5, <2>1, <2>2, <2>3 DEF Reading
  <1>6. CASE r.ok /\ ~ (next >= post)
    <2>1. next \in Nat /\ goal <= next /\ next <= length
      BY <1>1, <1>6 DEF Reading
    <2>2. Forward(v, next, length)
      BY <1>1, <2>1, ReadVarintForward
    <2>3. CASE ~ v.ok
      <3>1. t = v
        BY <1>2, <1>6, <2>3
      <3> QED
        BY <2>2, <2>3, <3>1 DEF Reading, Forward
    <2>4. CASE v.ok
      <3>1. PICK value, behind : value = Append(r.value, v.value) /\ behind = v.next
        OBVIOUS
      <3>2. t = Read(value, behind)
        BY <1>2, <1>6, <2>4, <3>1
      <3>3. t.ok = TRUE /\ t.next = behind
        BY <3>2 DEF Read
      <3>4. behind \in Nat /\ next < behind /\ behind <= length
        BY <2>2, <2>4, <3>1 DEF Forward
      <3>5. (IF goal >= post THEN goal ELSE goal + 1) <= behind
        BY <2>1, <3>4
      <3> QED
        BY <1>1, <3>3, <3>4, <3>5 DEF Reading
    <2> QED
      BY <2>2, <2>3, <2>4 DEF Forward
  <1> QED
    BY <1>4, <1>5, <1>6 DEF Reading

(* The varints of a packed field end at `post` or behind it, and in the string. *)
LEMMA ReadPackedForward ==
    ASSUME NEW s \in Seq(Byte), NEW pos \in Nat, NEW post \in Nat, pos <= post, post <= Len(s),
           NEW list, NEW r, r = ReadPacked(s, pos, post, list)
    PROVE  Reading(r, post, Len(s))
  <1>1. PICK length, first : length = post - pos /\ length \in Nat /\ first = Read(list, pos)
    OBVIOUS
  <1>2. PICK h : IsPacked(h, s, first, post, length) /\ r = h[length]
    BY <1>1, PackedIsLast
  <1> DEFINE G == {n \in Nat : n <= length => Reading(h[n], pos + n, Len(s)) \/ Reading(h[n], post, Len(s))}
  <1>3. 0 \in G
    <2>1. h[0] = first
      BY <1>1, <1>2 DEF IsPacked
    <2>2. h[0].ok = TRUE /\ h[0].next = pos
      BY <1>1, <2>1 DEF Read
    <2>3. PICK all : all = Len(s) /\ all \in Nat /\ post <= all
      OBVIOUS
    <2>4. pos <= all
      BY <2>3
    <2>5. Reading(h[0], pos + 0, Len(s))
      <3>1. PICK start, next : start = h[0] /\ next = start.next /\ next = pos /\ start.ok = TRUE
        BY <2>2
      <3>2. next \in Nat /\ pos <= next /\ next <= all
        BY <2>4, <3>1
      <3>3. Reading(start, pos, all)
        BY <3>1, <3>2 DEF Reading
      <3>4. pos + 0 = pos
        OBVIOUS
      <3> QED
        BY <2>3, <3>1, <3>3, <3>4
    <2> QED
      BY <2>5
  <1>4. ASSUME NEW n \in 1..length, n - 1 \in G PROVE n \in G
    <2>1. PICK before, now : before = h[n - 1] /\ now = h[n]
      OBVIOUS
    <2>2. now = PackedTurn(s, post, before)
      BY <1>1, <1>2, <1>4, <2>1 DEF IsPacked
    <2>3. PICK goal : goal = pos + (n - 1) /\ goal \in Nat /\ goal < post /\ goal + 1 = pos + n
      BY <1>1
    <2>4. Reading(before, goal, Len(s)) \/ Reading(before, post, Len(s))
      BY <1>1, <1>4, <2>1, <2>3
    <2>5. CASE Reading(before, goal, Len(s))
      <3>1. ~ (goal >= post)
        BY <2>3
      <3>2. Reading(now, goal + 1, Len(s)) \/ Reading(now, post, Len(s))
        BY <2>2, <2>3, <2>5, <3>1, PackedTurnFacts
      <3> QED
        BY <1>1, <2>1, <2>3, <3>2
    <2>6. CASE Reading(before, post, Len(s))
      <3>1. post >= post
        OBVIOUS
      <3>2. Reading(now, post, Len(s))
        BY <2>2, <2>6, <3>1, PackedTurnFacts
      <3> QED
        BY <1>1, <2>1, <3>2
    <2> QED
      BY <2>4, <2>5, <2>6
  <1> HIDE DEF G
  <1>5. length \in G
    BY <1>1, <1>3, <1>4, BoundedInduction
  <1>6. pos + length = post
    BY <1>1
  <1> QED
    BY <1>1, <1>2, <1>5, <1>6 DEF G

(* The entry of a repeated number, of a plain field, and of any field. *)
LEMMA ReadNumbersForward ==
    ASSUME NEW s \in Seq(Byte), NEW type, NEW pos \in Nat, NEW old, NEW r,
           r = ReadNumbers(s, type, pos, old)
    PROVE  Forward(r, pos, Len(s))
  <1>1. CASE type = 0
    <2>1. PICK one : one = ReadVarint(s, pos)
      OBVIOUS
    <2>2. Forward(one, pos, Len(s))
      BY <2>1, ReadVarintForward
    <2>3. PICK value, next : value = Append(old, one.value) /\ next = one.next
      OBVIOUS
    <2>4. r = IF one.ok THEN Read(value, next) ELSE one
      BY <1>1, <2>1, <2>3 DEF ReadNumbers, Then
    <2>5. CASE one.ok
      <3>1. r.ok = TRUE /\ r.next = next
        BY <2>4, <2>5 DEF Read
      <3> QED
        BY <2>2, <2>3, <2>5, <3>1 DEF Forward
    <2>6. CASE ~ one.ok
      BY <2>2, <2>4, <2>6
    <2> QED
      BY <2>5, <2>6
  <1>2. CASE type = 2
    <2>1. PICK packed : packed = ReadLength(s, pos)
      OBVIOUS
    <2>2. /\ Forward(packed, pos, Len(s))
          /\ packed.ok => packed.value \in Seq(Byte) /\ Len(packed.value) < packed.next - pos
      BY <2>1, ReadLengthForward
    <2>3. PICK first, post : first = packed.next - Len(packed.value) /\ post = packed.next
      OBVIOUS
    <2>4. r = IF packed.ok THEN ReadPacked(s, first, post, old) ELSE packed
      BY <1>2, <2>1, <2>3 DEF ReadNumbers, Then
    <2>5. CASE packed.ok
      <3>1. PICK n, all : n = Len(packed.value) /\ all = Len(s)
        OBVIOUS
      <3>2. n \in Nat /\ post \in Nat /\ n < post - pos /\ post <= all /\ first = post - n
        BY <2>2, <2>3, <2>5, <3>1 DEF Forward
      <3>3. first \in Nat /\ first <= post /\ pos < post
        BY <3>2
      <3>4. post <= Len(s)
        BY <3>1, <3>2
      <3>5. r = ReadPacked(s, first, post, old)
        BY <2>4, <2>5
      <3>6. Reading(r, post, Len(s))
        BY <3>2, <3>3, <3>4, <3>5, ReadPackedForward
      <3>7. r.ok => r.next \in Nat /\ pos < r.next
        BY <3>2, <3>3, <3>6 DEF Reading
      <3> QED
        BY <3>6, <3>7 DEF Reading, Forward
    <2>6. CASE ~ packed.ok
      BY <2>2, <2>4, <2>6
    <2> QED
      BY <2>5, <2>6
  <1>3. CASE type \notin {0, 2}
    <2>1. r = Fail("wiretype")
      BY <1>3 DEF ReadNumbers
    <2> QED
      BY <2>1 DEF Fail, Errors, Forward
  <1> QED
    BY <1>1, <1>2, <1>3

LEMMA ReadPlainForward ==
    ASSUME NEW s \in Seq(Byte), NEW field, NEW old, NEW type, NEW pos \in Nat, NEW r,
           r = ReadPlain(field, old, s, type, pos)
    PROVE  Forward(r, pos, Len(s))
  <1>1. CASE field.type = "packed"
    <2>1. r = ReadNumbers(s, type, pos, old)
      BY <1>1 DEF ReadPlain
    <2> QED
      BY <2>1, ReadNumbersForward
  <1>2. CASE field.type \in {"uint64", "uint32", "bool"}
    <2>1. PICK number : number = ReadVarint(s, pos)
      OBVIOUS
    <2>2. Forward(number, pos, Len(s))
      BY <2>1, ReadVarintForward
    <2>3. PICK value, next : value = Narrow(number.value, field.type) /\ next = number.next
      OBVIOUS
    <2>4. r = IF type # 0 THEN Fail("wiretype") ELSE IF number.ok THEN Read(value, next) ELSE number
      BY <1>2, <2>1, <2>3 DEF ReadPlain, Then
    <2>5. CASE type # 0
      BY <2>4, <2>5 DEF Fail, Errors, Forward
    <2>6. CASE type = 0 /\ number.ok
      <3>1. r.ok = TRUE /\ r.next = next
        BY <2>4, <2>6 DEF Read
      <3> QED
        BY <2>2, <2>3, <2>6, <3>1 DEF Forward
    <2>7. CASE type = 0 /\ ~ number.ok
      BY <2>2, <2>4, <2>7
    <2> QED
      BY <2>5, <2>6, <2>7
  <1>3. CASE field.type \notin {"packed", "uint64", "uint32", "bool"}
    <2>1. PICK content : content = ReadLength(s, pos)
      OBVIOUS
    <2>2. Forward(content, pos, Len(s))
      BY <2>1, ReadLengthForward
    <2>3. PICK value, next :
              /\ value = IF field.type = "bytes" THEN content.value ELSE Append(old, content.value)
              /\ next = content.next
      OBVIOUS
    <2>4. r = IF type # 2 THEN Fail("wiretype") ELSE IF content.ok THEN Read(value, next) ELSE content
      BY <1>3, <2>1, <2>3 DEF ReadPlain, Then
    <2>5. CASE type # 2
      BY <2>4, <2>5 DEF Fail, Errors, Forward
    <2>6. CASE type = 2 /\ content.ok
      <3>1. r.ok = TRUE /\ r.next = next
        BY <2>4, <2>6 DEF Read
      <3> QED
        BY <2>2, <2>3, <2>6, <3>1 DEF Forward
    <2>7. CASE type = 2 /\ ~ content.ok
      BY <2>2, <2>4, <2>7
    <2> QED
      BY <2>5, <2>6, <2>7
  <1> QED
    BY <1>1, <1>2, <1>3

(* One turn of the loop, whatever reads the field. *)
LEMMA TurnForward ==
    ASSUME NEW s \in Seq(Byte), NEW pos \in Nat, pos < Len(s), NEW onto, NEW value,
           NEW number, NEW type, NEW known,
           NEW tag, tag = ReadVarint(s, pos),
           NEW behind, behind = SkipUnknown(s, pos),
           NEW read, tag.ok => Forward(read, tag.next, Len(s)),
           NEW r, r = IF tag.ok
                      THEN IF type = 4 THEN Fail("group")
                           ELSE IF number <= 0 THEN Fail("tag")
                           ELSE IF known = {}
                                THEN IF behind.ok THEN Read(onto, behind.next) ELSE behind
                           ELSE IF read.ok THEN Read(value, read.next) ELSE read
                      ELSE tag
    PROVE  Forward(r, pos, Len(s))
  <1>1. Forward(tag, pos, Len(s))
    BY ReadVarintForward
  <1>2. Forward(behind, pos, Len(s))
    BY SkipUnknownForward
  <1>3. PICK past, start, end : past = behind.next /\ start = tag.next /\ end = read.next
    OBVIOUS
  <1>4. CASE tag.ok /\ type # 4 /\ ~ (number <= 0) /\ known = {} /\ behind.ok
    <2>1. r = Read(onto, past)
      BY <1>3, <1>4
    <2>2. r.ok = TRUE /\ r.next = past
      BY <2>1 DEF Read
    <2> QED
      BY <1>2, <1>3, <1>4, <2>2 DEF Forward
  <1>5. CASE tag.ok /\ type # 4 /\ ~ (number <= 0) /\ known # {} /\ read.ok
    <2>1. r = Read(value, end)
      BY <1>3, <1>5
    <2>2. r.ok = TRUE /\ r.next = end
      BY <2>1 DEF Read
    <2>3. start \in Nat /\ pos < start
      BY <1>1, <1>3, <1>5 DEF Forward
    <2>4. end \in Nat /\ start < end /\ end <= Len(s)
      BY <1>3, <1>5 DEF Forward
    <2>5. pos < end
      BY <2>3, <2>4
    <2> QED
      BY <2>2, <2>4, <2>5 DEF Forward
  <1>6. CASE ~ tag.ok
    BY <1>1, <1>6
  <1>7. CASE tag.ok /\ (type = 4 \/ (type # 4 /\ number <= 0))
    BY <1>7 DEF Fail, Errors, Forward
  <1>8. CASE tag.ok /\ type # 4 /\ ~ (number <= 0) /\ known = {} /\ ~ behind.ok
    BY <1>2, <1>8
  <1>9. CASE tag.ok /\ type # 4 /\ ~ (number <= 0) /\ known # {} /\ ~ read.ok
    <2>1. r = read
      BY <1>9
    <2> QED
      BY <1>9, <2>1 DEF Forward
  <1> QED
    BY <1>4, <1>5, <1>6, <1>7, <1>8, <1>9

LEMMA ReadPlainFieldForward ==
    ASSUME NEW s \in Seq(Byte), NEW table, NEW pos \in Nat, pos < Len(s), NEW onto, NEW r,
           r = ReadPlainField(table, s, pos, onto)
    PROVE  Forward(r, pos, Len(s))
  <1>1. PICK tag, behind : tag = ReadVarint(s, pos) /\ behind = SkipUnknown(s, pos)
    OBVIOUS
  <1>2. PICK number, type, known :
            /\ number = Signed(tag.value \div 8, HalfBits) /\ type = tag.value % 8
            /\ known = {i \in DOMAIN table : table[i].num = number}
    OBVIOUS
  <1>3. PICK field, old : field = table[CHOOSE i \in known : TRUE] /\ old = onto[field.name]
    OBVIOUS
  <1>4. PICK read : read = ReadPlain(field, old, s, type, tag.next)
    OBVIOUS
  <1>5. PICK value : value = [onto EXCEPT ![field.name] = read.value]
    OBVIOUS
  <1>6. tag.ok => Forward(read, tag.next, Len(s))
    <2>1. tag.ok => tag.next \in Nat
      BY <1>1, ReadVarintForward DEF Forward
    <2> QED
      BY <1>4, <2>1, ReadPlainForward
  <1>7. r = ReadFieldBy(ReadPlain, table, s, pos, onto)
    BY DEF ReadPlainField
  <1>8. r = IF tag.ok
            THEN IF type = 4 THEN Fail("group")
                 ELSE IF number <= 0 THEN Fail("tag")
                 ELSE IF known = {} THEN IF behind.ok THEN Read(onto, behind.next) ELSE behind
                 ELSE IF read.ok THEN Read(value, read.next) ELSE read
            ELSE tag
    BY <1>1, <1>2, <1>3, <1>4, <1>5, <1>7 DEF ReadFieldBy, Then
  <1> QED
    BY <1>1, <1>6, <1>8, TurnForward

(* The loop of Unmarshal, turn by turn. *)
PlainTurn(table, s, r) ==
    IF r.ok THEN IF r.next >= Len(s) THEN r ELSE ReadPlainField(table, s, r.next, r.value) ELSE r

IsPlain(f, table, s, onto, n) ==
    \A k \in 0..n : f[k] = IF k = 0 THEN Read(onto, 0) ELSE PlainTurn(table, s, f[k - 1])

LEMMA PlainExists ==
    ASSUME NEW s, NEW table, NEW onto
    PROVE  \A n \in Nat : \E f : f = [k \in 0..n |-> f[k]] /\ IsPlain(f, table, s, onto, n)
  <1> DEFINE G == {n \in Nat : \E f : f = [k \in 0..n |-> f[k]] /\ IsPlain(f, table, s, onto, n)}
  <1>1. 0 \in G
    <2>1. PICK f : f = [k \in 0..0 |-> Read(onto, 0)]
      OBVIOUS
    <2>2. f = [k \in 0..0 |-> f[k]] /\ IsPlain(f, table, s, onto, 0)
      BY <2>1 DEF IsPlain
    <2> QED
      BY <2>2
  <1>2. ASSUME NEW n \in Nat, n \in G PROVE n + 1 \in G
    <2>1. PICK f : IsPlain(f, table, s, onto, n)
      BY <1>2
    <2>2. PICK g : g = [k \in 0..(n + 1) |->
                           IF k = 0 THEN Read(onto, 0) ELSE PlainTurn(table, s, f[k - 1])]
      OBVIOUS
    <2>3. \A k \in 0..n : g[k] = f[k]
      BY <2>1, <2>2 DEF IsPlain
    <2>4. \A k \in 0..(n + 1) : g[k] = IF k = 0 THEN Read(onto, 0) ELSE PlainTurn(table, s, g[k - 1])
      <3> TAKE k \in 0..(n + 1)
      <3>1. k # 0 => k - 1 \in 0..n
        OBVIOUS
      <3> QED
        BY <2>2, <2>3, <3>1
    <2>5. g = [k \in 0..(n + 1) |-> g[k]] /\ IsPlain(g, table, s, onto, n + 1)
      BY <2>2, <2>4 DEF IsPlain
    <2> QED
      BY <2>5
  <1> HIDE DEF G
  <1>3. \A n \in Nat : n \in G
    BY <1>1, <1>2, NumberInduction
  <1> QED
    BY <1>3 DEF G

LEMMA PlainIsLast ==
    ASSUME NEW s \in Seq(Byte), NEW table, NEW onto
    PROVE  \E h : /\ IsPlain(h, table, s, onto, Len(s))
                 /\ UnmarshalPlain(table, s, onto)
                        = h[CHOOSE n \in 0..Len(s) : h[n].ok => h[n].next >= Len(s)]
  <1>1. PICK length : length = Len(s) /\ length \in Nat
    OBVIOUS
  <1>2. PICK f : f = [k \in 0..length |-> f[k]] /\ IsPlain(f, table, s, onto, length)
    BY <1>1, PlainExists
  <1>3. \A k \in 0..length : f[k] = IF k = 0 THEN Read(onto, 0) ELSE PlainTurn(table, s, f[k - 1])
    BY <1>2 DEF IsPlain
  <1>4. f = [k \in 0..length |-> IF k = 0 THEN Read(onto, 0) ELSE PlainTurn(table, s, f[k - 1])]
    BY <1>2, <1>3
  <1>5. PICK h : h = CHOOSE f_ : f_ = [k \in 0..Len(s) |->
                        IF k = 0 THEN Read(onto, 0) ELSE PlainTurn(table, s, f_[k - 1])]
    OBVIOUS
  <1>6. h = [k \in 0..length |-> IF k = 0 THEN Read(onto, 0) ELSE PlainTurn(table, s, h[k - 1])]
    BY <1>1, <1>4, <1>5
  <1>7. UnmarshalPlain(table, s, onto) = UnmarshalBy(ReadPlainField, table, s, onto)
    BY DEF UnmarshalPlain
  <1>8. UnmarshalPlain(table, s, onto)
            = h[CHOOSE n \in 0..Len(s) : h[n].ok => h[n].next >= Len(s)]
    BY <1>5, <1>7 DEF UnmarshalBy, Then, PlainTurn
  <1>9. IsPlain(h, table, s, onto, length)
    BY <1>6 DEF IsPlain
  <1> QED
    BY <1>1, <1>8, <1>9

(* The loop ends at the end of the string or with an error. *)
LEMMA UnmarshalPlainEnds ==
    ASSUME NEW s \in Seq(Byte), NEW table, NEW onto, NEW r, r = UnmarshalPlain(table, s, onto)
    PROVE  Reading(r, Len(s), Len(s))
  <1>1. PICK length : length = Len(s) /\ length \in Nat
    OBVIOUS
  <1>2. PICK h : /\ IsPlain(h, table, s, onto, length)
                 /\ r = h[CHOOSE n \in 0..length : h[n].ok => h[n].next >= length]
    BY <1>1, PlainIsLast
  <1> DEFINE G == {n \in Nat : n <= length => Reading(h[n], n, length)}
  <1>3. 0 \in G
    <2>1. PICK start : start = h[0]
      OBVIOUS
    <2>2. start = Read(onto, 0)
      BY <1>1, <1>2, <2>1 DEF IsPlain
    <2>3. Reading(start, 0, length)
      BY <1>1, <2>2 DEF Read, Reading
    <2> QED
      BY <2>1, <2>3
  <1>4. ASSUME NEW n \in 1..length, n - 1 \in G PROVE n \in G
    <2>1. PICK before, now : before = h[n - 1] /\ now = h[n]
      OBVIOUS
    <2>2. now = PlainTurn(table, s, before)
      BY <1>1, <1>2, <1>4, <2>1 DEF IsPlain
    <2>3. Reading(before, n - 1, length)
      BY <1>1, <1>4, <2>1
    <2>4. PICK next, value : next = before.next /\ value = before.value
      OBVIOUS
    <2>5. now = IF before.ok
                THEN IF next >= length THEN before ELSE ReadPlainField(table, s, next, value)
                ELSE before
      BY <1>1, <2>2, <2>4 DEF PlainTurn
    <2>6. before.ok => next \in Nat /\ n - 1 <= next /\ next <= length
      BY <2>3, <2>4 DEF Reading
    <2>7. Reading(now, n, length)
      <3>1. CASE ~ before.ok
        <4>1. now = before
          BY <2>5, <3>1
        <4> QED
          BY <2>3, <3>1, <4>1 DEF Reading
      <3>2. CASE before.ok /\ next >= length
        <4>1. now = before
          BY <2>5, <3>2
        <4>2. n <= next
          BY <1>1, <2>6, <3>2
        <4> QED
          BY <2>4, <2>6, <3>2, <4>1, <4>2 DEF Reading
      <3>3. CASE before.ok /\ ~ (next >= length)
        <4>1. now = ReadPlainField(table, s, next, value) /\ next < length
          BY <1>1, <2>5, <2>6, <3>3
        <4>2. Forward(now, next, length)
          BY <1>1, <2>6, <3>3, <4>1, ReadPlainFieldForward
        <4>3. PICK end : end = now.next
          OBVIOUS
        <4>4. now.ok => end \in Nat /\ next < end /\ end <= length
          BY <4>2, <4>3 DEF Forward
        <4>5. now.ok => n <= end
          BY <2>6, <3>3, <4>4
        <4> QED
          BY <4>2, <4>3, <4>4, <4>5 DEF Forward, Reading
      <3> QED
        BY <2>3, <3>1, <3>2, <3>3 DEF Reading
    <2> QED
      BY <2>1, <2>7
  <1> HIDE DEF G
  <1>5. \A n \in 0..length : n \in G
    BY <1>1, <1>3, <1>4, BoundedInduction
  <1>6. \A n \in 0..length : Reading(h[n], n, length)
    BY <1>5 DEF G
  <1>7. length \in 0..length /\ (h[length].ok => h[length].next >= length)
    <2>1. length \in 0..length
      BY <1>1
    <2>2. PICK next : next = h[length].next
      OBVIOUS
    <2>3. h[length].ok => next \in Nat /\ length <= next
      BY <1>6, <2>1, <2>2 DEF Reading
    <2>4. h[length].ok => next >= length
      BY <1>1, <2>3
    <2> QED
      BY <2>1, <2>2, <2>4
  <1>8. PICK n \in 0..length : r = h[n] /\ (r.ok => r.next >= length)
    BY <1>2, <1>7
  <1>9. PICK next : next = r.next
    OBVIOUS
  <1>10. r.ok => next \in Nat /\ next <= length /\ length <= next
    BY <1>1, <1>6, <1>8, <1>9 DEF Reading
  <1> QED
    BY <1>1, <1>6, <1>8, <1>9, <1>10 DEF Reading

(* An embedded message is taken in or refused with an error. *)
LEMMA AbsorbFacts ==
    ASSUME NEW content \in Seq(Byte), NEW field, NEW old, NEW r, r = Absorb(field, old, content)
    PROVE  r.ok \in BOOLEAN /\ (~ r.ok => r.error \in Errors)
  <1>1. PICK onto : onto = IF field.type = "pointer" THEN Pointed(field.table, old)
                           ELSE EmptyMessage(field.table)
    OBVIOUS
  <1>2. PICK inner, length : inner = UnmarshalPlain(field.table, content, onto) /\ length = Len(content)
    OBVIOUS
  <1>3. Reading(inner, length, length)
    BY <1>2, UnmarshalPlainEnds
  <1>4. PICK value : value = IF field.type = "pointer" THEN <<inner.value>> ELSE Append(old, inner.value)
    OBVIOUS
  <1>5. r = IF inner.ok THEN Read(value, 0) ELSE inner
    BY <1>1, <1>2, <1>4 DEF Absorb, Then
  <1>6. CASE inner.ok
    <2>1. r.ok = TRUE
      BY <1>5, <1>6 DEF Read
    <2> QED
      BY <2>1
  <1>7. CASE ~ inner.ok
    BY <1>3, <1>5, <1>7 DEF Reading
  <1> QED
    BY <1>6, <1>7

LEMMA ReadValueForward ==
    ASSUME NEW s \in Seq(Byte), NEW field, NEW old, NEW type, NEW pos \in Nat, NEW r,
           r = ReadValue(field, old, s, type, pos)
    PROVE  Forward(r, pos, Len(s))
  <1>1. CASE field.type \notin {"pointer", "messageList"}
    <2>1. r = ReadPlain(field, old, s, type, pos)
      BY <1>1 DEF ReadValue
    <2> QED
      BY <2>1, ReadPlainForward
  <1>2. CASE field.type \in {"pointer", "messageList"}
    <2>1. PICK content : content = ReadLength(s, pos)
      OBVIOUS
    <2>2. Forward(content, pos, Len(s)) /\ (content.ok => content.value \in Seq(Byte))
      BY <2>1, ReadLengthForward
    <2>3. PICK taken : taken = Absorb(field, old, content.value)
      OBVIOUS
    <2>4. PICK value, next : value = taken.value /\ next = content.next
      OBVIOUS
    <2>5. r = IF type # 2 THEN Fail("wiretype")
              ELSE IF content.ok THEN IF taken.ok THEN Read(value, next) ELSE taken
                   ELSE content
      BY <1>2, <2>1, <2>3, <2>4 DEF ReadValue, Then
    <2>6. CASE type = 2 /\ content.ok /\ taken.ok
      <3>1. r.ok = TRUE /\ r.next = next
        BY <2>5, <2>6 DEF Read
      <3> QED
        BY <2>2, <2>4, <2>6, <3>1 DEF Forward
    <2>7. CASE type # 2
      BY <2>5, <2>7 DEF Fail, Errors, Forward
    <2>8. CASE type = 2 /\ ~ content.ok
      BY <2>2, <2>5, <2>8
    <2>9. CASE type = 2 /\ content.ok /\ ~ taken.ok
      <3>1. r = taken
        BY <2>5, <2>9
      <3>2. r.ok \in BOOLEAN /\ r.error \in Errors
        BY <2>2, <2>3, <2>9, <3>1, AbsorbFacts
      <3> QED
        BY <2>9, <3>1, <3>2 DEF Forward
    <2> QED
      BY <2>6, <2>7, <2>8, <2>9
  <1> QED
    BY <1>1, <1>2

(* One turn of the loop of Unmarshal. *)
LEMMA ReadFieldForward ==
    ASSUME NEW s \in Seq(Byte), NEW table, NEW pos \in Nat, pos < Len(s), NEW onto, NEW r,
           r = ReadField(table, s, pos, onto)
    PROVE  Forward(r, pos, Len(s))
  <1>1. PICK tag, behind : tag = ReadVarint(s, pos) /\ behind = SkipUnknown(s, pos)
    OBVIOUS
  <1>2. PICK number, type, known :
            /\ number = Signed(tag.value \div 8, HalfBits) /\ type = tag.value % 8
            /\ known = {i \in DOMAIN table : table[i].num = number}
    OBVIOUS
  <1>3. PICK field, old : field = table[CHOOSE i \in known : TRUE] /\ old = onto[field.name]
    OBVIOUS
  <1>4. PICK read : read = ReadValue(field, old, s, type, tag.next)
    OBVIOUS
  <1>5. PICK value : value = [onto EXCEPT ![field.name] = read.value]
    OBVIOUS
  <1>6. tag.ok => Forward(read, tag.next, Len(s))
    <2>1. tag.ok => tag.next \in Nat
      BY <1>1, ReadVarintForward DEF Forward
    <2> QED
      BY <1>4, <2>1, ReadValueForward
  <1>7. r = ReadFieldBy(ReadValue, table, s, pos, onto)
    BY DEF ReadField
  <1>8. r = IF tag.ok
            THEN IF type = 4 THEN Fail("group")
                 ELSE IF number <= 0 THEN Fail("tag")
                 ELSE IF known = {} THEN IF behind.ok THEN Read(onto, behind.next) ELSE behind
                 ELSE IF read.ok THEN Read(value, read.next) ELSE read
            ELSE tag
    BY <1>1, <1>2, <1>3, <1>4, <1>5, <1>7 DEF ReadFieldBy, Then
  <1> QED
    BY <1>1, <1>6, <1>8, TurnForward

(* Induction with every smaller number for the hypothesis. *)
LEMMA StrongInduction ==
    ASSUME NEW G, \A n \in Nat : (\A m \in 0..(n - 1) : m \in G) => n \in G
    PROVE  \A n \in Nat : n \in G
  <1> SUFFICES ASSUME Nat \ G # {} PROVE FALSE
    OBVIOUS
  <1>1. PICK n \in Nat \ G : \A m \in Nat \ G : n <= m
    BY LeastNatural
  <1>2. \A m \in 0..(n - 1) : m \in G
    BY <1>1
  <1> QED
    BY <1>1, <1>2

-----------------------------------------------------------------------------
(***************************************************************************)
(* Varints: what is written is read, in as many bytes as Sov says.         *)
(***************************************************************************)

(* A number's last seven bits and the rest. *)
LEMMA Digits ==
    ASSUME NEW v \in Nat
    PROVE  /\ v % 128 \in 0..127 /\ v \div 128 \in Nat
           /\ v = 128 * (v \div 128) + (v % 128)
           /\ v >= 128 => v \div 128 < v /\ v \div 128 > 0
           /\ v < 128 => v \div 128 = 0
  OBVIOUS

(* A function that has the varint of every number up to n. *)
IsVarints(f, n) ==
    \A k \in 0..n : f[k] = IF k < 128 THEN <<k>> ELSE <<(k % 128) + 128>> \o f[k \div 128]

(* There is one, by induction on n, and any two agree. *)
LEMMA VarintsExist == \A n \in Nat : \E f : IsVarints(f, n)
  <1> DEFINE G == {n \in Nat : \E f : IsVarints(f, n)}
  <1>1. 0 \in G
    <2>1. PICK f : f = [k \in 0..0 |-> <<k>>]
      OBVIOUS
    <2>2. IsVarints(f, 0)
      BY <2>1 DEF IsVarints
    <2> QED
      BY <2>2
  <1>2. ASSUME NEW n \in Nat, n \in G PROVE n + 1 \in G
    <2>1. PICK f : IsVarints(f, n)
      BY <1>2
    <2>2. PICK g : g = [k \in 0..(n + 1) |->
                           IF k < 128 THEN <<k>> ELSE <<(k % 128) + 128>> \o f[k \div 128]]
      OBVIOUS
    <2>3. \A k \in 0..n : g[k] = f[k]
      <3> TAKE k \in 0..n
      <3>1. k \in 0..(n + 1)
        OBVIOUS
      <3>2. g[k] = IF k < 128 THEN <<k>> ELSE <<(k % 128) + 128>> \o f[k \div 128]
        BY <2>2, <3>1
      <3> QED
        BY <2>1, <3>2 DEF IsVarints
    <2>4. \A k \in 0..(n + 1) : k < 128 \/ k \div 128 \in 0..n
      OBVIOUS
    <2>5. IsVarints(g, n + 1)
      BY <2>2, <2>3, <2>4 DEF IsVarints
    <2> QED
      BY <2>5
  <1> HIDE DEF G
  <1>3. \A n \in Nat : n \in G
    BY <1>1, <1>2, NumberInduction
  <1> QED
    BY <1>3 DEF G

LEMMA VarintsAgree ==
    ASSUME NEW m \in Nat, NEW n \in Nat, NEW f, NEW g, IsVarints(f, m), IsVarints(g, n)
    PROVE  \A k \in Nat : k <= m /\ k <= n => f[k] = g[k]
  <1> DEFINE G == {k \in Nat : k <= m /\ k <= n => f[k] = g[k]}
  <1>1. ASSUME NEW k \in Nat, \A j \in 0..(k - 1) : j \in G PROVE k \in G
    <2> SUFFICES ASSUME k <= m, k <= n PROVE f[k] = g[k]
      OBVIOUS
    <2>1. /\ f[k] = IF k < 128 THEN <<k>> ELSE <<(k % 128) + 128>> \o f[k \div 128]
          /\ g[k] = IF k < 128 THEN <<k>> ELSE <<(k % 128) + 128>> \o g[k \div 128]
      BY DEF IsVarints
    <2>2. k >= 128 => k \div 128 \in 0..(k - 1)
      OBVIOUS
    <2>3. k >= 128 => f[k \div 128] = g[k \div 128]
      BY <1>1, <2>2
    <2> QED
      BY <2>1, <2>3
  <1> HIDE DEF G
  <1>2. \A k \in Nat : k \in G
    BY <1>1, StrongInduction
  <1> QED
    BY <1>2 DEF G

(* So Varint satisfies the equation that defines it. *)
LEMMA VarintEquation ==
    ASSUME NEW v \in Nat
    PROVE  Varint(v) = IF v < 128 THEN <<v>> ELSE <<(v % 128) + 128>> \o Varint(v \div 128)
  <1>1. PICK F : F = [n \in Nat |-> CHOOSE f : IsVarints(f, n)]
    OBVIOUS
  <1>2. \A n \in Nat : IsVarints(F[n], n)
    BY <1>1, VarintsExist
  <1>3. PICK h : h = [n \in Nat |-> F[n][n]]
    OBVIOUS
  <1>4. \A n \in Nat : h[n] = IF n < 128 THEN <<n>> ELSE <<(n % 128) + 128>> \o h[n \div 128]
    <2> TAKE n \in Nat
    <2>1. F[n][n] = IF n < 128 THEN <<n>> ELSE <<(n % 128) + 128>> \o F[n][n \div 128]
      BY <1>2 DEF IsVarints
    <2>2. CASE n < 128
      BY <1>3, <2>1, <2>2
    <2>3. CASE n >= 128
      <3>1. PICK q : q = n \div 128
        OBVIOUS
      <3>2. q \in Nat /\ q <= n
        BY <2>3, <3>1
      <3>3. F[n][q] = F[q][q]
        BY <1>2, <3>2, VarintsAgree
      <3>4. h[n] = F[n][n] /\ h[q] = F[q][q]
        BY <1>3, <3>2
      <3> QED
        BY <2>1, <2>3, <3>1, <3>3, <3>4
    <2> QED
      BY <2>2, <2>3
  <1>5. h = [n \in Nat |-> IF n < 128 THEN <<n>> ELSE <<(n % 128) + 128>> \o h[n \div 128]]
    BY <1>3, <1>4
  <1>6. PICK e : e = CHOOSE encoded : encoded = [n \in Nat |->
                        IF n < 128 THEN <<n>> ELSE <<(n % 128) + 128>> \o encoded[n \div 128]]
    OBVIOUS
  <1>7. e = [n \in Nat |-> IF n < 128 THEN <<n>> ELSE <<(n % 128) + 128>> \o e[n \div 128]]
    BY <1>5, <1>6
  <1>8. \A n \in Nat : Varint(n) = e[n]
    BY <1>6 DEF Varint
  <1>9. v \div 128 \in Nat
    OBVIOUS
  <1> QED
    BY <1>7, <1>8, <1>9

(* Seven bits a byte, all but the last one marked. *)
Coded(e) ==
    /\ e \in Seq(Byte) /\ Len(e) > 0
    /\ e[Len(e)] < 128 /\ \A j \in 1..(Len(e) - 1) : e[j] >= 128

(* All bytes of a varint but the last are marked. *)
LEMMA VarintShape == \A v \in Nat : Coded(Varint(v))
  <1> DEFINE G == {v \in Nat : Coded(Varint(v))}
  <1>1. ASSUME NEW v \in Nat, \A m \in 0..(v - 1) : m \in G PROVE v \in G
    <2>1. CASE v < 128
      <3>1. PICK e : e = Varint(v) /\ e = <<v>>
        BY <2>1, VarintEquation
      <3>2. v \in Byte
        BY <2>1 DEF Byte
      <3>3. e \in Seq(Byte) /\ Len(e) = 1 /\ e[1] = v
        BY <3>1, <3>2
      <3>4. Coded(e)
        BY <2>1, <3>3 DEF Coded
      <3> QED
        BY <3>1, <3>4
    <2>2. CASE v >= 128
      <3>1. PICK d, q, rest : d = (v % 128) + 128 /\ q = v \div 128 /\ rest = Varint(q)
        OBVIOUS
      <3>2. d \in 128..255 /\ q \in 0..(v - 1)
        BY <2>2, <3>1, Digits
      <3>3. Coded(rest)
        BY <1>1, <3>1, <3>2
      <3>4. PICK e : e = Varint(v) /\ e = <<d>> \o rest
        BY <2>2, <3>1, VarintEquation
      <3>5. d \in Byte
        BY <3>2 DEF Byte
      <3>6. PICK n : n = Len(rest) /\ n \in Nat /\ n > 0
        BY <3>3 DEF Coded
      <3>7. rest \in Seq(Byte)
        BY <3>3 DEF Coded
      <3>8. /\ e \in Seq(Byte) /\ Len(e) = n + 1 /\ e[1] = d
            /\ \A j \in 1..n : e[j + 1] = rest[j]
        BY <3>4, <3>5, <3>6, <3>7
      <3>9. e[n + 1] < 128
        BY <3>3, <3>6, <3>8 DEF Coded
      <3>10. \A j \in 1..n : e[j] >= 128
        <4> TAKE j \in 1..n
        <4>1. CASE j = 1
          BY <3>2, <3>8, <4>1
        <4>2. CASE j # 1
          <5>1. PICK i \in 1..(n - 1) : j = i + 1 /\ i \in 1..n
            BY <3>6, <4>2
          <5> QED
            BY <3>3, <3>6, <3>8, <5>1 DEF Coded
        <4> QED
          BY <4>1, <4>2
      <3>11. Coded(e)
        <4>1. (n + 1) - 1 = n /\ n + 1 > 0
          BY <3>6
        <4> QED
          BY <3>8, <3>9, <3>10, <4>1 DEF Coded
      <3> QED
        BY <3>4, <3>11
    <2> QED
      BY <2>1, <2>2
  <1> HIDE DEF G
  <1>2. \A v \in Nat : v \in G
    BY <1>1, StrongInduction
  <1> QED
    BY <1>2 DEF G

(* Seven more bits are 128 times as much. *)
LEMMA SevenBits ==
    ASSUME NEW n \in Nat
    PROVE  TwoTo[n + 7] = 128 * TwoTo[n]
  <1>1. /\ TwoTo[n + 1] = 2 * TwoTo[n] /\ TwoTo[(n + 1) + 1] = 2 * TwoTo[n + 1]
        /\ TwoTo[(n + 2) + 1] = 2 * TwoTo[n + 2] /\ TwoTo[(n + 3) + 1] = 2 * TwoTo[n + 3]
        /\ TwoTo[(n + 4) + 1] = 2 * TwoTo[n + 4] /\ TwoTo[(n + 5) + 1] = 2 * TwoTo[n + 5]
        /\ TwoTo[(n + 6) + 1] = 2 * TwoTo[n + 6]
    BY TwoToEquation
  <1>2. /\ (n + 1) + 1 = n + 2 /\ (n + 2) + 1 = n + 3 /\ (n + 3) + 1 = n + 4
        /\ (n + 4) + 1 = n + 5 /\ (n + 5) + 1 = n + 6 /\ (n + 6) + 1 = n + 7
    OBVIOUS
  <1>3. PICK t : t = TwoTo[n] /\ t \in Nat
    BY TwoToPositive
  <1>4. /\ TwoTo[n + 1] = 2 * t /\ TwoTo[n + 2] = 4 * t /\ TwoTo[n + 3] = 8 * t
        /\ TwoTo[n + 4] = 16 * t /\ TwoTo[n + 5] = 32 * t /\ TwoTo[n + 6] = 64 * t
    BY <1>1, <1>2, <1>3
  <1>5. TwoTo[n + 7] = 128 * t
    BY <1>1, <1>2, <1>3, <1>4
  <1> QED
    BY <1>3, <1>5

(* Powers of two grow with the exponent. *)
LEMMA TwoToGrows ==
    ASSUME NEW m \in Nat, NEW n \in Nat, m <= n
    PROVE  TwoTo[m] <= TwoTo[n]
  <1> DEFINE G == {k \in Nat : TwoTo[m] <= TwoTo[m + k]}
  <1>1. 0 \in G
    <2>1. m + 0 = m /\ TwoTo[m] \in Nat
      BY TwoToPositive
    <2> QED
      BY <2>1
  <1>2. ASSUME NEW k \in Nat, k \in G PROVE k + 1 \in G
    <2>1. m + k \in Nat /\ m + (k + 1) = (m + k) + 1
      OBVIOUS
    <2>2. TwoTo[m + (k + 1)] = 2 * TwoTo[m + k] /\ TwoTo[m + k] \in Nat /\ TwoTo[m] \in Nat
      BY <2>1, TwoToEquation, TwoToPositive
    <2> QED
      BY <1>2, <2>2
  <1> HIDE DEF G
  <1>3. n - m \in Nat /\ m + (n - m) = n
    OBVIOUS
  <1>4. n - m \in G
    BY <1>1, <1>2, <1>3, NumberInduction
  <1> QED
    BY <1>3, <1>4 DEF G

(* A number is written in the bytes that it has seven bits for, no more. *)
LEMMA VarintLength == \A v \in Nat, n \in Nat : n > 0 => (v < TwoTo[7 * n] <=> Len(Varint(v)) <= n)
  <1> DEFINE G == {v \in Nat : \A n \in Nat : n > 0 => (v < TwoTo[7 * n] <=> Len(Varint(v)) <= n)}
  <1>1. ASSUME NEW v \in Nat, \A m \in 0..(v - 1) : m \in G PROVE v \in G
    <2> SUFFICES ASSUME NEW n \in Nat, n > 0 PROVE v < TwoTo[7 * n] <=> Len(Varint(v)) <= n
      OBVIOUS
    <2>1. PICK k : k = n - 1 /\ k \in Nat /\ 7 * k \in Nat /\ 7 * n = 7 * k + 7
      OBVIOUS
    <2>2. PICK t : t = TwoTo[7 * k] /\ t \in Nat /\ t > 0 /\ TwoTo[7 * n] = 128 * t
      BY <2>1, TwoToPositive, SevenBits
    <2>3. CASE v < 128
      <3>1. Varint(v) = <<v>>
        BY <2>3, VarintEquation
      <3>2. Len(Varint(v)) = 1
        BY <3>1
      <3> QED
        BY <2>2, <2>3, <3>2
    <2>4. CASE v >= 128
      <3>1. PICK d, q, rest : d = v % 128 /\ q = v \div 128 /\ rest = Varint(q)
        OBVIOUS
      <3>2. d \in 0..127 /\ q \in 0..(v - 1) /\ q > 0 /\ v = 128 * q + d
        BY <2>4, <3>1, Digits
      <3>3. rest \in Seq(Byte) /\ Len(rest) > 0
        BY <3>1, <3>2, VarintShape DEF Coded
      <3>4. PICK l : l = Len(rest) /\ l \in Nat
        BY <3>3
      <3>5. Varint(v) = <<d + 128>> \o rest
        BY <2>4, <3>1, VarintEquation
      <3>6. Len(Varint(v)) = l + 1
        BY <3>3, <3>4, <3>5
      <3>7. CASE k = 0
        <4>1. t = 1
          BY <2>2, <3>7, TwoToEquation
        <4> QED
          BY <2>1, <2>2, <2>4, <3>3, <3>4, <3>6, <3>7, <4>1
      <3>8. CASE k > 0
        <4>1. q < t <=> l <= k
          BY <1>1, <2>1, <2>2, <3>1, <3>2, <3>4, <3>8
        <4>2. v < 128 * t <=> q < t
          BY <2>2, <3>2
        <4> QED
          BY <2>1, <2>2, <3>4, <3>6, <4>1, <4>2
      <3> QED
        BY <2>1, <3>7, <3>8
    <2> QED
      BY <2>3, <2>4
  <1> HIDE DEF G
  <1>2. \A v \in Nat : v \in G
    BY <1>1, StrongInduction
  <1> QED
    BY <1>2 DEF G

(* MaxVarint bytes hold any word. *)
LEMMA MaxVarintFacts == MaxVarint \in Nat /\ MaxVarint > 0 /\ WordBits <= 7 * MaxVarint
  <1>1. WordBits \in Nat /\ WordBits > 0
    BY WidthAssumption
  <1> QED
    BY <1>1 DEF MaxVarint

(* A word is a number that has WordBits bits. *)
LEMMA WordIsNat ==
    ASSUME NEW v \in Word
    PROVE  v \in Nat /\ v < TwoTo[WordBits]
  <1>1. PICK t : t = TwoTo[WordBits] /\ t \in Nat
    BY WordFacts
  <1>2. v \in 0..(t - 1)
    BY <1>1 DEF Word
  <1> QED
    BY <1>1, <1>2

(* Sov counts the bytes of a varint, at most MaxVarint of them. *)
LEMMA SovIsLength ==
    ASSUME NEW v \in Word
    PROVE  /\ v \in Nat /\ v < TwoTo[WordBits]
           /\ Sov(v) = Len(Varint(v)) /\ Sov(v) \in 1..MaxVarint
  <1>1. v \in Nat /\ v < TwoTo[WordBits]
    BY WordIsNat
  <1>2. PICK n : n = Len(Varint(v)) /\ n \in Nat /\ n > 0
    <2>1. PICK e : e = Varint(v)
      OBVIOUS
    <2>2. e \in Seq(Byte) /\ Len(e) > 0
      BY <1>1, <2>1, VarintShape DEF Coded
    <2>3. Len(e) \in Nat
      BY <2>2
    <2> QED
      BY <2>1, <2>2, <2>3
  <1>3. v < TwoTo[7 * MaxVarint]
    <2>1. TwoTo[WordBits] <= TwoTo[7 * MaxVarint]
      BY MaxVarintFacts, WordFacts, TwoToGrows
    <2>2. 7 * MaxVarint \in Nat
      BY MaxVarintFacts
    <2>3. TwoTo[7 * MaxVarint] \in Nat /\ TwoTo[WordBits] \in Nat
      BY <2>2, WordFacts, TwoToPositive
    <2> QED
      BY <1>1, <2>1, <2>3
  <1>4. PICK top : top = MaxVarint /\ top \in Nat /\ top > 0
    BY MaxVarintFacts
  <1>5. \A k \in 1..top : v < TwoTo[7 * k] <=> n <= k
    <2> TAKE k \in 1..top
    <2>1. k \in Nat /\ k > 0
      BY <1>4
    <2>2. v < TwoTo[7 * k] <=> Len(Varint(v)) <= k
      BY <1>1, <2>1, VarintLength
    <2> QED
      BY <1>2, <2>2
  <1>6. n \in 1..top
    <2>1. top \in 1..top
      BY <1>4
    <2> QED
      BY <1>2, <1>3, <1>4, <1>5, <2>1
  <1>7. PICK S : S = {k \in 1..top : v < TwoTo[7 * k]}
    OBVIOUS
  <1>8. n \in S /\ S \subseteq Nat /\ \A k \in S : n <= k
    BY <1>2, <1>4, <1>5, <1>6, <1>7
  <1>9. PICK m : m = Min(S) /\ m \in S /\ \A k \in S : m <= k
    BY <1>8, MinFacts
  <1>10. m = n
    <2>1. m \in Nat /\ m <= n /\ n <= m
      BY <1>8, <1>9
    <2> QED
      BY <1>2, <2>1
  <1>11. Sov(v) = m
    BY <1>4, <1>7, <1>9 DEF Sov
  <1> QED
    BY <1>1, <1>2, <1>4, <1>6, <1>10, <1>11

(* Bytes are integers. *)
LEMMA ByteIsInt == \A b \in Byte : b \in Int
  BY DEF Byte

(* The digits of a number, each in its place, add up to it. *)
Shifted(e, k) == [j \in 1..Len(e) |-> (e[j] % 128) * TwoTo[7 * (k + j - 1)]]

(* The digits of a varint, each in its place, add up to its number. *)
LEMMA VarintValue == \A v \in Nat, k \in Nat : SumOf(Shifted(Varint(v), k)) = v * TwoTo[7 * k]
  <1> DEFINE G == {v \in Nat : \A k \in Nat : SumOf(Shifted(Varint(v), k)) = v * TwoTo[7 * k]}
  <1>1. ASSUME NEW e \in Seq(Byte), NEW k \in Nat PROVE Shifted(e, k) \in Seq(Nat)
    <2>1. PICK n : n = Len(e) /\ n \in Nat
      OBVIOUS
    <2>2. ASSUME NEW j \in 1..n PROVE (e[j] % 128) * TwoTo[7 * (k + j - 1)] \in Nat
      <3>1. e[j] \in Byte
        BY <2>1
      <3>2. e[j] % 128 \in Nat
        <4>1. \A b \in 0..255 : b % 128 \in Nat
          OBVIOUS
        <4> QED
          BY <3>1, <4>1 DEF Byte
      <3>3. 7 * (k + j - 1) \in Nat
        BY <2>1
      <3>4. TwoTo[7 * (k + j - 1)] \in Nat
        BY <3>3, TwoToPositive
      <3> QED
        BY <3>2, <3>4
    <2> QED
      BY <2>1, <2>2 DEF Shifted
  <1>2. ASSUME NEW v \in Nat, \A m \in 0..(v - 1) : m \in G PROVE v \in G
    <2> SUFFICES ASSUME NEW k \in Nat PROVE SumOf(Shifted(Varint(v), k)) = v * TwoTo[7 * k]
      OBVIOUS
    <2>0. \A m \in 0..(v - 1), j \in Nat : SumOf(Shifted(Varint(m), j)) = m * TwoTo[7 * j]
      BY <1>2
    <2> HIDE DEF G
    <2>1. PICK t : t = TwoTo[7 * k] /\ t \in Nat
      BY TwoToPositive
    <2>2. PICK e, longer : e = Varint(v) /\ longer = Shifted(e, k)
      OBVIOUS
    <2>3. e \in Seq(Byte)
      BY <2>2, VarintShape DEF Coded
    <2>4. PICK n : n = Len(e) /\ n \in Nat
      BY <2>3
    <2>5. longer \in Seq(Nat)
      BY <1>1, <2>2, <2>3
    <2>6. /\ Len(longer) = n
          /\ \A j \in 1..n : longer[j] = (e[j] % 128) * TwoTo[7 * (k + j - 1)]
      BY <2>2, <2>4 DEF Shifted
    <2>7. CASE v < 128
      <3>1. e = <<v>>
        BY <2>2, <2>7, VarintEquation
      <3>2. n = 1 /\ e[1] = v
        BY <2>4, <3>1
      <3>3. v % 128 = v /\ 7 * (k + 1 - 1) = 7 * k /\ v * t \in Nat
        BY <2>1, <2>7
      <3>4. longer[1] = v * t
        BY <2>1, <2>6, <3>2, <3>3
      <3>5. <<>> \in Seq(Nat) /\ Len(<<>>) = 0
        OBVIOUS
      <3>6. SumOf(longer) = v * t + SumOf(<<>>)
        <4>1. PICK x : x = v * t
          OBVIOUS
        <4>2. Len(longer) = Len(<<>>) + 1 /\ \A j \in 1..Len(<<>>) : longer[j + 1] = <<>>[j]
          BY <2>6, <3>2, <3>5
        <4>3. x \in Nat /\ longer[1] = x
          BY <3>3, <3>4, <4>1
        <4>4. SumOf(longer) = x + SumOf(<<>>)
          BY <2>5, <3>5, <4>2, <4>3, SumOfFirst
        <4> QED
          BY <4>1, <4>4
      <3> QED
        BY <2>1, <2>2, <3>3, <3>6, SumOfNone
    <2>8. CASE v >= 128
      <3>1. PICK d, q, rest : d = v % 128 /\ q = v \div 128 /\ rest = Varint(q)
        OBVIOUS
      <3>2. d \in 0..127 /\ q \in 0..(v - 1) /\ v = 128 * q + d
        BY <2>8, <3>1, Digits
      <3>3. rest \in Seq(Byte)
        BY <3>1, <3>2, VarintShape DEF Coded
      <3>4. e = <<d + 128>> \o rest
        BY <2>2, <2>8, <3>1, VarintEquation
      <3>5. PICK l : l = Len(rest) /\ l \in Nat
        BY <3>3
      <3>6. n = l + 1 /\ e[1] = d + 128 /\ \A j \in 1..l : e[j + 1] = rest[j]
        BY <2>4, <3>3, <3>4, <3>5
      <3>7. PICK list : list = Shifted(rest, k + 1)
        OBVIOUS
      <3>8. list \in Seq(Nat)
        BY <1>1, <3>3, <3>7
      <3>9. /\ Len(list) = l
            /\ \A j \in 1..l : list[j] = (rest[j] % 128) * TwoTo[7 * ((k + 1) + j - 1)]
        BY <3>5, <3>7 DEF Shifted
      <3>10. SumOf(list) = q * TwoTo[7 * (k + 1)]
        <4>1. k + 1 \in Nat
          OBVIOUS
        <4> QED
          BY <2>0, <3>1, <3>2, <3>7, <4>1
      <3>11. 7 * (k + 1) = 7 * k + 7 /\ 7 * k \in Nat
        OBVIOUS
      <3>12. SumOf(list) = q * (128 * t)
        BY <2>1, <3>10, <3>11, SevenBits
      <3>13. longer[1] = d * t
        <4>1. (d + 128) % 128 = d /\ 7 * (k + 1 - 1) = 7 * k /\ 1 \in 1..n
          BY <3>2, <3>5, <3>6
        <4> QED
          BY <2>1, <2>6, <3>6, <4>1
      <3>14. \A j \in 1..l : longer[j + 1] = list[j]
        <4> TAKE j \in 1..l
        <4>1. j + 1 \in 1..n /\ k + (j + 1) - 1 = (k + 1) + j - 1
          BY <3>5, <3>6
        <4> QED
          BY <2>6, <3>6, <3>9, <4>1
      <3>15. d * t \in Nat
        BY <2>1, <3>2
      <3>16. SumOf(longer) = d * t + SumOf(list)
        <4>1. PICK x : x = d * t
          OBVIOUS
        <4>2. Len(longer) = Len(list) + 1 /\ \A j \in 1..Len(list) : longer[j + 1] = list[j]
          BY <2>6, <3>6, <3>9, <3>14
        <4>3. x \in Nat /\ longer[1] = x
          BY <3>13, <3>15, <4>1
        <4>4. SumOf(longer) = x + SumOf(list)
          BY <2>5, <3>8, <4>2, <4>3, SumOfFirst
        <4> QED
          BY <4>1, <4>4
      <3>17. d * t + q * (128 * t) = v * t
        BY <2>1, <3>2
      <3> QED
        BY <2>1, <2>2, <3>12, <3>16, <3>17
    <2> QED
      BY <2>7, <2>8
  <1>3. \A v \in Nat : v \in G
    <2> HIDE DEF G
    <2> QED
      BY <1>2, StrongInduction
  <1> QED
    BY <1>3

(* A string that stands in another one, behind its first `p` bytes. *)
At(s, p, e) == p + Len(e) <= Len(s) /\ \A i \in 1..Len(e) : s[p + i] = e[i]

(* A string that another one ends in the middle of. *)
Broken(s, p, e) ==
    /\ p <= Len(s) /\ Len(s) < p + Len(e)
    /\ \A i \in 1..(Len(s) - p) : s[p + i] = e[i]

(* A varint is read as what was written. *)
LEMMA ReadVarintAt ==
    ASSUME NEW s \in Seq(Byte), NEW p \in Nat, NEW v \in Word, At(s, p, Varint(v))
    PROVE  ReadVarint(s, p) = Read(v, p + Len(Varint(v)))
  <1>1. v \in Nat /\ v < TwoTo[WordBits]
    BY WordIsNat
  <1>2. PICK e : e = Varint(v)
    OBVIOUS
  <1>3. Coded(e)
    BY <1>1, <1>2, VarintShape
  <1>4. PICK n : n = Len(e) /\ n \in Nat /\ n > 0
    BY <1>3 DEF Coded
  <1>5. PICK top : top = MaxVarint /\ top \in Nat /\ n <= top
    BY <1>2, <1>4, SovIsLength, MaxVarintFacts
  <1>6. PICK length : length = Len(s) /\ length \in Nat
    OBVIOUS
  <1>7. p + n <= length /\ \A i \in 1..n : s[p + i] = e[i]
    BY <1>2, <1>4, <1>6 DEF At
  <1>8. PICK ends : ends = {k \in 0..(top - 1) : p + k < length /\ s[p + k + 1] < 128}
    OBVIOUS
  <1>9. n - 1 \in ends
    <2>1. e[n] < 128
      BY <1>3, <1>4 DEF Coded
    <2>2. p + (n - 1) + 1 = p + n /\ n - 1 \in 0..(top - 1) /\ p + (n - 1) < length /\ n \in 1..n
      BY <1>4, <1>5, <1>6, <1>7
    <2> QED
      BY <1>7, <1>8, <2>1, <2>2
  <1>10. \A k \in ends : n - 1 <= k
    <2> SUFFICES ASSUME NEW k \in ends, ~ (n - 1 <= k) PROVE FALSE
      OBVIOUS
    <2>0. k \in 0..(top - 1) /\ k < n - 1
      BY <1>4, <1>5, <1>8
    <2>1. k + 1 \in 1..(n - 1) /\ k + 1 \in 1..n /\ p + (k + 1) = p + k + 1
      BY <1>4, <1>5, <2>0
    <2>2. s[p + k + 1] = e[k + 1]
      BY <1>7, <2>1
    <2>3. e[k + 1] >= 128 /\ e[k + 1] \in Int
      <3>1. e[k + 1] \in Byte
        BY <1>3, <1>4, <2>1 DEF Coded
      <3>2. e[k + 1] >= 128
        BY <1>3, <1>4, <2>1 DEF Coded
      <3> QED
        BY <3>1, <3>2, ByteIsInt
    <2>4. s[p + k + 1] < 128
      BY <1>8
    <2> QED
      BY <2>2, <2>3, <2>4
  <1>11. PICK last : last = Min(ends) /\ last \in ends /\ \A k \in ends : last <= k
    <2>1. ends \subseteq Nat /\ ends # {}
      BY <1>5, <1>8, <1>9
    <2> QED
      BY <2>1, MinFacts
  <1>12. last = n - 1
    <2>1. last \in Int /\ n - 1 <= last /\ last <= n - 1
      BY <1>5, <1>8, <1>9, <1>10, <1>11
    <2> QED
      BY <1>4, <2>1
  <1>13. ReadVarint(s, p) = VarintUpTo(s, p, last)
    BY <1>5, <1>6, <1>8, <1>9, <1>11 DEF ReadVarint
  <1>14. PICK shifted : shifted = [j \in 1..(last + 1) |-> (s[p + j] % 128) * TwoTo[7 * (j - 1)]]
    OBVIOUS
  <1>15. shifted = Shifted(e, 0)
    <2>1. last + 1 = n
      BY <1>4, <1>12
    <2>2. \A j \in 1..n : /\ (s[p + j] % 128) * TwoTo[7 * (j - 1)] = (e[j] % 128) * TwoTo[7 * (0 + j - 1)]
      <3> TAKE j \in 1..n
      <3>1. 0 + j - 1 = j - 1 /\ s[p + j] = e[j]
        BY <1>4, <1>7
      <3> QED
        BY <3>1
    <2> QED
      BY <1>4, <1>14, <2>1, <2>2 DEF Shifted
  <1>16. SumOf(shifted) = v * TwoTo[7 * 0]
    BY <1>1, <1>2, <1>4, <1>15, VarintValue
  <1>17. SumOf(shifted) = v
    <2>1. 7 * 0 = 0 /\ TwoTo[0] = 1
      BY TwoToEquation
    <2> QED
      BY <1>1, <1>16, <2>1
  <1>18. v % TwoTo[WordBits] = v
    <2>1. PICK w : w = TwoTo[WordBits] /\ w \in Nat
      BY WordFacts
    <2> QED
      BY <1>1, <2>1
  <1>19. VarintUpTo(s, p, last) = Read(SumOf(shifted) % TwoTo[WordBits], p + last + 1)
    BY <1>14 DEF VarintUpTo
  <1>20. p + last + 1 = p + n
    BY <1>4, <1>12
  <1> QED
    BY <1>2, <1>4, <1>13, <1>17, <1>18, <1>19, <1>20

(* A varint that the string ends in is not read. *)
LEMMA ReadVarintBroken ==
    ASSUME NEW s \in Seq(Byte), NEW p \in Nat, NEW v \in Word, Broken(s, p, Varint(v))
    PROVE  ~ ReadVarint(s, p).ok
  <1>1. PICK e : e = Varint(v)
    OBVIOUS
  <1>2. Coded(e)
    BY <1>1, WordIsNat, VarintShape
  <1>3. PICK n : n = Len(e) /\ n \in Nat /\ n > 0
    BY <1>2 DEF Coded
  <1>4. PICK length : length = Len(s) /\ length \in Nat
    OBVIOUS
  <1>5. p <= length /\ length < p + n /\ \A i \in 1..(length - p) : s[p + i] = e[i]
    BY <1>1, <1>3, <1>4 DEF Broken
  <1>6. PICK top : top = MaxVarint /\ top \in Nat
    BY MaxVarintFacts
  <1>7. PICK ends : ends = {k \in 0..(top - 1) : p + k < length /\ s[p + k + 1] < 128}
    OBVIOUS
  <1>8. ends = {}
    <2> SUFFICES ASSUME NEW k \in 0..(top - 1), k \in ends PROVE FALSE
      BY <1>7
    <2>1. p + k < length /\ s[p + k + 1] < 128
      BY <1>7
    <2>2. k + 1 \in 1..(n - 1) /\ k + 1 \in 1..(length - p) /\ p + (k + 1) = p + k + 1 /\ k + 1 \in 1..n
      BY <1>3, <1>4, <1>5, <1>6, <2>1
    <2>3. s[p + k + 1] = e[k + 1]
      BY <1>5, <2>2
    <2>4. e[k + 1] >= 128 /\ e[k + 1] \in Int
      <3>1. e[k + 1] \in Byte
        BY <1>2, <1>3, <2>2 DEF Coded
      <3>2. e[k + 1] >= 128
        BY <1>2, <1>3, <2>2 DEF Coded
      <3> QED
        BY <3>1, <3>2, ByteIsInt
    <2> QED
      BY <2>1, <2>3, <2>4
  <1>9. ReadVarint(s, p) = Fail(IF p + top <= length THEN "overflow" ELSE "eof")
    BY <1>4, <1>6, <1>7, <1>8 DEF ReadVarint
  <1> QED
    BY <1>9 DEF Fail

(* A string that Go can hold: its length is a signed word. *)
Fits(s) == s \in Seq(Byte) /\ Len(s) < TwoTo[WordBits - 1]

(* Lengths are natural numbers. *)
LEMMA LenIsNat == \A S, s : s \in Seq(S) => Len(s) \in Nat
  OBVIOUS

(* Two strings, one behind the other. *)
LEMMA JoinFacts ==
    ASSUME NEW S, NEW x \in Seq(S), NEW y \in Seq(S)
    PROVE  /\ x \o y \in Seq(S) /\ Len(x \o y) = Len(x) + Len(y)
           /\ \A i \in 1..Len(x) : (x \o y)[i] = x[i]
           /\ \A i \in 1..Len(y) : (x \o y)[Len(x) + i] = y[i]
  OBVIOUS

(* One string behind the other stands where both do. *)
LEMMA AtJoin ==
    ASSUME NEW s, s \in Seq(Byte), NEW p \in Nat, NEW x \in Seq(Byte), NEW y \in Seq(Byte)
    PROVE  At(s, p, x \o y) <=> At(s, p, x) /\ At(s, p + Len(x), y)
  <1>1. PICK m, n, length : m = Len(x) /\ n = Len(y) /\ length = Len(s)
    OBVIOUS
  <1>2. m \in Nat /\ n \in Nat /\ length \in Nat
    BY <1>1
  <1>3. PICK e : e = x \o y
    OBVIOUS
  <1>4. Len(e) = m + n /\ (\A i \in 1..m : e[i] = x[i]) /\ \A i \in 1..n : e[m + i] = y[i]
    BY <1>1, <1>3, JoinFacts
  <1>5. ASSUME At(s, p, e) PROVE At(s, p, x) /\ At(s, p + m, y)
    <2>1. p + (m + n) <= length /\ \A i \in 1..(m + n) : s[p + i] = e[i]
      BY <1>1, <1>4, <1>5 DEF At
    <2>2. \A i \in 1..m : s[p + i] = x[i]
      <3> TAKE i \in 1..m
      <3>1. i \in 1..(m + n)
        BY <1>2
      <3> QED
        BY <1>4, <2>1, <3>1
    <2>3. \A i \in 1..n : s[(p + m) + i] = y[i]
      <3> TAKE i \in 1..n
      <3>1. m + i \in 1..(m + n) /\ p + (m + i) = (p + m) + i
        BY <1>2
      <3>2. s[p + (m + i)] = e[m + i]
        BY <2>1, <3>1
      <3> QED
        BY <1>4, <3>1, <3>2
    <2>4. p + m <= length /\ (p + m) + n <= length
      BY <1>2, <2>1
    <2> QED
      BY <1>1, <2>2, <2>3, <2>4 DEF At
  <1>6. ASSUME At(s, p, x), At(s, p + m, y) PROVE At(s, p, e)
    <2>1. /\ (p + m) + n <= length /\ (\A i \in 1..m : s[p + i] = x[i])
          /\ \A i \in 1..n : s[(p + m) + i] = y[i]
      BY <1>1, <1>6 DEF At
    <2>2. \A i \in 1..(m + n) : s[p + i] = e[i]
      <3> TAKE i \in 1..(m + n)
      <3>1. CASE i <= m
        <4>1. i \in 1..m
          BY <1>2, <3>1
        <4> QED
          BY <1>4, <2>1, <4>1
      <3>2. CASE i > m
        <4>1. PICK j \in 1..n : i = m + j /\ p + i = (p + m) + j
          BY <1>2, <3>2
        <4> QED
          BY <1>4, <2>1, <4>1
      <3> QED
        BY <1>2, <3>1, <3>2
    <2>3. p + (m + n) <= length
      BY <1>2, <2>1
    <2> QED
      BY <1>1, <1>4, <2>2, <2>3 DEF At
  <1> QED
    BY <1>1, <1>3, <1>5, <1>6

(* A string that ends within a join ends within one of its parts. *)
LEMMA BrokenJoin ==
    ASSUME NEW s, s \in Seq(Byte), NEW p \in Nat, NEW x \in Seq(Byte), NEW y \in Seq(Byte),
           Broken(s, p, x \o y)
    PROVE  Broken(s, p, x) \/ (At(s, p, x) /\ Broken(s, p + Len(x), y))
  <1>1. PICK m, n, length : m = Len(x) /\ n = Len(y) /\ length = Len(s)
    OBVIOUS
  <1>2. m \in Nat /\ n \in Nat /\ length \in Nat
    BY <1>1
  <1>3. PICK e : e = x \o y
    OBVIOUS
  <1>4. Len(e) = m + n /\ (\A i \in 1..m : e[i] = x[i]) /\ \A i \in 1..n : e[m + i] = y[i]
    BY <1>1, <1>3, JoinFacts
  <1>5. p <= length /\ length < p + (m + n) /\ \A i \in 1..(length - p) : s[p + i] = e[i]
    BY <1>1, <1>3, <1>4 DEF Broken
  <1>6. CASE length < p + m
    <2>1. \A i \in 1..(length - p) : s[p + i] = x[i]
      <3> TAKE i \in 1..(length - p)
      <3>1. i \in 1..m
        BY <1>2, <1>6
      <3> QED
        BY <1>4, <1>5, <3>1
    <2> QED
      BY <1>1, <1>5, <1>6, <2>1 DEF Broken
  <1>7. CASE ~ (length < p + m)
    <2>1. p + m <= length /\ length < (p + m) + n
      BY <1>2, <1>5, <1>7
    <2>2. \A i \in 1..m : s[p + i] = x[i]
      <3> TAKE i \in 1..m
      <3>1. i \in 1..(length - p)
        BY <1>2, <2>1
      <3> QED
        BY <1>4, <1>5, <3>1
    <2>3. \A i \in 1..(length - (p + m)) : s[(p + m) + i] = y[i]
      <3> TAKE i \in 1..(length - (p + m))
      <3>1. m + i \in 1..(length - p) /\ i \in 1..n /\ p + (m + i) = (p + m) + i
        BY <1>2, <2>1
      <3>2. s[p + (m + i)] = e[m + i]
        BY <1>5, <3>1
      <3> QED
        BY <1>4, <3>1, <3>2
    <2> QED
      BY <1>1, <2>1, <2>2, <2>3 DEF At, Broken
  <1> QED
    BY <1>6, <1>7

(* What stands in a string is a part of it. *)
LEMMA AtSlice ==
    ASSUME NEW s, s \in Seq(Byte), NEW p \in Nat, NEW c \in Seq(Byte), At(s, p, c)
    PROVE  SubSeq(s, p + 1, p + Len(c)) = c
  <1>1. PICK n, length : n = Len(c) /\ length = Len(s)
    OBVIOUS
  <1>0. n \in Nat /\ length \in Nat
    BY <1>1
  <1>2. p + n <= length /\ \A i \in 1..n : s[p + i] = c[i]
    BY <1>1 DEF At
  <1>3. /\ p + 1 \in Nat \ {0} /\ p + n \in Nat /\ p + 1 <= (p + n) + 1 /\ (p + n) - (p + 1) + 1 = n
    BY <1>0
  <1>4. PICK d : d = SubSeq(s, p + 1, p + n)
    OBVIOUS
  <1>5. d \in Seq(Byte) /\ Len(d) = n /\ \A i \in 1..n : d[i] = s[(p + 1) + i - 1]
    BY <1>0, <1>1, <1>2, <1>3, <1>4, SliceFacts
  <1>6. \A i \in 1..n : d[i] = c[i]
    <2> TAKE i \in 1..n
    <2>1. (p + 1) + i - 1 = p + i
      BY <1>0
    <2> QED
      BY <1>2, <1>5, <2>1
  <1> QED
    BY <1>1, <1>4, <1>5, <1>6, SeqEqual

(* A number below half the range is its own two's complement. *)
LEMMA SignedSmall ==
    ASSUME NEW bits \in Nat, bits > 0, NEW v \in Nat, v < TwoTo[bits - 1]
    PROVE  Signed(v, bits) = v
  <1>1. bits - 1 \in Nat /\ (bits - 1) + 1 = bits
    OBVIOUS
  <1>2. PICK h : h = TwoTo[bits - 1] /\ h \in Nat
    BY <1>1, TwoToPositive
  <1>3. TwoTo[bits] = 2 * h
    BY <1>1, <1>2, TwoToEquation
  <1>4. v % (2 * h) = v
    BY <1>2
  <1> QED
    BY <1>2, <1>3, <1>4 DEF Signed

(* A number below half the range of words is a word and its own sign. *)
LEMMA HalfWord ==
    ASSUME NEW v \in Nat, v < TwoTo[WordBits - 1]
    PROVE  v \in Word /\ Signed(v, WordBits) = v
  <1>1. PICK h : h = TwoTo[WordBits - 1] /\ h \in Nat /\ TwoTo[WordBits] = 2 * h
    BY WordFacts
  <1>2. v \in 0..(2 * h - 1)
    BY <1>1
  <1>3. WordBits \in Nat /\ WordBits > 0
    BY WidthAssumption
  <1> QED
    BY <1>1, <1>2, <1>3, SignedSmall DEF Word

(* A length and its content. *)
Measured(c) == Varint(Len(c)) \o c

(* The shape of a length and its content. *)
LEMMA MeasuredFacts ==
    ASSUME NEW c, Fits(c)
    PROVE  /\ Len(c) \in Nat /\ Len(c) \in Word /\ Signed(Len(c), WordBits) = Len(c)
           /\ Varint(Len(c)) \in Seq(Byte) /\ Len(Varint(Len(c))) \in Nat
           /\ Len(Varint(Len(c))) > 0
           /\ Measured(c) \in Seq(Byte) /\ Len(Measured(c)) = Len(Varint(Len(c))) + Len(c)
  <1>1. c \in Seq(Byte) /\ Len(c) \in Nat /\ Len(c) < TwoTo[WordBits - 1]
    BY LenIsNat DEF Fits
  <1>2. PICK e : e = Varint(Len(c))
    OBVIOUS
  <1>3. e \in Seq(Byte) /\ Len(e) > 0 /\ Len(e) \in Nat
    BY <1>1, <1>2, VarintShape, LenIsNat DEF Coded
  <1>4. e \o c \in Seq(Byte) /\ Len(e \o c) = Len(e) + Len(c)
    BY <1>1, <1>3, JoinFacts
  <1> QED
    BY <1>1, <1>2, <1>3, <1>4, HalfWord DEF Measured

(* A length and its content are read as the content. *)
LEMMA ReadLengthAt ==
    ASSUME NEW s, Fits(s), NEW p \in Nat, NEW c, Fits(c), At(s, p, Measured(c))
    PROVE  ReadLength(s, p) = Read(c, p + Len(Measured(c)))
  <1>1. PICK n, e, m, length : n = Len(c) /\ e = Varint(n) /\ m = Len(e) /\ length = Len(s)
    OBVIOUS
  <1>2. /\ n \in Nat /\ n \in Word /\ Signed(n, WordBits) = n
        /\ e \in Seq(Byte) /\ m \in Nat /\ m > 0 /\ Len(Measured(c)) = m + n
    BY <1>1, MeasuredFacts
  <1>3. s \in Seq(Byte) /\ c \in Seq(Byte) /\ length \in Nat /\ length < TwoTo[WordBits - 1]
    BY <1>1, LenIsNat DEF Fits
  <1>4. At(s, p, e) /\ At(s, p + m, c)
    BY <1>1, <1>2, <1>3, AtJoin DEF Measured
  <1>5. ReadVarint(s, p) = Read(n, p + m)
    BY <1>1, <1>2, <1>3, <1>4, ReadVarintAt
  <1>6. PICK half : half = TwoTo[WordBits - 1] /\ half \in Nat
    BY WordFacts
  <1>7. (p + m) + n <= length
    BY <1>1, <1>4 DEF At
  <1>8. (p + m) + n \in Nat /\ (p + m) + n < half /\ (p + m) + n = p + (m + n)
    BY <1>2, <1>3, <1>6, <1>7
  <1>9. Signed((p + m) + n, WordBits) = (p + m) + n
    BY <1>6, <1>8, HalfWord
  <1>10. Advance(p + m, n) = Read(n, (p + m) + n)
    BY <1>2, <1>8, <1>9 DEF Advance
  <1>11. SubSeq(s, (p + m) + 1, (p + m) + n) = c
    <2>1. p + m \in Nat
      BY <1>2
    <2> QED
      BY <1>1, <1>3, <1>4, <2>1, AtSlice
  <1>12. ~ ((p + m) + n > length)
    BY <1>2, <1>3, <1>7
  <1>13. ReadLength(s, p) =
            IF (p + m) + n > length THEN Fail("eof")
            ELSE Read(SubSeq(s, (p + m) + 1, (p + m) + n), (p + m) + n)
    <2>1. PICK r, behind : r = ReadVarint(s, p) /\ behind = Advance(r.next, Signed(r.value, WordBits))
      OBVIOUS
    <2>2. r.ok = TRUE /\ r.next = p + m /\ r.value = n
      BY <1>5, <2>1 DEF Read
    <2>3. behind.ok = TRUE /\ behind.next = (p + m) + n
      BY <1>2, <1>10, <2>1, <2>2 DEF Read
    <2>4. ReadLength(s, p) = IF behind.next > length THEN Fail("eof")
                             ELSE Read(SubSeq(s, r.next + 1, behind.next), behind.next)
      BY <1>1, <2>1, <2>2, <2>3 DEF ReadLength, Then
    <2> QED
      BY <2>2, <2>3, <2>4
  <1> QED
    BY <1>2, <1>8, <1>11, <1>12, <1>13

(* When the string ends within them, they are refused. *)
LEMMA ReadLengthBroken ==
    ASSUME NEW s, Fits(s), NEW p \in Nat, NEW c, Fits(c), Broken(s, p, Measured(c))
    PROVE  ~ ReadLength(s, p).ok
  <1>1. PICK n, e, m, length : n = Len(c) /\ e = Varint(n) /\ m = Len(e) /\ length = Len(s)
    OBVIOUS
  <1>2. /\ n \in Nat /\ n \in Word /\ Signed(n, WordBits) = n
        /\ e \in Seq(Byte) /\ m \in Nat /\ m > 0 /\ Len(Measured(c)) = m + n
    BY <1>1, MeasuredFacts
  <1>3. s \in Seq(Byte) /\ c \in Seq(Byte) /\ length \in Nat
    BY <1>1, LenIsNat DEF Fits
  <1>4. Broken(s, p, e) \/ (At(s, p, e) /\ Broken(s, p + m, c))
    BY <1>1, <1>2, <1>3, BrokenJoin DEF Measured
  <1>5. CASE Broken(s, p, e)
    <2>1. ~ ReadVarint(s, p).ok
      BY <1>1, <1>2, <1>3, <1>5, ReadVarintBroken
    <2>2. ReadLength(s, p) = ReadVarint(s, p)
      BY <2>1 DEF ReadLength, Then
    <2> QED
      BY <2>1, <2>2
  <1>6. CASE At(s, p, e) /\ Broken(s, p + m, c)
    <2>1. ReadVarint(s, p) = Read(n, p + m)
      BY <1>1, <1>2, <1>3, <1>6, ReadVarintAt
    <2>2. length < (p + m) + n
      BY <1>1, <1>6 DEF Broken
    <2>9. PICK r, behind : r = ReadVarint(s, p) /\ behind = Advance(r.next, Signed(r.value, WordBits))
      OBVIOUS
    <2>10. r.ok = TRUE /\ r.next = p + m /\ r.value = n
      BY <2>1, <2>9 DEF Read
    <2>3. behind = Advance(p + m, n)
      BY <1>2, <2>9, <2>10
    <2>4. ReadLength(s, p) =
             IF behind.ok
             THEN IF behind.next > length THEN Fail("eof")
                  ELSE Read(SubSeq(s, (p + m) + 1, behind.next), behind.next)
             ELSE behind
      <3>1. ReadLength(s, p) =
               IF behind.ok
               THEN IF behind.next > length THEN Fail("eof")
                    ELSE Read(SubSeq(s, r.next + 1, behind.next), behind.next)
               ELSE behind
        BY <1>1, <2>9, <2>10 DEF ReadLength, Then
      <3> QED
        BY <2>10, <3>1
    <2>5. behind.ok => behind.next = (p + m) + n
      <3>1. p + m \in Nat /\ n \in Int
        BY <1>2
      <3> QED
        BY <2>3, <3>1, AdvanceFacts
    <2>6. CASE behind.ok
      <3>1. behind.next > length
        BY <1>2, <1>3, <2>2, <2>5, <2>6
      <3>2. ReadLength(s, p) = Fail("eof")
        BY <2>4, <2>6, <3>1
      <3> QED
        BY <3>2 DEF Fail
    <2>7. CASE ~ behind.ok
      BY <2>4, <2>7
    <2> QED
      BY <2>6, <2>7
  <1> QED
    BY <1>4, <1>5, <1>6

-----------------------------------------------------------------------------
(***************************************************************************)
(* One entry of one field.                                                 *)
(***************************************************************************)

(* The words of the code hold a byte's worth and more. *)
LEMMA WordsAreWide == 128 <= TwoTo[HalfBits - 1] /\ 1024 <= TwoTo[WordBits - 1]
  <1>1. TwoTo[0] = 1
    BY TwoToEquation
  <1>2. TwoTo[7] = 128
    <2>1. 0 + 7 = 7
      OBVIOUS
    <2> QED
      BY <1>1, <2>1, SevenBits
  <1>3. /\ TwoTo[7 + 1] = 2 * TwoTo[7] /\ TwoTo[8 + 1] = 2 * TwoTo[8]
        /\ TwoTo[9 + 1] = 2 * TwoTo[9]
    BY TwoToEquation
  <1>4. TwoTo[10] = 1024
    BY <1>2, <1>3
  <1>5. HalfBits - 1 \in Nat /\ 7 <= HalfBits - 1 /\ WordBits - 1 \in Nat /\ 10 <= WordBits - 1
    BY WidthAssumption
  <1>6. TwoTo[7] <= TwoTo[HalfBits - 1] /\ TwoTo[10] <= TwoTo[WordBits - 1]
    BY <1>5, TwoToGrows
  <1> QED
    BY <1>2, <1>4, <1>6

(* A number of seven bits is one byte. *)
LEMMA SmallVarint ==
    ASSUME NEW v \in 0..127
    PROVE  Varint(v) = <<v>> /\ v \in Word /\ v \in Half /\ <<v>> \in Seq(Byte) /\ Len(<<v>>) = 1
  <1>1. v \in Nat /\ v < 128 /\ v \in Byte
    BY DEF Byte
  <1>2. PICK h : h = TwoTo[WordBits - 1] /\ h \in Nat /\ 1024 <= h
    BY WordsAreWide, WordFacts
  <1>3. PICK k : k = TwoTo[HalfBits - 1] /\ k \in Nat /\ 128 <= k /\ TwoTo[HalfBits] = 2 * k
    BY WordsAreWide, WordFacts
  <1>4. v \in Word
    BY <1>1, <1>2, HalfWord
  <1>5. v \in Half
    BY <1>1, <1>3 DEF Half
  <1>6. <<v>> \in Seq(Byte) /\ Len(<<v>>) = 1
    BY <1>1
  <1>7. Varint(v) = <<v>>
    BY <1>1, VarintEquation
  <1> QED
    BY <1>4, <1>5, <1>6, <1>7

(* A tag: a field number and a wire type. *)
LEMMA TagFacts ==
    ASSUME NEW num \in 1..15, NEW type \in 0..7, NEW tag, tag = 8 * num + type
    PROVE  /\ tag \in 0..127 /\ tag % 8 = type /\ tag \div 8 = num
           /\ Signed(tag \div 8, HalfBits) = num
  <1>1. tag \in 0..127 /\ tag % 8 = type /\ tag \div 8 = num
    OBVIOUS
  <1>2. PICK k : k = TwoTo[HalfBits - 1] /\ k \in Nat /\ 128 <= k
    BY WordsAreWide, WordFacts
  <1>3. num \in Nat /\ num < k /\ HalfBits \in Nat /\ HalfBits > 0
    BY <1>2, WidthAssumption
  <1>4. Signed(num, HalfBits) = num
    BY <1>2, <1>3, SignedSmall
  <1> QED
    BY <1>1, <1>4

(* The fields of a table have numbers and names of their own. *)
Distinct(table) ==
    /\ Len(table) \in Nat /\ DOMAIN table = 1..Len(table)
    /\ \A i \in DOMAIN table : table[i].num \in 1..14
    /\ \A i, j \in DOMAIN table : table[i].num = table[j].num => i = j
    /\ \A i, j \in DOMAIN table : table[i].name = table[j].name => i = j

(* The loop reads `e`, wherever it stands, and the message x becomes y. *)
Takes(table, e, x, y) ==
    /\ e \in Seq(Byte) /\ Len(e) > 0
    /\ \A s, p : Fits(s) /\ p \in Nat /\ At(s, p, e)
                    => ReadField(table, s, p, x) = Read(y, p + Len(e))

(* The loop refuses a part of `e` that the string ends with. *)
Refuses(table, e) ==
    \A s, p, x : Fits(s) /\ p \in Nat /\ p < Len(s) /\ Broken(s, p, e)
                    => ~ ReadField(table, s, p, x).ok

(* The same of what follows the tag. *)
ValueTakes(field, type, rest, old, new) ==
    /\ rest \in Seq(Byte)
    /\ \A s, p : Fits(s) /\ p \in Nat /\ At(s, p, rest)
                    => ReadValue(field, old, s, type, p) = Read(new, p + Len(rest))

(* The bytes behind a tag, when the string ends in them. *)
ValueRefuses(field, type, rest) ==
    /\ rest \in Seq(Byte)
    /\ \A s, p, old : Fits(s) /\ p \in Nat /\ Broken(s, p, rest)
                    => ~ ReadValue(field, old, s, type, p).ok

(* What a turn makes of a value that was read. *)
Puts(turn, x, name, r) == turn = IF r.ok THEN Read([x EXCEPT ![name] = r.value], r.next) ELSE r

(* The turn of the loop, at a tag of a field of the table. *)
LEMMA FieldTurn ==
    ASSUME NEW table, Distinct(table), NEW i \in DOMAIN table, NEW type \in {0, 2},
           NEW v, v = 8 * table[i].num + type, NEW b, b = <<v>>,
           NEW s \in Seq(Byte), NEW p \in Nat, At(s, p, b), NEW x, NEW r,
           r = ReadValue(table[i], x[table[i].name], s, type, p + 1)
    PROVE  Puts(ReadField(table, s, p, x), x, table[i].name, r)
  <1>1. PICK num : num = table[i].num
    OBVIOUS
  <1>2. num \in 1..14 /\ num \in 1..15 /\ type \in 0..7
    BY <1>1 DEF Distinct
  <1>3. v \in 0..127 /\ v % 8 = type /\ Signed(v \div 8, HalfBits) = num
    <2>1. v = 8 * num + type
      BY <1>1
    <2> QED
      BY <1>2, <2>1, TagFacts
  <1>4. Varint(v) = <<v>> /\ v \in Word /\ Len(<<v>>) = 1
    BY <1>3, SmallVarint
  <1>5. ReadVarint(s, p) = Read(v, p + 1)
    BY <1>1, <1>4, ReadVarintAt
  <1>6. PICK tag : tag = ReadVarint(s, p)
    OBVIOUS
  <1>7. tag.ok = TRUE /\ tag.value = v /\ tag.next = p + 1
    BY <1>5, <1>6 DEF Read
  <1>8. PICK number, known :
            /\ number = Signed(tag.value \div 8, HalfBits)
            /\ known = {j \in DOMAIN table : table[j].num = number}
    OBVIOUS
  <1>9. number = num /\ known = {i}
    <2>1. number = num
      BY <1>3, <1>7, <1>8
    <2> QED
      BY <1>1, <1>8, <2>1 DEF Distinct
  <1>10. PICK field : field = table[CHOOSE j \in known : TRUE]
    OBVIOUS
  <1>11. field = table[i]
    BY <1>9, <1>10
  <1>12. PICK read, behind : /\ read = ReadValue(field, x[field.name], s, tag.value % 8, tag.next)
                             /\ behind = SkipUnknown(s, p)
    OBVIOUS
  <1>13. ReadField(table, s, p, x) = ReadFieldBy(ReadValue, table, s, p, x)
    BY DEF ReadField
  <1>14. ReadField(table, s, p, x) =
            IF tag.ok
            THEN IF tag.value % 8 = 4 THEN Fail("group")
                 ELSE IF number <= 0 THEN Fail("tag")
                 ELSE IF known = {} THEN IF behind.ok THEN Read(x, behind.next) ELSE behind
                 ELSE IF read.ok THEN Read([x EXCEPT ![field.name] = read.value], read.next)
                 ELSE read
            ELSE tag
    BY <1>6, <1>8, <1>10, <1>12, <1>13 DEF ReadFieldBy, Then
  <1>15. read = r
    BY <1>3, <1>7, <1>11, <1>12
  <1>16. tag.value % 8 # 4 /\ ~ (number <= 0) /\ known # {}
    BY <1>2, <1>3, <1>7, <1>9
  <1> QED
    BY <1>7, <1>11, <1>14, <1>15, <1>16 DEF Puts

(* An offset behind a tag of one byte. *)
LEMMA PastOne ==
    ASSUME NEW p \in Nat, NEW k \in Nat
    PROVE  p + 1 \in Nat /\ (p + 1) + k = p + (1 + k)
  OBVIOUS

(* An entry is read as its value, in the field of its number. *)
LEMMA EntryTakes ==
    ASSUME NEW table, Distinct(table), NEW i \in DOMAIN table, NEW type \in {0, 2},
           NEW x, NEW rest, NEW new, ValueTakes(table[i], type, rest, x[table[i].name], new),
           NEW e, e = <<8 * table[i].num + type>> \o rest
    PROVE  Takes(table, e, x, [x EXCEPT ![table[i].name] = new])
  <1>1. PICK v, b : v = 8 * table[i].num + type /\ b = <<v>>
    OBVIOUS
  <1>2. b \in Seq(Byte) /\ Len(b) = 1
    <2>1. table[i].num \in 1..15 /\ type \in 0..7
      BY DEF Distinct
    <2>2. v \in 0..127
      BY <1>1, <2>1, TagFacts
    <2> QED
      BY <1>1, <2>2, SmallVarint
  <1>3. rest \in Seq(Byte) /\ Len(rest) \in Nat
    BY LenIsNat DEF ValueTakes
  <1>4. e \in Seq(Byte) /\ Len(e) = 1 + Len(rest)
    BY <1>1, <1>2, <1>3, JoinFacts
  <1>5. Len(e) > 0
    BY <1>3, <1>4
  <1>6. ASSUME NEW s, NEW p, Fits(s), p \in Nat, At(s, p, e)
        PROVE  ReadField(table, s, p, x) = Read([x EXCEPT ![table[i].name] = new], p + Len(e))
    <2>1. s \in Seq(Byte)
      BY <1>6 DEF Fits
    <2>2. At(s, p, b) /\ At(s, p + 1, rest)
      <3>1. At(s, p, b \o rest)
        BY <1>1, <1>6
      <3>2. At(s, p, b) /\ At(s, p + Len(b), rest)
        BY <1>2, <1>3, <1>6, <2>1, <3>1, AtJoin
      <3> QED
        BY <1>2, <3>2
    <2>3. PICK r : r = ReadValue(table[i], x[table[i].name], s, type, p + 1)
      OBVIOUS
    <2>4. p + 1 \in Nat /\ (p + 1) + Len(rest) = p + Len(e)
      <3>1. p \in Nat /\ Len(rest) \in Nat /\ Len(e) = 1 + Len(rest)
        BY <1>3, <1>4, <1>6
      <3>2. p + 1 \in Nat /\ (p + 1) + Len(rest) = p + (1 + Len(rest))
        BY <3>1, PastOne
      <3> QED
        BY <3>1, <3>2
    <2>5. r = Read(new, p + Len(e))
      BY <1>6, <2>2, <2>3, <2>4 DEF ValueTakes
    <2>6. Puts(ReadField(table, s, p, x), x, table[i].name, r)
      <3>1. p \in Nat /\ At(s, p, b)
        BY <1>6, <2>2
      <3> QED
        BY <1>1, <2>1, <2>3, <3>1, FieldTurn
    <2>7. r.ok = TRUE /\ r.value = new /\ r.next = p + Len(e)
      BY <2>5 DEF Read
    <2> QED
      BY <2>6, <2>7 DEF Puts
  <1> QED
    BY <1>4, <1>5, <1>6 DEF Takes

(* An entry that the string ends in is refused. *)
LEMMA EntryRefuses ==
    ASSUME NEW table, Distinct(table), NEW i \in DOMAIN table, NEW type \in {0, 2},
           NEW rest, ValueRefuses(table[i], type, rest),
           NEW e, e = <<8 * table[i].num + type>> \o rest
    PROVE  Refuses(table, e)
  <1>1. PICK v, b : v = 8 * table[i].num + type /\ b = <<v>>
    OBVIOUS
  <1>2. b \in Seq(Byte) /\ Len(b) = 1
    <2>1. table[i].num \in 1..15 /\ type \in 0..7
      BY DEF Distinct
    <2>2. v \in 0..127
      BY <1>1, <2>1, TagFacts
    <2> QED
      BY <1>1, <2>2, SmallVarint
  <1>3. rest \in Seq(Byte)
    BY DEF ValueRefuses
  <1>4. ASSUME NEW s, NEW p, NEW x, Fits(s), p \in Nat, p < Len(s), Broken(s, p, e)
        PROVE  ~ ReadField(table, s, p, x).ok
    <2>1. s \in Seq(Byte) /\ Len(s) \in Nat
      BY <1>4, LenIsNat DEF Fits
    <2>2. ~ Broken(s, p, b)
      BY <1>2, <1>4, <2>1 DEF Broken
    <2>3. At(s, p, b) /\ Broken(s, p + 1, rest)
      BY <1>1, <1>2, <1>3, <1>4, <2>1, <2>2, BrokenJoin
    <2>4. PICK r : r = ReadValue(table[i], x[table[i].name], s, type, p + 1)
      OBVIOUS
    <2>5. p + 1 \in Nat
      BY <1>4
    <2>6. ~ r.ok
      BY <1>4, <2>3, <2>4, <2>5 DEF ValueRefuses
    <2>7. Puts(ReadField(table, s, p, x), x, table[i].name, r)
      <3>1. p \in Nat /\ At(s, p, b) /\ s \in Seq(Byte)
        BY <1>4, <2>1, <2>3
      <3> QED
        BY <1>1, <2>4, <3>1, FieldTurn
    <2> QED
      BY <2>6, <2>7 DEF Puts
  <1> QED
    BY <1>4 DEF Refuses

-----------------------------------------------------------------------------
(***************************************************************************)
(* Joined strings.                                                         *)
(***************************************************************************)

(* Joins of equal prefixes are equal. *)
LEMMA JoinsAgree ==
    ASSUME NEW S, NEW a \in Seq(Seq(S)), NEW b \in Seq(Seq(S)), NEW f, NEW g,
           IsJoin(f, S, a), IsJoin(g, S, b), NEW n \in Nat, n <= Len(a), n <= Len(b),
           \A k \in 1..n : a[k] = b[k]
    PROVE  f[n] = g[n]
  <1> DEFINE G == {k \in Nat : k <= n => f[k] = g[k]}
  <1>1. 0 \in G
    BY DEF IsJoin
  <1>2. ASSUME NEW k \in 1..n, k - 1 \in G PROVE k \in G
    <2>1. Len(a) \in Nat /\ Len(b) \in Nat
      OBVIOUS
    <2>2. k \in 1..Len(a) /\ k \in 1..Len(b) /\ k - 1 <= n
      BY <2>1
    <2>3. f[k] = f[k - 1] \o a[k] /\ g[k] = g[k - 1] \o b[k]
      BY <2>2 DEF IsJoin
    <2>4. a[k] = b[k] /\ f[k - 1] = g[k - 1]
      BY <1>2, <2>2
    <2>5. k \in Nat
      OBVIOUS
    <2> QED
      BY <2>3, <2>4, <2>5
  <1> HIDE DEF G
  <1>3. n \in G
    <2>1. n \in 0..n
      OBVIOUS
    <2> QED
      BY <1>1, <1>2, <2>1, BoundedInduction
  <1> QED
    BY <1>3 DEF G

(* Strings joined are a string. *)
LEMMA FlattenIsSeq ==
    ASSUME NEW S, NEW list \in Seq(Seq(S))
    PROVE  FlattenSeq(list) \in Seq(S)
  <1>1. PICK join : IsJoin(join, S, list) /\ FlattenSeq(list) = join[Len(list)]
    BY JoinExists
  <1>2. Len(list) \in 0..Len(list)
    BY LenIsNat
  <1> QED
    BY <1>1, <1>2 DEF IsJoin

(* Nothing joined is nothing. *)
LEMMA FlattenNone == FlattenSeq(<<>>) = <<>>
  BY DEF FlattenSeq

(* The beginning of a list is joined to the beginning. *)
LEMMA FlattenPrefix ==
    ASSUME NEW S, NEW list \in Seq(Seq(S)), NEW join, IsJoin(join, S, list),
           NEW n \in 0..Len(list)
    PROVE  FlattenSeq(SubSeq(list, 1, n)) = join[n]
  <1>1. Len(list) \in Nat /\ n \in Nat /\ n <= Len(list)
    BY LenIsNat
  <1>2. PICK part : part = SubSeq(list, 1, n)
    OBVIOUS
  <1>3. /\ part \in Seq(Seq(S)) /\ Len(part) = n
        /\ \A i \in 1..n : part[i] = list[i]
    <2>1. n - 1 + 1 = n /\ 1 \in Nat \ {0} /\ 1 <= n + 1
      BY <1>1
    <2>2. \A i \in 1..n : 1 + i - 1 = i
      BY <1>1
    <2> QED
      BY <1>1, <1>2, <2>1, <2>2, SliceFacts
  <1>4. PICK f : IsJoin(f, S, part) /\ FlattenSeq(part) = f[Len(part)]
    BY <1>3, JoinExists
  <1>5. f[n] = join[n]
    BY <1>1, <1>3, <1>4, JoinsAgree
  <1> QED
    BY <1>2, <1>3, <1>4, <1>5

(* Two lists of strings, one behind the other. *)
LEMMA FlattenJoin ==
    ASSUME NEW S, NEW a \in Seq(Seq(S)), NEW b \in Seq(Seq(S))
    PROVE  FlattenSeq(a \o b) = FlattenSeq(a) \o FlattenSeq(b)
  <1>1. PICK m, n, c : m = Len(a) /\ n = Len(b) /\ c = a \o b
    OBVIOUS
  <1>2. m \in Nat /\ n \in Nat
    BY <1>1
  <1>3. /\ c \in Seq(Seq(S)) /\ Len(c) = m + n
        /\ \A i \in 1..m : c[i] = a[i]
        /\ \A i \in 1..n : c[m + i] = b[i]
    BY <1>1, JoinFacts
  <1>4. PICK f : IsJoin(f, S, a) /\ FlattenSeq(a) = f[m]
    BY <1>1, JoinExists
  <1>5. PICK g : IsJoin(g, S, b) /\ FlattenSeq(b) = g[n]
    BY <1>1, JoinExists
  <1>6. PICK h : IsJoin(h, S, c) /\ FlattenSeq(c) = h[m + n]
    BY <1>3, JoinExists
  <1>7. h[m] = f[m]
    <2>1. m <= Len(a) /\ m <= Len(c) /\ \A k \in 1..m : a[k] = c[k]
      BY <1>1, <1>2, <1>3
    <2>2. c \in Seq(Seq(S)) /\ IsJoin(h, S, c) /\ IsJoin(f, S, a) /\ m \in Nat
      BY <1>2, <1>3, <1>4, <1>6
    <2>3. f[m] = h[m]
      BY <2>1, <2>2, JoinsAgree
    <2> QED
      BY <2>3
  <1>8. f[m] \in Seq(S) /\ \A k \in 0..n : g[k] \in Seq(S)
    <2>1. f \in [0..m -> Seq(S)] /\ g \in [0..n -> Seq(S)] /\ m \in 0..m
      BY <1>1, <1>2, <1>4, <1>5 DEF IsJoin
    <2> QED
      BY <2>1
  <1> DEFINE G == {k \in Nat : k <= n => h[m + k] = f[m] \o g[k]}
  <1>9. 0 \in G
    <2>1. g[0] = <<>> /\ f[m] \o <<>> = f[m] /\ m + 0 = m
      BY <1>2, <1>5, <1>8, ConcatEmptySeq DEF IsJoin
    <2> QED
      BY <1>7, <2>1
  <1>10. ASSUME NEW k \in 1..n, k - 1 \in G PROVE k \in G
    <2>1. m + k \in 1..(m + n) /\ (m + k) - 1 = m + (k - 1) /\ k - 1 <= n /\ k - 1 \in 0..n /\ k \in Nat
      BY <1>2
    <2>2. h[m + k] = h[m + (k - 1)] \o c[m + k]
      BY <1>3, <1>6, <2>1 DEF IsJoin
    <2>3. g[k] = g[k - 1] \o b[k]
      BY <1>1, <1>5 DEF IsJoin
    <2>4. h[m + (k - 1)] = f[m] \o g[k - 1]
      BY <1>10, <2>1
    <2>5. b[k] \in Seq(S) /\ c[m + k] = b[k]
      BY <1>1, <1>3
    <2>6. PICK u, v, w : u = f[m] /\ v = g[k - 1] /\ w = b[k]
      OBVIOUS
    <2>7. u \in Seq(S) /\ v \in Seq(S) /\ w \in Seq(S)
      BY <1>8, <2>1, <2>5, <2>6
    <2>8. (u \o v) \o w = u \o (v \o w)
      BY <2>7, ConcatAssociative
    <2>9. h[m + k] = f[m] \o g[k]
      BY <2>2, <2>3, <2>4, <2>5, <2>6, <2>8
    <2> QED
      BY <2>1, <2>9
  <1> HIDE DEF G
  <1>11. n \in G
    <2>1. \A k \in 0..n : k \in G
      BY <1>2, <1>9, <1>10, BoundedInduction
    <2>2. n \in 0..n
      BY <1>2
    <2> QED
      BY <2>1, <2>2
  <1>12. h[m + n] = f[m] \o g[n]
    <2>1. n <= n
      BY <1>2
    <2> QED
      BY <1>11, <2>1 DEF G
  <1> QED
    BY <1>1, <1>4, <1>5, <1>6, <1>12

(* Where a joined list stands, every string of it stands behind the others. *)
LEMMA JoinAt ==
    ASSUME NEW s \in Seq(Byte), NEW p \in Nat, NEW list \in Seq(Seq(Byte)), NEW join,
           IsJoin(join, Byte, list), At(s, p, join[Len(list)])
    PROVE  /\ \A n \in 0..Len(list) : At(s, p, join[n])
           /\ \A n \in 1..Len(list) : At(s, p + Len(join[n - 1]), list[n])
  <1>1. PICK l : l = Len(list) /\ l \in Nat
    BY LenIsNat
  <1>2. (\A n \in 0..l : join[n] \in Seq(Byte)) /\ \A n \in 1..l : list[n] \in Seq(Byte)
    <2>1. \A n \in 0..l : join[n] \in Seq(Byte)
      BY <1>1 DEF IsJoin
    <2>2. \A n \in 1..l : list[n] \in Seq(Byte)
      BY <1>1
    <2> QED
      BY <2>1, <2>2
  <1>3. \A n \in 1..l : join[n] = join[n - 1] \o list[n]
    BY <1>1 DEF IsJoin
  <1>4. ASSUME NEW n \in 1..l, At(s, p, join[n])
        PROVE  At(s, p, join[n - 1]) /\ At(s, p + Len(join[n - 1]), list[n])
    <2>1. n - 1 \in 0..l
      BY <1>1
    <2>2. PICK x, y : x = join[n - 1] /\ y = list[n]
      OBVIOUS
    <2>3. x \in Seq(Byte) /\ y \in Seq(Byte) /\ At(s, p, x \o y)
      BY <1>2, <1>3, <1>4, <2>1, <2>2
    <2> QED
      BY <2>2, <2>3, AtJoin
  <1> DEFINE G == {k \in Nat : k <= l => At(s, p, join[l - k])}
  <1>5. 0 \in G
    <2>1. l - 0 = l
      BY <1>1
    <2> QED
      BY <1>1, <2>1
  <1>6. ASSUME NEW k \in 1..l, k - 1 \in G PROVE k \in G
    <2>1. l - (k - 1) \in 1..l /\ (l - (k - 1)) - 1 = l - k /\ k - 1 <= l /\ k \in Nat
      BY <1>1
    <2>2. At(s, p, join[l - (k - 1)])
      BY <1>6, <2>1
    <2> QED
      BY <1>4, <2>1, <2>2
  <1> HIDE DEF G
  <1>7. \A k \in 0..l : k \in G
    BY <1>1, <1>5, <1>6, BoundedInduction
  <1>8. \A n \in 0..l : At(s, p, join[n])
    <2> TAKE n \in 0..l
    <2>1. l - n \in 0..l /\ l - (l - n) = n /\ l - n <= l
      BY <1>1
    <2> QED
      BY <1>7, <2>1 DEF G
  <1>9. \A n \in 1..l : n \in 0..l
    BY <1>1
  <1> QED
    BY <1>1, <1>4, <1>8, <1>9

(* Joined strings that are not empty take a byte each. *)
LEMMA JoinGrows ==
    ASSUME NEW list \in Seq(Seq(Byte)), NEW join, IsJoin(join, Byte, list),
           \A i \in 1..Len(list) : Len(list[i]) > 0
    PROVE  \A m, n \in 0..Len(list) : /\ Len(join[m]) \in Nat
                                      /\ m <= n => Len(join[n]) >= Len(join[m]) + (n - m)
  <1>1. PICK l : l = Len(list) /\ l \in Nat
    BY LenIsNat
  <1>2. \A n \in 0..l : join[n] \in Seq(Byte) /\ Len(join[n]) \in Nat
    BY <1>1, LenIsNat DEF IsJoin
  <1>3. ASSUME NEW m \in 0..l PROVE \A n \in 0..l : m <= n => Len(join[n]) >= Len(join[m]) + (n - m)
    <2> DEFINE G == {k \in Nat : m + k <= l => Len(join[m + k]) >= Len(join[m]) + k}
    <2>1. 0 \in G
      <3>1. m + 0 = m /\ Len(join[m]) \in Nat
        BY <1>2
      <3> QED
        BY <3>1
    <2>2. ASSUME NEW k \in 1..l, k - 1 \in G PROVE k \in G
      <3> SUFFICES ASSUME m + k <= l PROVE Len(join[m + k]) >= Len(join[m]) + k
        BY <1>1
      <3>1. m + k \in 1..l /\ m + (k - 1) \in 0..l /\ (m + k) - 1 = m + (k - 1) /\ m + (k - 1) <= l
        BY <1>1
      <3>2. PICK x, y : x = join[m + (k - 1)] /\ y = list[m + k]
        OBVIOUS
      <3>3. join[m + k] = x \o y
        BY <1>1, <3>1, <3>2 DEF IsJoin
      <3>4. x \in Seq(Byte) /\ y \in Seq(Byte) /\ Len(y) > 0 /\ Len(x) \in Nat /\ Len(y) \in Nat
        BY <1>1, <1>2, <3>1, <3>2, LenIsNat
      <3>5. Len(x \o y) = Len(x) + Len(y)
        BY <3>4, JoinFacts
      <3>6. Len(x) >= Len(join[m]) + (k - 1) /\ Len(join[m]) \in Nat
        BY <1>2, <2>2, <3>1, <3>2
      <3>7. Len(x \o y) >= Len(join[m]) + k
        BY <3>4, <3>5, <3>6
      <3> QED
        BY <3>3, <3>7
    <2> HIDE DEF G
    <2>3. \A k \in 0..l : k \in G
      BY <1>1, <2>1, <2>2, BoundedInduction
    <2> TAKE n \in 0..l
    <2> SUFFICES ASSUME m <= n PROVE Len(join[n]) >= Len(join[m]) + (n - m)
      OBVIOUS
    <2>4. n - m \in 0..l /\ m + (n - m) = n
      BY <1>1
    <2> QED
      BY <2>3, <2>4 DEF G
  <1> QED
    BY <1>1, <1>2, <1>3

(* A loop that takes the turns it should, and stays where they end. *)
Follows(h, f, l, n) ==
    /\ l \in Nat /\ n \in Nat /\ l <= n
    /\ h[0] = f[0]
    /\ \A k \in 1..l : h[k - 1] = f[k - 1] => h[k] = f[k]
    /\ \A k \in 1..n : l < k /\ h[k - 1] = f[l] => h[k] = f[l]

(* A loop that follows another one for l turns and then stands still. *)
LEMMA LoopFollows ==
    ASSUME NEW h, NEW f, NEW l, NEW n, Follows(h, f, l, n)
    PROVE  /\ \A k \in 0..l : h[k] = f[k]
           /\ \A k \in 0..n : l <= k => h[k] = f[l]
  <1>0. l \in Nat /\ n \in Nat /\ l <= n
    BY DEF Follows
  <1> DEFINE G == {k \in Nat : IF k <= l THEN h[k] = f[k] ELSE k <= n => h[k] = f[l]}
  <1>1. 0 \in G
    BY <1>0 DEF Follows
  <1>2. ASSUME NEW k \in 1..n, k - 1 \in G PROVE k \in G
    <2>1. CASE k <= l
      <3>1. k \in 1..l /\ k - 1 <= l
        BY <1>0, <2>1
      <3>2. h[k] = f[k]
        BY <1>2, <3>1 DEF Follows
      <3> QED
        BY <2>1, <3>2
    <2>2. CASE k = l + 1
      <3>1. k - 1 = l /\ l < k
        BY <1>0, <2>2
      <3>2. h[k] = f[l]
        BY <1>2, <3>1 DEF Follows
      <3> QED
        BY <3>1, <3>2
    <2>3. CASE k > l + 1
      <3>1. ~ (k - 1 <= l) /\ k - 1 <= n /\ l < k /\ ~ (k <= l) /\ k \in Nat
        BY <1>0, <2>3
      <3>2. h[k - 1] = f[l]
        BY <1>2, <3>1
      <3>3. h[k] = f[l]
        BY <3>1, <3>2 DEF Follows
      <3> QED
        BY <3>1, <3>3
    <2> QED
      BY <1>0, <2>1, <2>2, <2>3
  <1> HIDE DEF G
  <1>3. \A k \in 0..n : k \in G
    BY <1>0, <1>1, <1>2, BoundedInduction
  <1>4. \A k \in 0..n : IF k <= l THEN h[k] = f[k] ELSE h[k] = f[l]
    BY <1>3 DEF G
  <1>5. \A k \in 0..l : k \in 0..n /\ k <= l
    BY <1>0
  <1> QED
    BY <1>0, <1>4, <1>5

-----------------------------------------------------------------------------
(***************************************************************************)
(* The values of an entry.                                                 *)
(***************************************************************************)

(* What stands whole in a string is no longer than it. *)
LEMMA AtFits ==
    ASSUME NEW s, Fits(s), NEW p \in Nat, NEW c \in Seq(Byte), At(s, p, c)
    PROVE  Fits(c)
  <1>1. Len(s) \in Nat /\ Len(c) \in Nat /\ Len(s) < TwoTo[WordBits - 1]
    BY LenIsNat DEF Fits
  <1>2. TwoTo[WordBits - 1] \in Nat
    BY WordFacts
  <1>3. p + Len(c) <= Len(s)
    BY DEF At
  <1> QED
    BY <1>1, <1>2, <1>3 DEF Fits

(* A length and its content are bytes. *)
LEMMA MeasuredIsSeq ==
    ASSUME NEW c \in Seq(Byte)
    PROVE  /\ Varint(Len(c)) \in Seq(Byte) /\ Len(Varint(Len(c))) \in Nat
           /\ Len(Varint(Len(c))) > 0
           /\ Len(c) \in Nat /\ Measured(c) \in Seq(Byte)
           /\ Len(Measured(c)) = Len(Varint(Len(c))) + Len(c)
  <1>1. Len(c) \in Nat
    BY LenIsNat
  <1>2. Coded(Varint(Len(c)))
    BY <1>1, VarintShape
  <1>3. Varint(Len(c)) \in Seq(Byte) /\ Len(Varint(Len(c))) > 0
    BY <1>2 DEF Coded
  <1>4. Len(Varint(Len(c))) \in Nat
    BY <1>3, LenIsNat
  <1> QED
    BY <1>1, <1>3, <1>4, JoinFacts DEF Measured

(* The content of a delimited entry fits where the entry stands. *)
LEMMA AtMeasuredFits ==
    ASSUME NEW s, Fits(s), NEW p \in Nat, NEW c \in Seq(Byte), At(s, p, Measured(c))
    PROVE  Fits(c)
  <1>1. PICK v : v = Varint(Len(c)) /\ v \in Seq(Byte) /\ Len(v) \in Nat
    BY MeasuredIsSeq
  <1>2. At(s, p, v \o c) /\ s \in Seq(Byte)
    BY <1>1 DEF Measured, Fits
  <1>3. At(s, p + Len(v), c)
    BY <1>1, <1>2, AtJoin
  <1>4. p + Len(v) \in Nat
    BY <1>1
  <1> QED
    BY <1>3, <1>4, AtFits

(* Wire type 2 for the types that have it. *)
LengthTypes == {"bytes", "bytesList", "packed", "pointer", "messageList"}

(* What the switch's case makes of a length that was read. *)
LEMMA ReadValueCases ==
    ASSUME NEW field, NEW old, NEW s, NEW p, NEW l, l = ReadLength(s, p),
           NEW r, r = ReadValue(field, old, s, 2, p), field.type \in LengthTypes
    PROVE  /\ ~ l.ok => r = l
           /\ l.ok /\ field.type = "bytes" => r = Read(l.value, l.next)
           /\ l.ok /\ field.type = "bytesList" => r = Read(Append(old, l.value), l.next)
           /\ l.ok /\ field.type = "packed"
                => r = ReadPacked(s, l.next - Len(l.value), l.next, old)
           /\ l.ok /\ field.type \in {"pointer", "messageList"}
                => r = IF Absorb(field, old, l.value).ok
                       THEN Read(Absorb(field, old, l.value).value, l.next)
                       ELSE Absorb(field, old, l.value)
  <1>1. CASE field.type \in {"bytes", "bytesList"}
    <2>1. r = ReadPlain(field, old, s, 2, p)
      BY <1>1 DEF ReadValue
    <2>2. r = IF l.ok THEN Read(IF field.type = "bytes" THEN l.value ELSE Append(old, l.value),
                                l.next)
              ELSE l
      BY <1>1, <2>1 DEF ReadPlain, Then
    <2> QED
      BY <1>1, <2>2
  <1>2. CASE field.type = "packed"
    <2>1. r = ReadPlain(field, old, s, 2, p)
      BY <1>2 DEF ReadValue
    <2>2. r = ReadNumbers(s, 2, p, old)
      BY <1>2, <2>1 DEF ReadPlain
    <2>3. r = IF l.ok THEN ReadPacked(s, l.next - Len(l.value), l.next, old) ELSE l
      BY <2>2 DEF ReadNumbers, Then
    <2> QED
      BY <1>2, <2>3
  <1>3. CASE field.type \in {"pointer", "messageList"}
    <2>1. PICK a : a = Absorb(field, old, l.value)
      OBVIOUS
    <2>2. r = IF l.ok THEN IF a.ok THEN Read(a.value, l.next) ELSE a ELSE l
      BY <1>3, <2>1 DEF ReadValue, Then
    <2> QED
      BY <1>3, <2>1, <2>2
  <1> QED
    BY <1>1, <1>2, <1>3 DEF LengthTypes

(* A delimited entry is a tag, a length and a content. *)
LEMMA DelimitedIs ==
    ASSUME NEW num \in 1..14, NEW c \in Seq(Byte)
    PROVE  Delimited(num, c) = <<8 * num + 2>> \o Measured(c)
  <1>1. PICK v, u, b : v = Varint(Len(c)) /\ u = 8 * num + 2 /\ b = <<u>>
    OBVIOUS
  <1>2. v \in Seq(Byte)
    BY <1>1, MeasuredIsSeq
  <1>3. u \in 0..127
    BY <1>1
  <1>4. b \in Seq(Byte)
    BY <1>1, <1>3, SmallVarint
  <1>5. (b \o v) \o c = b \o (v \o c)
    BY <1>2, <1>4, ConcatAssociative
  <1> QED
    BY <1>1, <1>5 DEF Delimited, Measured

(* A delimited entry is read as what its content is. *)
LEMMA DelimitedTakes ==
    ASSUME NEW table, Distinct(table), NEW i \in DOMAIN table, NEW c \in Seq(Byte), NEW x, NEW new,
           \A s, p : Fits(s) /\ p \in Nat /\ Fits(c) /\ At(s, p, Measured(c))
                => ReadValue(table[i], x[table[i].name], s, 2, p) = Read(new, p + Len(Measured(c)))
    PROVE  Takes(table, Delimited(table[i].num, c), x, [x EXCEPT ![table[i].name] = new])
  <1>1. PICK rest : rest = Measured(c)
    OBVIOUS
  <1>2. rest \in Seq(Byte)
    BY <1>1, MeasuredIsSeq
  <1>3. ASSUME NEW s, NEW p, Fits(s), p \in Nat, At(s, p, rest)
        PROVE  ReadValue(table[i], x[table[i].name], s, 2, p) = Read(new, p + Len(rest))
    <2>1. Fits(c)
      BY <1>1, <1>3, AtMeasuredFits
    <2> QED
      BY <1>1, <1>3, <2>1
  <1>4. ValueTakes(table[i], 2, rest, x[table[i].name], new)
    BY <1>2, <1>3 DEF ValueTakes
  <1>5. PICK e : e = <<8 * table[i].num + 2>> \o rest
    OBVIOUS
  <1>6. e = Delimited(table[i].num, c)
    BY <1>1, <1>5, DelimitedIs DEF Distinct
  <1>7. 2 \in {0, 2}
    OBVIOUS
  <1>8. Takes(table, e, x, [x EXCEPT ![table[i].name] = new])
    BY <1>4, <1>5, <1>7, EntryTakes
  <1> QED
    BY <1>6, <1>8

(* A delimited entry that the string ends in is refused. *)
LEMMA DelimitedRefuses ==
    ASSUME NEW table, Distinct(table), NEW i \in DOMAIN table, NEW c, Fits(c),
           table[i].type \in LengthTypes
    PROVE  Refuses(table, Delimited(table[i].num, c))
  <1>1. PICK rest : rest = Measured(c)
    OBVIOUS
  <1>2. rest \in Seq(Byte) /\ c \in Seq(Byte)
    BY <1>1, MeasuredIsSeq DEF Fits
  <1>3. ASSUME NEW s, NEW p, NEW old, Fits(s), p \in Nat, Broken(s, p, rest)
        PROVE  ~ ReadValue(table[i], old, s, 2, p).ok
    <2>1. PICK l, r : l = ReadLength(s, p) /\ r = ReadValue(table[i], old, s, 2, p)
      OBVIOUS
    <2>2. ~ l.ok
      BY <1>1, <1>3, <2>1, ReadLengthBroken
    <2>3. r = l
      BY <2>1, <2>2, ReadValueCases
    <2> QED
      BY <2>1, <2>2, <2>3
  <1>4. ValueRefuses(table[i], 2, rest)
    BY <1>2, <1>3 DEF ValueRefuses
  <1>5. PICK e : e = <<8 * table[i].num + 2>> \o rest
    OBVIOUS
  <1>6. e = Delimited(table[i].num, c)
    BY <1>1, <1>2, <1>5, DelimitedIs DEF Distinct
  <1>7. 2 \in {0, 2}
    OBVIOUS
  <1>8. Refuses(table, e)
    BY <1>4, <1>5, <1>7, EntryRefuses
  <1> QED
    BY <1>6, <1>8

(* The types of the fields that are one varint. *)
NumberTypes == {"uint64", "uint32", "bool"}

(* Half words are words. *)
LEMMA HalfInWord == Half \subseteq Word
  <1>1. HalfBits \in Nat /\ WordBits \in Nat /\ HalfBits <= WordBits
    BY WidthAssumption
  <1>2. PICK a, b : a = TwoTo[HalfBits] /\ b = TwoTo[WordBits] /\ a \in Nat /\ b \in Nat
    BY WordFacts
  <1>3. a <= b
    BY <1>1, <1>2, TwoToGrows
  <1> QED
    BY <1>2, <1>3 DEF Half, Word

(* A number is its varint, narrowed to the width of the field. *)
LEMMA ReadNumberCases ==
    ASSUME NEW field, NEW old, NEW s, NEW p, NEW n, n = ReadVarint(s, p),
           NEW r, r = ReadValue(field, old, s, 0, p), field.type \in NumberTypes
    PROVE  r = IF n.ok THEN Read(Narrow(n.value, field.type), n.next) ELSE n
  <1>1. r = ReadPlain(field, old, s, 0, p)
    BY DEF ReadValue, NumberTypes
  <1> QED
    BY <1>1 DEF ReadPlain, Then, NumberTypes

(* Varints are bytes, one or more. *)
LEMMA VarintIsSeq ==
    ASSUME NEW v \in Nat
    PROVE  Varint(v) \in Seq(Byte) /\ Len(Varint(v)) \in Nat /\ Len(Varint(v)) > 0
  <1>1. Varint(v) \in Seq(Byte) /\ Len(Varint(v)) > 0
    BY VarintShape DEF Coded
  <1> QED
    BY <1>1, LenIsNat

(* The entry of a number is read as the number, and refused when cut. *)
LEMMA NumberEntry ==
    ASSUME NEW table, Distinct(table), NEW i \in DOMAIN table, table[i].type \in NumberTypes,
           NEW v \in Word, NEW e, e = <<8 * table[i].num>> \o Varint(v), NEW x
    PROVE  /\ Takes(table, e, x, [x EXCEPT ![table[i].name] = Narrow(v, table[i].type)])
           /\ Refuses(table, e)
  <1>1. PICK rest, new : rest = Varint(v) /\ new = Narrow(v, table[i].type)
    OBVIOUS
  <1>2. v \in Nat
    BY WordIsNat
  <1>3. rest \in Seq(Byte)
    BY <1>1, <1>2, VarintIsSeq
  <1>4. ASSUME NEW s, NEW p, Fits(s), p \in Nat, At(s, p, rest)
        PROVE  ReadValue(table[i], x[table[i].name], s, 0, p) = Read(new, p + Len(rest))
    <2>1. s \in Seq(Byte)
      BY <1>4 DEF Fits
    <2>2. ReadVarint(s, p) = Read(v, p + Len(rest))
      BY <1>1, <1>4, <2>1, ReadVarintAt
    <2>3. PICK n, r, old : /\ n = ReadVarint(s, p) /\ old = x[table[i].name]
                           /\ r = ReadValue(table[i], old, s, 0, p)
      OBVIOUS
    <2>4. n.ok = TRUE /\ n.value = v /\ n.next = p + Len(rest)
      BY <2>2, <2>3 DEF Read
    <2>5. r = IF n.ok THEN Read(Narrow(n.value, table[i].type), n.next) ELSE n
      BY <2>3, ReadNumberCases
    <2> QED
      BY <1>1, <2>3, <2>4, <2>5
  <1>5. ASSUME NEW s, NEW p, NEW old, Fits(s), p \in Nat, Broken(s, p, rest)
        PROVE  ~ ReadValue(table[i], old, s, 0, p).ok
    <2>1. s \in Seq(Byte)
      BY <1>5 DEF Fits
    <2>2. PICK n, r : n = ReadVarint(s, p) /\ r = ReadValue(table[i], old, s, 0, p)
      OBVIOUS
    <2>3. ~ n.ok
      BY <1>1, <1>5, <2>1, <2>2, ReadVarintBroken
    <2>4. r = IF n.ok THEN Read(Narrow(n.value, table[i].type), n.next) ELSE n
      BY <2>2, ReadNumberCases
    <2> QED
      BY <2>2, <2>3, <2>4
  <1>6. ValueTakes(table[i], 0, rest, x[table[i].name], new) /\ ValueRefuses(table[i], 0, rest)
    BY <1>3, <1>4, <1>5 DEF ValueTakes, ValueRefuses
  <1>7. e = <<8 * table[i].num + 0>> \o rest
    <2>1. PICK num : num = table[i].num
      OBVIOUS
    <2>2. num \in 1..14
      BY <2>1 DEF Distinct
    <2>3. 8 * num + 0 = 8 * num
      BY <2>2
    <2> QED
      BY <1>1, <2>1, <2>3
  <1>8. 0 \in {0, 2}
    OBVIOUS
  <1>9. Takes(table, e, x, [x EXCEPT ![table[i].name] = new])
    BY <1>6, <1>7, <1>8, EntryTakes
  <1>10. Refuses(table, e)
    BY <1>6, <1>7, <1>8, EntryRefuses
  <1> QED
    BY <1>1, <1>9, <1>10

(* An entry sets a field. *)
Sets(table, i, e, x, new) == Takes(table, e, x, [x EXCEPT ![table[i].name] = new])

(* A byte string sets the field or is appended to it. *)
Adds(field, c, old, new) ==
    \/ field.type = "bytes" /\ new = c
    \/ field.type = "bytesList" /\ new = Append(old, c)

(* The entry of a byte string sets it or appends it to a list. *)
LEMMA BytesEntry ==
    ASSUME NEW table, Distinct(table), NEW i \in DOMAIN table, NEW c \in Seq(Byte), NEW x,
           NEW new, Adds(table[i], c, x[table[i].name], new)
    PROVE  Sets(table, i, Delimited(table[i].num, c), x, new)
  <1>0. /\ table[i].type \in {"bytes", "bytesList"}
        /\ table[i].type = "bytes" => new = c
        /\ table[i].type = "bytesList" => new = Append(x[table[i].name], c)
    BY DEF Adds
  <1>1. ASSUME NEW s, NEW p, Fits(s), p \in Nat, Fits(c), At(s, p, Measured(c))
        PROVE  ReadValue(table[i], x[table[i].name], s, 2, p) = Read(new, p + Len(Measured(c)))
    <2>1. PICK l, old, r : /\ l = ReadLength(s, p) /\ old = x[table[i].name]
                           /\ r = ReadValue(table[i], old, s, 2, p)
      OBVIOUS
    <2>2. l = Read(c, p + Len(Measured(c)))
      BY <1>1, <2>1, ReadLengthAt
    <2>3. l.ok = TRUE /\ l.value = c /\ l.next = p + Len(Measured(c))
      BY <2>2 DEF Read
    <2>4. table[i].type \in LengthTypes
      BY <1>0 DEF LengthTypes
    <2>5. /\ l.ok /\ table[i].type = "bytes" => r = Read(l.value, l.next)
          /\ l.ok /\ table[i].type = "bytesList" => r = Read(Append(old, l.value), l.next)
      BY <2>1, <2>4, ReadValueCases
    <2>6. r = Read(new, l.next)
      BY <1>0, <2>1, <2>3, <2>5
    <2> QED
      BY <2>1, <2>3, <2>6
  <1> QED
    BY <1>1, DelimitedTakes DEF Sets

(* The varints of a packed field. *)
VarintsOf(list) == [k \in DOMAIN list |-> Varint(list[k])]

(* The varints of a list, one for each number. *)
LEMMA VarintsOfFacts ==
    ASSUME NEW list \in Seq(Word)
    PROVE  /\ VarintsOf(list) \in Seq(Seq(Byte)) /\ Len(VarintsOf(list)) = Len(list)
           /\ Len(list) \in Nat
           /\ \A k \in 1..Len(list) : /\ VarintsOf(list)[k] = Varint(list[k])
                                      /\ list[k] \in Word /\ Len(VarintsOf(list)[k]) > 0
  <1>1. PICK l : l = Len(list) /\ l \in Nat /\ DOMAIN list = 1..l
    BY LenIsNat
  <1>2. \A k \in 1..l : list[k] \in Word
    BY <1>1
  <1>3. \A k \in 1..l : Varint(list[k]) \in Seq(Byte) /\ Len(Varint(list[k])) > 0
    BY <1>2, WordIsNat, VarintIsSeq
  <1>4. PICK v : v = VarintsOf(list)
    OBVIOUS
  <1>5. v = [k \in 1..l |-> Varint(list[k])]
    BY <1>1, <1>4 DEF VarintsOf
  <1>6. v \in Seq(Seq(Byte)) /\ Len(v) = l
    BY <1>1, <1>3, <1>5
  <1> QED
    BY <1>1, <1>2, <1>3, <1>4, <1>5, <1>6

(* A list is appended element by element. *)
LEMMA AppendSlice ==
    ASSUME NEW S, NEW old \in Seq(S), NEW list \in Seq(S), NEW k \in 1..Len(list)
    PROVE  Append(old \o SubSeq(list, 1, k - 1), list[k]) = old \o SubSeq(list, 1, k)
  <1>1. PICK l : l = Len(list) /\ l \in Nat /\ k \in 1..l
    BY LenIsNat
  <1>2. PICK a, b : a = SubSeq(list, 1, k - 1) /\ b = SubSeq(list, 1, k)
    OBVIOUS
  <1>3. /\ a \in Seq(S) /\ Len(a) = k - 1
        /\ \A i \in 1..(k - 1) : a[i] = list[i]
    <2>1. 1 \in Nat \ {0} /\ k - 1 \in Nat /\ k - 1 <= l /\ 1 <= (k - 1) + 1 /\ (k - 1) - 1 + 1 = k - 1
      BY <1>1
    <2>2. \A i \in 1..(k - 1) : 1 + i - 1 = i
      BY <1>1
    <2> QED
      BY <1>1, <1>2, <2>1, <2>2, SliceFacts
  <1>4. /\ b \in Seq(S) /\ Len(b) = k
        /\ \A i \in 1..k : b[i] = list[i]
    <2>1. 1 \in Nat \ {0} /\ k \in Nat /\ k <= l /\ 1 <= k + 1 /\ k - 1 + 1 = k
      BY <1>1
    <2>2. \A i \in 1..k : 1 + i - 1 = i
      BY <1>1
    <2> QED
      BY <1>1, <1>2, <2>1, <2>2, SliceFacts
  <1>5. PICK m : m = Len(old) /\ m \in Nat
    BY LenIsNat
  <1>6. list[k] \in S
    BY <1>1
  <1>7. PICK u, v : u = Append(old \o a, list[k]) /\ v = old \o b
    OBVIOUS
  <1>8. /\ u \in Seq(S) /\ Len(u) = m + k
        /\ \A i \in 1..m : u[i] = old[i]
        /\ \A i \in 1..(k - 1) : u[m + i] = a[i]
        /\ u[m + k] = list[k]
    <2>1. PICK oa : oa = old \o a
      OBVIOUS
    <2>2. /\ oa \in Seq(S) /\ Len(oa) = m + (k - 1)
          /\ \A i \in 1..m : oa[i] = old[i]
          /\ \A i \in 1..(k - 1) : oa[m + i] = a[i]
      <3>1. /\ oa \in Seq(S) /\ Len(oa) = Len(old) + Len(a)
            /\ \A i \in 1..Len(old) : oa[i] = old[i]
            /\ \A i \in 1..Len(a) : oa[Len(old) + i] = a[i]
        BY <1>3, <2>1, JoinFacts
      <3>2. Len(old) = m /\ Len(a) = k - 1
        BY <1>3, <1>5
      <3> QED
        BY <3>1, <3>2
    <2>3. u = Append(oa, list[k])
      BY <1>7, <2>1
    <2>4. Len(oa) + 1 = m + k /\ Len(oa) \in Nat
      BY <1>1, <1>5, <2>2
    <2>5. /\ u \in Seq(S) /\ Len(u) = m + k /\ u[m + k] = list[k]
          /\ \A i \in 1..Len(oa) : u[i] = oa[i]
      BY <1>6, <2>2, <2>3, <2>4
    <2>6. \A i \in 1..m : i \in 1..Len(oa)
      BY <1>1, <1>5, <2>2
    <2>7. \A i \in 1..(k - 1) : m + i \in 1..Len(oa)
      BY <1>1, <1>5, <2>2
    <2> QED
      BY <2>2, <2>5, <2>6, <2>7
  <1>9. /\ v \in Seq(S) /\ Len(v) = m + k
        /\ \A i \in 1..m : v[i] = old[i]
        /\ \A i \in 1..k : v[m + i] = b[i]
    <2>1. /\ v \in Seq(S) /\ Len(v) = Len(old) + Len(b)
          /\ \A i \in 1..Len(old) : v[i] = old[i]
          /\ \A i \in 1..Len(b) : v[Len(old) + i] = b[i]
      <3>1. b \in Seq(S) /\ v = old \o b
        BY <1>4, <1>7
      <3> QED
        BY <3>1, JoinFacts
    <2> QED
      BY <1>4, <1>5, <2>1
  <1>10. \A i \in 1..(m + k) : u[i] = v[i]
    <2> TAKE i \in 1..(m + k)
    <2>1. CASE i <= m
      BY <1>5, <1>8, <1>9, <2>1
    <2>2. CASE i = m + k
      <3>1. v[m + k] = b[k] /\ b[k] = list[k]
        BY <1>1, <1>4, <1>9
      <3> QED
        BY <1>8, <2>2, <3>1
    <2>3. CASE m < i /\ i < m + k
      <3>1. i - m \in 1..(k - 1) /\ i - m \in 1..k /\ m + (i - m) = i
        BY <1>1, <1>5, <2>3
      <3>2. u[i] = a[i - m] /\ v[i] = b[i - m] /\ a[i - m] = list[i - m] /\ b[i - m] = list[i - m]
        BY <1>3, <1>4, <1>8, <1>9, <3>1
      <3> QED
        BY <3>2
    <2> QED
      BY <1>1, <1>5, <2>1, <2>2, <2>3
  <1>11. u = v
    BY <1>8, <1>9, <1>10, SeqEqual
  <1> QED
    BY <1>2, <1>7, <1>11

(* Varints in a row are read as the list they were written of. *)
LEMMA PackedReads ==
    ASSUME NEW s, Fits(s), NEW q \in Nat, NEW list \in Seq(Word), NEW old \in Seq(Word),
           NEW c, c = FlattenSeq(VarintsOf(list)), At(s, q, c)
    PROVE  ReadPacked(s, q, q + Len(c), old) = Read(old \o list, q + Len(c))
  <1>1. PICK l, vs : l = Len(list) /\ vs = VarintsOf(list)
    OBVIOUS
  <1>2. /\ vs \in Seq(Seq(Byte)) /\ Len(vs) = l /\ l \in Nat
        /\ \A k \in 1..l : vs[k] = Varint(list[k]) /\ list[k] \in Word /\ Len(vs[k]) > 0
    BY <1>1, VarintsOfFacts
  <1>3. PICK join : IsJoin(join, Byte, vs) /\ c = join[l]
    BY <1>1, <1>2, JoinExists
  <1>4. s \in Seq(Byte)
    BY DEF Fits
  <1>5. /\ \A k \in 0..l : At(s, q, join[k])
        /\ \A k \in 1..l : At(s, q + Len(join[k - 1]), vs[k])
    BY <1>2, <1>3, <1>4, JoinAt
  <1>6. \A i, k \in 0..l : /\ Len(join[i]) \in Nat
                           /\ i <= k => Len(join[k]) >= Len(join[i]) + (k - i)
    BY <1>2, <1>3, JoinGrows
  <1>7. PICK n, post : n = Len(c) /\ post = q + n
    OBVIOUS
  <1>8. n \in Nat /\ l <= n /\ post - q = n
    <2>1. 0 \in 0..l /\ l \in 0..l /\ 0 <= l
      BY <1>2
    <2>2. Len(join[l]) >= Len(join[0]) + (l - 0) /\ Len(join[0]) \in Nat /\ Len(join[l]) \in Nat
      BY <1>6, <2>1
    <2> QED
      BY <1>2, <1>3, <1>7, <2>2
  <1>9. PICK h : /\ IsPacked(h, s, Read(old, q), post, n)
                 /\ ReadPacked(s, q, post, old) = h[n]
    BY <1>8, PackedIsLast
  <1>10. PICK f : f = [k \in 0..l |-> Read(old \o SubSeq(list, 1, k), q + Len(join[k]))]
    OBVIOUS
  <1>11. h[0] = f[0]
    <2>1. SubSeq(list, 1, 0) = <<>> /\ old \o <<>> = old
      <3>1. SubSeq(list, 1, 0) = <<>>
        OBVIOUS
      <3> QED
        BY <3>1, ConcatEmptySeq
    <2>2. join[0] = <<>>
      BY <1>3 DEF IsJoin
    <2>3. Len(join[0]) = 0 /\ q + 0 = q
      BY <2>2
    <2>4. f[0] = Read(old, q)
      <3>1. 0 \in 0..l
        BY <1>2
      <3>2. f[0] = Read(old \o SubSeq(list, 1, 0), q + Len(join[0]))
        BY <1>10, <3>1
      <3> QED
        BY <2>1, <2>3, <3>2
    <2>5. 0 \in 0..n
      BY <1>8
    <2> QED
      BY <1>9, <2>4, <2>5 DEF IsPacked
  <1>12. ASSUME NEW k \in 1..l, h[k - 1] = f[k - 1] PROVE h[k] = f[k]
    <2>1. /\ k \in 0..n /\ k # 0 /\ k - 1 \in 0..l /\ k \in 0..l /\ l \in 0..l
          /\ k - 1 <= l /\ l - (k - 1) > 0
      BY <1>2, <1>8
    <2>2. PICK a : a = h[k - 1]
      OBVIOUS
    <2>3. PICK x, y, z : x = Len(join[k - 1]) /\ y = Len(vs[k]) /\ z = q + x
      OBVIOUS
    <2>4. a.ok = TRUE /\ a.value = old \o SubSeq(list, 1, k - 1) /\ a.next = z
      BY <1>10, <1>12, <2>1, <2>2, <2>3 DEF Read
    <2>5. h[k] = PackedTurn(s, post, a)
      BY <1>9, <2>1, <2>2 DEF IsPacked
    <2>6. x \in Nat /\ z \in Nat /\ z < post
      <3>1. Len(join[l]) >= x + (l - (k - 1)) /\ x \in Nat
        BY <1>6, <2>1, <2>3
      <3>2. n >= x + (l - (k - 1))
        BY <1>3, <1>7, <3>1
      <3>3. x < n
        BY <1>2, <1>8, <3>1, <3>2
      <3> QED
        BY <1>7, <1>8, <2>3, <3>1, <3>3
    <2>7. PICK v : v = ReadVarint(s, z)
      OBVIOUS
    <2>8. v = Read(list[k], z + y)
      <3>1. At(s, z, Varint(list[k])) /\ list[k] \in Word /\ vs[k] = Varint(list[k])
        BY <1>2, <1>5, <2>3
      <3> QED
        BY <1>4, <2>3, <2>6, <2>7, <3>1, ReadVarintAt
    <2>9. v.ok = TRUE /\ v.value = list[k] /\ v.next = z + y
      BY <2>8 DEF Read
    <2>10. ~ (a.next >= post)
      BY <1>7, <1>8, <2>4, <2>6
    <2>11. h[k] = Read(Append(a.value, v.value), v.next)
      BY <2>4, <2>5, <2>7, <2>9, <2>10 DEF PackedTurn
    <2>12. Append(a.value, v.value) = old \o SubSeq(list, 1, k)
      BY <1>1, <2>4, <2>9, AppendSlice
    <2>13. z + y = q + Len(join[k])
      <3>1. PICK ja, vk : ja = join[k - 1] /\ vk = vs[k]
        OBVIOUS
      <3>2. join[k] = ja \o vk
        BY <1>2, <1>3, <3>1 DEF IsJoin
      <3>3. ja \in Seq(Byte) /\ vk \in Seq(Byte)
        <4>1. join \in [0..l -> Seq(Byte)]
          BY <1>2, <1>3 DEF IsJoin
        <4> QED
          BY <1>2, <2>1, <3>1, <4>1
      <3>4. Len(join[k]) = x + y /\ y \in Nat
        BY <2>3, <3>1, <3>2, <3>3, JoinFacts, LenIsNat
      <3>5. z + y = q + (x + y)
        <4>1. z = q + x /\ x \in Nat /\ y \in Nat
          BY <2>3, <2>6, <3>4
        <4> QED
          BY <4>1
      <3> QED
        BY <3>4, <3>5
    <2> QED
      BY <1>10, <2>1, <2>9, <2>11, <2>12, <2>13
  <1>13. f[l] = Read(old \o list, post)
    <2>1. SubSeq(list, 1, l) = list
      BY <1>1
    <2>2. f[l] = Read(old \o SubSeq(list, 1, l), q + Len(join[l]))
      BY <1>2, <1>10
    <2> QED
      BY <1>3, <1>7, <2>1, <2>2
  <1>14. ASSUME NEW k \in 1..n, l < k, h[k - 1] = f[l] PROVE h[k] = f[l]
    <2>1. k \in 0..n /\ k # 0
      BY <1>8
    <2>2. PICK a : a = h[k - 1]
      OBVIOUS
    <2>3. h[k] = PackedTurn(s, post, a)
      BY <1>9, <2>1, <2>2 DEF IsPacked
    <2>4. a.ok = TRUE /\ a.next = post
      BY <1>13, <1>14, <2>2 DEF Read
    <2>5. post >= post
      BY <1>7, <1>8
    <2> QED
      BY <1>14, <2>2, <2>3, <2>4, <2>5 DEF PackedTurn
  <1>15. h[n] = f[l]
    <2>1. \A k \in 0..n : l <= k => h[k] = f[l]
      <3>1. \A k \in 1..l : h[k - 1] = f[k - 1] => h[k] = f[k]
        BY <1>12
      <3>2. \A k \in 1..n : l < k /\ h[k - 1] = f[l] => h[k] = f[l]
        BY <1>14
      <3>3. l \in Nat /\ n \in Nat /\ l <= n
        BY <1>2, <1>8
      <3>4. Follows(h, f, l, n)
        BY <1>11, <3>1, <3>2, <3>3 DEF Follows
      <3> QED
        BY <3>4, LoopFollows
    <2>2. n \in 0..n
      BY <1>8
    <2> QED
      BY <1>8, <2>1, <2>2
  <1> QED
    BY <1>7, <1>9, <1>13, <1>15

-----------------------------------------------------------------------------
(***************************************************************************)
(* The loop over the fields, and what it makes of a list of entries.       *)
(***************************************************************************)

(* One turn of the loop of Unmarshal. *)
LoopTurn(table, s, r) ==
    IF r.ok THEN IF r.next >= Len(s) THEN r ELSE ReadField(table, s, r.next, r.value) ELSE r
(* A function that has the first n turns of the loop. *)
IsLoop(f, table, s, onto, n) ==
    \A k \in 0..n : f[k] = IF k = 0 THEN Read(onto, 0) ELSE LoopTurn(table, s, f[k - 1])

(* There is one for every n. *)
LEMMA LoopExists ==
    ASSUME NEW s, NEW table, NEW onto
    PROVE  \A n \in Nat : \E f : f = [k \in 0..n |-> f[k]] /\ IsLoop(f, table, s, onto, n)
  <1> DEFINE G == {n \in Nat : \E f : f = [k \in 0..n |-> f[k]] /\ IsLoop(f, table, s, onto, n)}
  <1>1. 0 \in G
    <2>1. PICK f : f = [k \in 0..0 |-> Read(onto, 0)]
      OBVIOUS
    <2>2. f = [k \in 0..0 |-> f[k]] /\ IsLoop(f, table, s, onto, 0)
      BY <2>1 DEF IsLoop
    <2> QED
      BY <2>2
  <1>2. ASSUME NEW n \in Nat, n \in G PROVE n + 1 \in G
    <2>1. PICK f : IsLoop(f, table, s, onto, n)
      BY <1>2
    <2>2. PICK g : g = [k \in 0..(n + 1) |->
                           IF k = 0 THEN Read(onto, 0) ELSE LoopTurn(table, s, f[k - 1])]
      OBVIOUS
    <2>3. \A k \in 0..n : g[k] = f[k]
      BY <2>1, <2>2 DEF IsLoop
    <2>4. \A k \in 0..(n + 1) : g[k] = IF k = 0 THEN Read(onto, 0) ELSE LoopTurn(table, s, g[k - 1])
      <3> TAKE k \in 0..(n + 1)
      <3>1. k # 0 => k - 1 \in 0..n
        OBVIOUS
      <3> QED
        BY <2>2, <2>3, <3>1
    <2>5. g = [k \in 0..(n + 1) |-> g[k]] /\ IsLoop(g, table, s, onto, n + 1)
      BY <2>2, <2>4 DEF IsLoop
    <2> QED
      BY <2>5
  <1> HIDE DEF G
  <1>3. \A n \in Nat : n \in G
    BY <1>1, <1>2, NumberInduction
  <1> QED
    BY <1>3 DEF G

(* Unmarshal answers with the first turn at or behind the end. *)
LEMMA LoopIsLast ==
    ASSUME NEW s \in Seq(Byte), NEW table, NEW onto
    PROVE  \E h : /\ IsLoop(h, table, s, onto, Len(s))
                 /\ Unmarshal(table, s, onto)
                        = h[CHOOSE n \in 0..Len(s) : h[n].ok => h[n].next >= Len(s)]
  <1>1. PICK length : length = Len(s) /\ length \in Nat
    OBVIOUS
  <1>2. PICK f : f = [k \in 0..length |-> f[k]] /\ IsLoop(f, table, s, onto, length)
    BY <1>1, LoopExists
  <1>3. \A k \in 0..length : f[k] = IF k = 0 THEN Read(onto, 0) ELSE LoopTurn(table, s, f[k - 1])
    BY <1>2 DEF IsLoop
  <1>4. f = [k \in 0..length |-> IF k = 0 THEN Read(onto, 0) ELSE LoopTurn(table, s, f[k - 1])]
    BY <1>2, <1>3
  <1>5. PICK h : h = CHOOSE f_ : f_ = [k \in 0..Len(s) |->
                        IF k = 0 THEN Read(onto, 0) ELSE LoopTurn(table, s, f_[k - 1])]
    OBVIOUS
  <1>6. h = [k \in 0..length |-> IF k = 0 THEN Read(onto, 0) ELSE LoopTurn(table, s, h[k - 1])]
    BY <1>1, <1>4, <1>5
  <1>7. Unmarshal(table, s, onto) = UnmarshalBy(ReadField, table, s, onto)
    BY DEF Unmarshal
  <1>8. Unmarshal(table, s, onto)
            = h[CHOOSE n \in 0..Len(s) : h[n].ok => h[n].next >= Len(s)]
    BY <1>5, <1>7 DEF UnmarshalBy, Then, LoopTurn
  <1>9. IsLoop(h, table, s, onto, length)
    BY <1>6 DEF IsLoop
  <1> QED
    BY <1>1, <1>8, <1>9

(* Messages without messages inside. *)
PlainTypes == {"bytes", "bytesList", "uint64", "uint32", "bool", "packed"}
(* A table of fields that hold no messages. *)
PlainTable(table) == \A i \in DOMAIN table : table[i].type \in PlainTypes

(* Within such a table, fields are read as in any other. *)
LEMMA ReadPlainFieldIs ==
    ASSUME NEW table, PlainTable(table), NEW s, NEW p, NEW x
    PROVE  ReadPlainField(table, s, p, x) = ReadField(table, s, p, x)
  <1>1. PICK tag, behind : tag = ReadVarint(s, p) /\ behind = SkipUnknown(s, p)
    OBVIOUS
  <1>2. PICK number, known, field :
            /\ number = Signed(tag.value \div 8, HalfBits)
            /\ known = {j \in DOMAIN table : table[j].num = number}
            /\ field = table[CHOOSE j \in known : TRUE]
    OBVIOUS
  <1>3. PICK a, b : /\ a = ReadPlain(field, x[field.name], s, tag.value % 8, tag.next)
                    /\ b = ReadValue(field, x[field.name], s, tag.value % 8, tag.next)
    OBVIOUS
  <1>4. ReadPlainField(table, s, p, x) = ReadFieldBy(ReadPlain, table, s, p, x)
    BY DEF ReadPlainField
  <1>5. ReadField(table, s, p, x) = ReadFieldBy(ReadValue, table, s, p, x)
    BY DEF ReadField
  <1>6. ReadPlainField(table, s, p, x) =
            IF tag.ok
            THEN IF tag.value % 8 = 4 THEN Fail("group")
                 ELSE IF number <= 0 THEN Fail("tag")
                 ELSE IF known = {} THEN IF behind.ok THEN Read(x, behind.next) ELSE behind
                 ELSE IF a.ok THEN Read([x EXCEPT ![field.name] = a.value], a.next)
                 ELSE a
            ELSE tag
    BY <1>1, <1>2, <1>3, <1>4 DEF ReadFieldBy, Then
  <1>7. ReadField(table, s, p, x) =
            IF tag.ok
            THEN IF tag.value % 8 = 4 THEN Fail("group")
                 ELSE IF number <= 0 THEN Fail("tag")
                 ELSE IF known = {} THEN IF behind.ok THEN Read(x, behind.next) ELSE behind
                 ELSE IF b.ok THEN Read([x EXCEPT ![field.name] = b.value], b.next)
                 ELSE b
            ELSE tag
    BY <1>1, <1>2, <1>3, <1>5 DEF ReadFieldBy, Then
  <1>8. known # {} => a = b
    <2> SUFFICES ASSUME known # {} PROVE a = b
      OBVIOUS
    <2>1. PICK j : j = (CHOOSE k \in known : TRUE)
      OBVIOUS
    <2>2. j \in known
      BY <2>1
    <2>3. field = table[j] /\ j \in DOMAIN table
      BY <1>2, <2>1, <2>2
    <2>4. field.type \in PlainTypes
      BY <2>3 DEF PlainTable
    <2>5. field.type \notin {"pointer", "messageList"}
      BY <2>4 DEF PlainTypes
    <2> QED
      BY <1>3, <2>5 DEF ReadValue
  <1>9. CASE known = {}
    <2>1. PICK u, v : u = ReadPlainField(table, s, p, x) /\ v = ReadField(table, s, p, x)
      OBVIOUS
    <2>2. u = IF tag.ok
              THEN IF tag.value % 8 = 4 THEN Fail("group")
                   ELSE IF number <= 0 THEN Fail("tag")
                   ELSE IF behind.ok THEN Read(x, behind.next) ELSE behind
              ELSE tag
      BY <1>6, <1>9, <2>1
    <2>3. v = IF tag.ok
              THEN IF tag.value % 8 = 4 THEN Fail("group")
                   ELSE IF number <= 0 THEN Fail("tag")
                   ELSE IF behind.ok THEN Read(x, behind.next) ELSE behind
              ELSE tag
      BY <1>7, <1>9, <2>1
    <2> QED
      BY <2>1, <2>2, <2>3
  <1>10. CASE known # {}
    <2>1. a = b
      BY <1>8, <1>10
    <2> QED
      BY <1>6, <1>7, <2>1
  <1> QED
    BY <1>9, <1>10

(* They are read by the loop that reads the others. *)
LEMMA UnmarshalPlainIs ==
    ASSUME NEW table, PlainTable(table), NEW s \in Seq(Byte), NEW onto
    PROVE  \E h : /\ IsLoop(h, table, s, onto, Len(s))
                  /\ UnmarshalPlain(table, s, onto)
                        = h[CHOOSE n \in 0..Len(s) : h[n].ok => h[n].next >= Len(s)]
  <1>1. PICK h : /\ IsPlain(h, table, s, onto, Len(s))
                 /\ UnmarshalPlain(table, s, onto)
                        = h[CHOOSE n \in 0..Len(s) : h[n].ok => h[n].next >= Len(s)]
    BY PlainIsLast
  <1>2. \A r : PlainTurn(table, s, r) = LoopTurn(table, s, r)
    BY ReadPlainFieldIs DEF PlainTurn, LoopTurn
  <1>3. IsLoop(h, table, s, onto, Len(s))
    BY <1>1, <1>2 DEF IsPlain, IsLoop
  <1> QED
    BY <1>1, <1>3

(* A list of entries that makes y of x. *)
Steps(table, list, x, y, f) ==
    /\ f[0] = x /\ f[Len(list)] = y
    /\ \A i \in 1..Len(list) : Takes(table, list[i], f[i - 1], f[i])
(* The entries that a reader takes from x to y, one after the other. *)
Script(table, list, x, y) == list \in Seq(Seq(Byte)) /\ \E f : Steps(table, list, x, y, f)

(* The loop takes the entries of a script and ends where they do. *)
LEMMA ScriptLoop ==
    ASSUME NEW table, NEW list, NEW x, NEW y, Script(table, list, x, y),
           NEW s, s = FlattenSeq(list), Fits(s), NEW h, IsLoop(h, table, s, x, Len(s))
    PROVE  h[CHOOSE n \in 0..Len(s) : h[n].ok => h[n].next >= Len(s)] = Read(y, Len(s))
  <1>1. list \in Seq(Seq(Byte))
    BY DEF Script
  <1>2. PICK g : Steps(table, list, x, y, g)
    BY DEF Script
  <1>3. PICK l, length : l = Len(list) /\ l \in Nat /\ length = Len(s)
    BY <1>1, LenIsNat
  <1>4. PICK join : IsJoin(join, Byte, list) /\ s = join[l]
    BY <1>1, <1>3, JoinExists
  <1>5. s \in Seq(Byte) /\ length \in Nat
    BY <1>3, LenIsNat DEF Fits
  <1>6. \A i \in 1..l : Takes(table, list[i], g[i - 1], g[i]) /\ Len(list[i]) > 0
    BY <1>2, <1>3 DEF Steps, Takes
  <1>7. /\ \A k \in 0..l : At(s, 0, join[k])
        /\ \A k \in 1..l : At(s, 0 + Len(join[k - 1]), list[k])
    <2>1. At(s, 0, s)
      BY <1>5 DEF At
    <2>2. 0 \in Nat
      OBVIOUS
    <2> QED
      BY <1>1, <1>3, <1>4, <1>5, <2>1, <2>2, JoinAt
  <1>8. \A i, k \in 0..l : /\ Len(join[i]) \in Nat
                           /\ i <= k => Len(join[k]) >= Len(join[i]) + (k - i)
    BY <1>1, <1>3, <1>4, <1>6, JoinGrows
  <1>9. Len(join[0]) = 0
    <2>1. join[0] = <<>>
      BY <1>4 DEF IsJoin
    <2> QED
      BY <2>1
  <1>10. l <= length
    <2>1. 0 \in 0..l /\ l \in 0..l /\ 0 <= l
      BY <1>3
    <2>2. Len(join[l]) >= Len(join[0]) + (l - 0)
      BY <1>8, <2>1
    <2> QED
      BY <1>3, <1>4, <1>5, <1>9, <2>2
  <1>11. PICK f : f = [k \in 0..l |-> Read(g[k], Len(join[k]))]
    OBVIOUS
  <1>12. \A k \in 0..l : f[k].ok = TRUE /\ f[k].value = g[k] /\ f[k].next = Len(join[k])
    BY <1>11 DEF Read
  <1>13. h[0] = f[0]
    <2>1. 0 \in 0..l /\ 0 \in 0..length
      BY <1>3, <1>5
    <2>2. f[0] = Read(x, 0)
      BY <1>2, <1>9, <1>11, <2>1 DEF Steps
    <2> QED
      BY <1>3, <2>1, <2>2 DEF IsLoop
  <1>14. ASSUME NEW k \in 1..l, h[k - 1] = f[k - 1] PROVE h[k] = f[k]
    <2>1. /\ k \in 0..length /\ k # 0 /\ k - 1 \in 0..l /\ k \in 0..l /\ l \in 0..l
          /\ k - 1 <= l /\ l - (k - 1) > 0
      BY <1>3, <1>5, <1>10
    <2>2. PICK a, z, e : a = h[k - 1] /\ z = Len(join[k - 1]) /\ e = list[k]
      OBVIOUS
    <2>3. a.ok = TRUE /\ a.value = g[k - 1] /\ a.next = z
      BY <1>12, <1>14, <2>1, <2>2
    <2>4. h[k] = LoopTurn(table, s, a)
      BY <1>3, <2>1, <2>2 DEF IsLoop
    <2>5. z \in Nat /\ z < length
      <3>1. Len(join[l]) >= z + (l - (k - 1)) /\ z \in Nat
        BY <1>8, <2>1, <2>2
      <3>2. length >= z + (l - (k - 1))
        BY <1>3, <1>4, <3>1
      <3> QED
        BY <1>3, <1>5, <3>1, <3>2
    <2>6. h[k] = ReadField(table, s, z, g[k - 1])
      <3>1. ~ (a.next >= Len(s))
        BY <1>3, <1>5, <2>3, <2>5
      <3> QED
        BY <2>3, <2>4, <3>1 DEF LoopTurn
    <2>7. At(s, z, e)
      <3>1. 0 + z = z
        BY <2>5
      <3> QED
        BY <1>7, <2>2, <3>1
    <2>8. Takes(table, e, g[k - 1], g[k])
      BY <1>6, <2>2
    <2>9. h[k] = Read(g[k], z + Len(e))
      BY <2>5, <2>6, <2>7, <2>8 DEF Takes
    <2>10. z + Len(e) = Len(join[k])
      <3>1. PICK ja : ja = join[k - 1]
        OBVIOUS
      <3>2. join[k] = ja \o e
        BY <1>3, <1>4, <2>2, <3>1 DEF IsJoin
      <3>3. ja \in Seq(Byte)
        <4>1. join \in [0..l -> Seq(Byte)]
          BY <1>3, <1>4 DEF IsJoin
        <4> QED
          BY <2>1, <3>1, <4>1
      <3>4. e \in Seq(Byte)
        BY <2>8 DEF Takes
      <3>5. Len(ja \o e) = Len(ja) + Len(e)
        BY <3>3, <3>4, JoinFacts
      <3> QED
        BY <2>2, <3>1, <3>2, <3>5
    <2> QED
      BY <1>11, <2>1, <2>9, <2>10
  <1>15. ASSUME NEW k \in 1..length, l < k, h[k - 1] = f[l] PROVE h[k] = f[l]
    <2>1. k \in 0..length /\ k # 0 /\ l \in 0..l
      BY <1>3, <1>5
    <2>2. PICK a : a = h[k - 1]
      OBVIOUS
    <2>3. h[k] = LoopTurn(table, s, a)
      BY <1>3, <2>1, <2>2 DEF IsLoop
    <2>4. a.ok = TRUE /\ a.next = Len(s)
      BY <1>4, <1>12, <1>15, <2>1, <2>2
    <2>5. Len(s) >= Len(s)
      BY <1>3, <1>5
    <2> QED
      BY <1>15, <2>2, <2>3, <2>4, <2>5 DEF LoopTurn
  <1>16. Follows(h, f, l, length)
    <2>1. \A k \in 1..l : h[k - 1] = f[k - 1] => h[k] = f[k]
      BY <1>14
    <2>2. \A k \in 1..length : l < k /\ h[k - 1] = f[l] => h[k] = f[l]
      BY <1>15
    <2> QED
      BY <1>3, <1>5, <1>10, <1>13, <2>1, <2>2 DEF Follows
  <1>17. /\ \A k \in 0..l : h[k] = f[k]
         /\ \A k \in 0..length : l <= k => h[k] = f[l]
    BY <1>16, LoopFollows
  <1>18. PICK n : n = (CHOOSE m \in 0..length : h[m].ok => h[m].next >= length)
    OBVIOUS
  <1>19. n \in 0..length /\ (h[n].ok => h[n].next >= length)
    <2>1. length \in 0..length /\ l \in 0..l
      BY <1>3, <1>5
    <2>2. h[length] = f[l]
      BY <1>10, <1>17, <2>1
    <2>3. h[length].next = length /\ length >= length
      BY <1>3, <1>4, <1>5, <1>12, <2>1, <2>2
    <2> QED
      BY <1>18, <2>1, <2>3
  <1>20. l <= n
    <2> SUFFICES ASSUME n < l PROVE FALSE
      BY <1>3, <1>5, <1>19
    <2>1. n \in 0..l /\ l \in 0..l /\ n <= l /\ l - n > 0
      BY <1>3, <1>5, <1>19
    <2>2. h[n] = f[n] /\ f[n].ok = TRUE /\ f[n].next = Len(join[n])
      BY <1>12, <1>17, <2>1
    <2>3. Len(join[n]) >= length
      BY <1>19, <2>2
    <2>4. Len(join[l]) >= Len(join[n]) + (l - n) /\ Len(join[n]) \in Nat
      BY <1>8, <2>1
    <2>5. length >= Len(join[n]) + (l - n)
      BY <1>3, <1>4, <2>4
    <2> QED
      BY <1>3, <1>5, <1>19, <2>1, <2>3, <2>4, <2>5
  <1>21. h[n] = f[l] /\ f[l] = Read(y, length)
    <2>1. l \in 0..l
      BY <1>3
    <2>2. h[n] = f[l]
      BY <1>17, <1>19, <1>20
    <2>3. f[l] = Read(g[l], Len(join[l]))
      BY <1>11, <2>1
    <2>4. g[l] = y
      BY <1>2, <1>3 DEF Steps
    <2> QED
      BY <1>3, <1>4, <2>2, <2>3, <2>4
  <1> QED
    BY <1>3, <1>18, <1>21

(* So does Unmarshal, of messages and of embedded ones. *)
LEMMA ScriptReads ==
    ASSUME NEW table, NEW list, NEW x, NEW y, Script(table, list, x, y),
           NEW s, s = FlattenSeq(list), Fits(s)
    PROVE  /\ Unmarshal(table, s, x) = Read(y, Len(s))
           /\ PlainTable(table) => UnmarshalPlain(table, s, x) = Read(y, Len(s))
  <1>1. s \in Seq(Byte)
    BY DEF Fits
  <1>2. Unmarshal(table, s, x) = Read(y, Len(s))
    <2>1. PICK h : /\ IsLoop(h, table, s, x, Len(s))
                   /\ Unmarshal(table, s, x)
                        = h[CHOOSE n \in 0..Len(s) : h[n].ok => h[n].next >= Len(s)]
      BY <1>1, LoopIsLast
    <2> QED
      BY <2>1, ScriptLoop
  <1>3. ASSUME PlainTable(table) PROVE UnmarshalPlain(table, s, x) = Read(y, Len(s))
    <2>1. PICK h : /\ IsLoop(h, table, s, x, Len(s))
                   /\ UnmarshalPlain(table, s, x)
                        = h[CHOOSE n \in 0..Len(s) : h[n].ok => h[n].next >= Len(s)]
      BY <1>1, <1>3, UnmarshalPlainIs
    <2> QED
      BY <2>1, ScriptLoop
  <1> QED
    BY <1>2, <1>3

(* Scripts of no entry, of one, and one behind the other. *)
LEMMA ScriptNone ==
    ASSUME NEW table, NEW x
    PROVE  Script(table, <<>>, x, x)
  <1>1. PICK list, f : list = <<>> /\ f = [k \in {0} |-> x]
    OBVIOUS
  <1>2. list \in Seq(Seq(Byte)) /\ Len(list) = 0
    BY <1>1
  <1>3. f[0] = x /\ f[Len(list)] = x
    BY <1>1, <1>2
  <1>4. Steps(table, list, x, x, f)
    BY <1>2, <1>3 DEF Steps
  <1> QED
    BY <1>1, <1>2, <1>4 DEF Script

LEMMA ScriptOne ==
    ASSUME NEW table, NEW x, NEW y, NEW e, Takes(table, e, x, y)
    PROVE  Script(table, <<e>>, x, y)
  <1>1. PICK list, f : list = <<e>> /\ f = [k \in {0, 1} |-> IF k = 0 THEN x ELSE y]
    OBVIOUS
  <1>2. e \in Seq(Byte)
    BY DEF Takes
  <1>3. list \in Seq(Seq(Byte)) /\ Len(list) = 1 /\ list[1] = e
    BY <1>1, <1>2
  <1>4. f[0] = x /\ f[1] = y /\ f[Len(list)] = y
    BY <1>1, <1>3
  <1>5. \A i \in 1..Len(list) : Takes(table, list[i], f[i - 1], f[i])
    <2> TAKE i \in 1..Len(list)
    <2>1. i = 1 /\ i - 1 = 0
      BY <1>3
    <2> QED
      BY <1>3, <1>4, <2>1
  <1>6. Steps(table, list, x, y, f)
    BY <1>4, <1>5 DEF Steps
  <1> QED
    BY <1>1, <1>3, <1>6 DEF Script

LEMMA ScriptJoin ==
    ASSUME NEW table, NEW x, NEW y, NEW z, NEW a, NEW b, Script(table, a, x, y), Script(table, b, y, z)
    PROVE  Script(table, a \o b, x, z)
  <1>1. a \in Seq(Seq(Byte)) /\ b \in Seq(Seq(Byte))
    BY DEF Script
  <1>2. PICK f, g : Steps(table, a, x, y, f) /\ Steps(table, b, y, z, g)
    BY DEF Script
  <1>3. PICK m, n, c : m = Len(a) /\ n = Len(b) /\ m \in Nat /\ n \in Nat /\ c = a \o b
    BY <1>1, LenIsNat
  <1>4. /\ c \in Seq(Seq(Byte)) /\ Len(c) = m + n
        /\ \A i \in 1..m : c[i] = a[i]
        /\ \A i \in 1..n : c[m + i] = b[i]
    <2>1. /\ c \in Seq(Seq(Byte)) /\ Len(c) = Len(a) + Len(b)
          /\ \A i \in 1..Len(a) : c[i] = a[i]
          /\ \A i \in 1..Len(b) : c[Len(a) + i] = b[i]
      BY <1>1, <1>3, JoinFacts
    <2> QED
      BY <1>3, <2>1
  <1>5. PICK h : h = [k \in 0..(m + n) |-> IF k <= m THEN f[k] ELSE g[k - m]]
    OBVIOUS
  <1>6. f[0] = x /\ f[m] = y /\ g[0] = y /\ g[n] = z
    BY <1>2, <1>3 DEF Steps
  <1>7. h[0] = x /\ h[m + n] = z
    <2>1. h[0] = x
      BY <1>3, <1>5, <1>6
    <2>2. CASE n = 0
      BY <1>3, <1>5, <1>6, <2>2
    <2>3. CASE n > 0
      <3>1. m + n \in 0..(m + n) /\ ~ (m + n <= m) /\ (m + n) - m = n
        BY <1>3, <2>3
      <3> QED
        BY <1>5, <1>6, <2>1, <3>1
    <2> QED
      BY <1>3, <2>1, <2>2, <2>3
  <1>8. \A i \in 1..(m + n) : Takes(table, c[i], h[i - 1], h[i])
    <2> TAKE i \in 1..(m + n)
    <2>1. CASE i <= m
      <3>1. i \in 1..m /\ i - 1 \in 0..(m + n) /\ i - 1 <= m /\ i \in 0..(m + n)
        BY <1>3, <2>1
      <3>2. c[i] = a[i] /\ h[i - 1] = f[i - 1] /\ h[i] = f[i]
        BY <1>4, <1>5, <2>1, <3>1
      <3>3. Takes(table, a[i], f[i - 1], f[i])
        BY <1>2, <1>3, <3>1 DEF Steps
      <3> QED
        BY <3>2, <3>3
    <2>2. CASE i > m
      <3>1. PICK j : j = i - m
        OBVIOUS
      <3>2. /\ j \in 1..n /\ m + j = i /\ i \in 0..(m + n) /\ ~ (i <= m) /\ i - 1 \in 0..(m + n)
            /\ j - 1 = (i - 1) - m /\ (i - 1 <= m => i - 1 = m /\ j - 1 = 0)
        BY <1>3, <2>2, <3>1
      <3>3. c[i] = b[j] /\ h[i] = g[j]
        BY <1>4, <1>5, <3>1, <3>2
      <3>4. h[i - 1] = g[j - 1]
        <4>1. CASE i - 1 <= m
          BY <1>5, <1>6, <3>2, <4>1
        <4>2. CASE ~ (i - 1 <= m)
          BY <1>5, <3>2, <4>2
        <4> QED
          BY <4>1, <4>2
      <3>5. Takes(table, b[j], g[j - 1], g[j])
        BY <1>2, <1>3, <3>2 DEF Steps
      <3> QED
        BY <3>3, <3>4, <3>5
    <2> QED
      BY <1>3, <2>1, <2>2
  <1>9. Steps(table, c, x, z, h)
    BY <1>4, <1>7, <1>8 DEF Steps
  <1> QED
    BY <1>3, <1>4, <1>9 DEF Script

(* Between two of its entries, a script can be taken apart. *)
LEMMA ScriptSplit ==
    ASSUME NEW table, NEW x, NEW y, NEW list, Script(table, list, x, y), NEW n \in 0..Len(list)
    PROVE  \E z : /\ Script(table, SubSeq(list, 1, n), x, z)
                  /\ Script(table, SubSeq(list, n + 1, Len(list)), z, y)
  <1>1. PICK l : l = Len(list) /\ l \in Nat /\ n \in 0..l /\ list \in Seq(Seq(Byte))
    BY LenIsNat DEF Script
  <1>2. PICK f : Steps(table, list, x, y, f)
    BY DEF Script
  <1>3. f[0] = x /\ f[l] = y /\ \A i \in 1..l : Takes(table, list[i], f[i - 1], f[i])
    BY <1>1, <1>2 DEF Steps
  <1>4. PICK a, b : a = SubSeq(list, 1, n) /\ b = SubSeq(list, n + 1, l)
    OBVIOUS
  <1>5. /\ a \in Seq(Seq(Byte)) /\ Len(a) = n
        /\ \A i \in 1..n : a[i] = list[i]
    <2>1. 1 \in Nat \ {0} /\ n \in Nat /\ n <= l /\ 1 <= n + 1 /\ n - 1 + 1 = n
      BY <1>1
    <2>2. \A i \in 1..n : 1 + i - 1 = i
      BY <1>1
    <2> QED
      BY <1>1, <1>4, <2>1, <2>2, SliceFacts
  <1>6. /\ b \in Seq(Seq(Byte)) /\ Len(b) = l - n
        /\ \A i \in 1..(l - n) : b[i] = list[n + i]
    <2>1. n + 1 \in Nat \ {0} /\ l <= l /\ n + 1 <= l + 1 /\ l - (n + 1) + 1 = l - n
      BY <1>1
    <2>2. \A i \in 1..(l - n) : (n + 1) + i - 1 = n + i
      BY <1>1
    <2> QED
      BY <1>1, <1>4, <2>1, <2>2, SliceFacts
  <1>7. Script(table, a, x, f[n])
    <2>1. \A i \in 1..n : i \in 1..l
      BY <1>1
    <2>2. Steps(table, a, x, f[n], f)
      BY <1>3, <1>5, <2>1 DEF Steps
    <2> QED
      BY <1>5, <2>2 DEF Script
  <1>8. Script(table, b, f[n], y)
    <2>1. PICK g : g = [k \in 0..(l - n) |-> f[n + k]]
      OBVIOUS
    <2>2. g[0] = f[n] /\ g[l - n] = y
      <3>1. 0 \in 0..(l - n) /\ l - n \in 0..(l - n) /\ n + 0 = n /\ n + (l - n) = l
        BY <1>1
      <3> QED
        BY <1>3, <2>1, <3>1
    <2>3. ASSUME NEW i \in 1..(l - n) PROVE Takes(table, b[i], g[i - 1], g[i])
      <3>1. n + i \in 1..l /\ i - 1 \in 0..(l - n) /\ i \in 0..(l - n) /\ n + (i - 1) = (n + i) - 1
        BY <1>1
      <3>2. g[i - 1] = f[(n + i) - 1] /\ g[i] = f[n + i] /\ b[i] = list[n + i]
        BY <1>6, <2>1, <3>1
      <3> QED
        BY <1>3, <3>1, <3>2
    <2>4. Steps(table, b, f[n], y, g)
      BY <1>6, <2>2, <2>3 DEF Steps
    <2> QED
      BY <1>6, <2>4 DEF Script
  <1> QED
    BY <1>1, <1>4, <1>7, <1>8

(* A field that is set twice has the value set last. *)
LEMMA ExceptTwice ==
    ASSUME NEW x, NEW name, NEW a, NEW b, NEW z, z = [x EXCEPT ![name] = a]
    PROVE  [z EXCEPT ![name] = b] = [x EXCEPT ![name] = b]
  OBVIOUS

(* A field set to what it was changes nothing. *)
LEMMA ExceptSame ==
    ASSUME NEW x, NEW name, x = [k \in DOMAIN x |-> x[k]]
    PROVE  [x EXCEPT ![name] = x[name]] = x
  OBVIOUS

(* A field that was set has the value it was set to. *)
LEMMA ExceptHas ==
    ASSUME NEW x, NEW name \in DOMAIN x, NEW a, NEW z, z = [x EXCEPT ![name] = a]
    PROVE  z[name] = a /\ DOMAIN z = DOMAIN x /\ z = [k \in DOMAIN z |-> z[k]]
  OBVIOUS

(* Prefixes of a list: none of it, all of it, and their type. *)
LEMMA SliceNone ==
    ASSUME NEW S, NEW a \in Seq(S), NEW list
    PROVE  a \o SubSeq(list, 1, 0) = a
  <1>1. SubSeq(list, 1, 0) = <<>>
    OBVIOUS
  <1> QED
    BY <1>1, ConcatEmptySeq

LEMMA SliceAll ==
    ASSUME NEW S, NEW list \in Seq(S)
    PROVE  SubSeq(list, 1, Len(list)) = list
  OBVIOUS

LEMMA SliceIsSeq ==
    ASSUME NEW S, NEW list \in Seq(S), NEW k \in 0..Len(list)
    PROVE  SubSeq(list, 1, k) \in Seq(S)
  <1>1. Len(list) \in Nat
    BY LenIsNat
  <1>2. 1 \in Nat \ {0} /\ k \in Nat /\ k <= Len(list) /\ 1 <= k + 1
    BY <1>1
  <1> QED
    BY <1>2, SliceFacts

(* One entry for each element of a list appends them all. *)
Appends(table, e, name, S, v) ==
    \A z : z[name] \in Seq(S) => Takes(table, e, z, [z EXCEPT ![name] = Append(z[name], v)])

(* The entries of a list, one for each element, append them all. *)
LEMMA ListScript ==
    ASSUME NEW table, NEW name, NEW x, name \in DOMAIN x, x = [k \in DOMAIN x |-> x[k]], NEW S,
           x[name] \in Seq(S), NEW list \in Seq(S), NEW entries \in Seq(Seq(Byte)),
           Len(entries) = Len(list),
           \A k \in 1..Len(list) : Appends(table, entries[k], name, S, list[k])
    PROVE  Script(table, entries, x, [x EXCEPT ![name] = x[name] \o list])
  <1>1. PICK l, old : l = Len(list) /\ l \in Nat /\ old = x[name]
    BY LenIsNat
  <1>2. PICK f : f = [k \in 0..l |-> [x EXCEPT ![name] = old \o SubSeq(list, 1, k)]]
    OBVIOUS
  <1>3. f[0] = x
    <2>1. old \o SubSeq(list, 1, 0) = old
      BY <1>1, SliceNone
    <2>2. f[0] = [x EXCEPT ![name] = old]
      <3>1. 0 \in 0..l
        BY <1>1
      <3>2. f[0] = [x EXCEPT ![name] = old \o SubSeq(list, 1, 0)]
        BY <1>2, <3>1
      <3> QED
        BY <2>1, <3>2
    <2> QED
      BY <1>1, <2>2, ExceptSame
  <1>4. f[l] = [x EXCEPT ![name] = old \o list]
    <2>1. SubSeq(list, 1, l) = list
      BY <1>1, SliceAll
    <2>2. l \in 0..l
      BY <1>1
    <2>3. f[l] = [x EXCEPT ![name] = old \o SubSeq(list, 1, l)]
      BY <1>2, <2>2
    <2> QED
      BY <2>1, <2>3
  <1>5. ASSUME NEW k \in 1..l PROVE Takes(table, entries[k], f[k - 1], f[k])
    <2>1. k - 1 \in 0..l /\ k \in 0..l
      BY <1>1
    <2>2. PICK z, before, after : /\ z = f[k - 1] /\ before = old \o SubSeq(list, 1, k - 1)
                                  /\ after = old \o SubSeq(list, 1, k)
      OBVIOUS
    <2>3. z = [x EXCEPT ![name] = before]
      BY <1>2, <2>1, <2>2
    <2>4. z[name] = before
      BY <2>3, ExceptHas
    <2>5. before \in Seq(S)
      <3>1. SubSeq(list, 1, k - 1) \in Seq(S)
        BY <1>1, <2>1, SliceIsSeq
      <3> QED
        BY <1>1, <2>2, <3>1, JoinFacts
    <2>6. Append(before, list[k]) = after
      BY <1>1, <2>2, AppendSlice
    <2>7. Takes(table, entries[k], z, [z EXCEPT ![name] = Append(z[name], list[k])])
      BY <1>1, <2>4, <2>5 DEF Appends
    <2>8. [z EXCEPT ![name] = after] = [x EXCEPT ![name] = after]
      BY <2>3, ExceptTwice
    <2>9. f[k] = [x EXCEPT ![name] = after]
      BY <1>2, <2>1, <2>2
    <2> QED
      BY <2>2, <2>4, <2>6, <2>7, <2>8, <2>9
  <1>6. Steps(table, entries, x, [x EXCEPT ![name] = old \o list], f)
    BY <1>1, <1>3, <1>4, <1>5 DEF Steps
  <1> QED
    BY <1>1, <1>6 DEF Script

(* The entry of a packed list appends its numbers. *)
LEMMA PackedEntry ==
    ASSUME NEW table, Distinct(table), NEW i \in DOMAIN table, table[i].type = "packed",
           NEW list \in Seq(Word), NEW x, x[table[i].name] \in Seq(Word),
           NEW c, c = FlattenSeq(VarintsOf(list))
    PROVE  /\ c \in Seq(Byte)
           /\ Takes(table, Delimited(table[i].num, c), x,
                    [x EXCEPT ![table[i].name] = x[table[i].name] \o list])
  <1>1. c \in Seq(Byte)
    BY VarintsOfFacts, FlattenIsSeq
  <1>2. PICK old, new : old = x[table[i].name] /\ new = old \o list
    OBVIOUS
  <1>3. ASSUME NEW s, NEW p, Fits(s), p \in Nat, Fits(c), At(s, p, Measured(c))
        PROVE  ReadValue(table[i], x[table[i].name], s, 2, p) = Read(new, p + Len(Measured(c)))
    <2>1. PICK l, r, v, q : /\ l = ReadLength(s, p) /\ r = ReadValue(table[i], old, s, 2, p)
                            /\ v = Varint(Len(c)) /\ q = p + Len(v)
      OBVIOUS
    <2>2. v \in Seq(Byte) /\ Len(v) \in Nat /\ Len(c) \in Nat /\ Len(Measured(c)) = Len(v) + Len(c)
      BY <1>1, <2>1, MeasuredIsSeq
    <2>3. PICK n : n = Len(c) /\ n \in Nat
      BY <2>2
    <2>4. q \in Nat /\ p + Len(Measured(c)) = q + n /\ (q + n) - n = q
      BY <1>3, <2>1, <2>2, <2>3
    <2>5. l = Read(c, q + n)
      BY <1>3, <2>1, <2>4, ReadLengthAt
    <2>6. l.ok = TRUE /\ l.value = c /\ l.next = q + n
      BY <2>5 DEF Read
    <2>7. r = ReadPacked(s, q, q + n, old)
      <3>1. table[i].type \in LengthTypes
        BY DEF LengthTypes
      <3>2. r = ReadPacked(s, l.next - Len(l.value), l.next, old)
        BY <2>1, <2>6, <3>1, ReadValueCases
      <3> QED
        BY <2>3, <2>4, <2>6, <3>2
    <2>8. At(s, q, c)
      <3>1. At(s, p, v \o c) /\ s \in Seq(Byte)
        BY <1>3, <2>1 DEF Measured, Fits
      <3> QED
        BY <1>1, <1>3, <2>1, <2>2, <3>1, AtJoin
    <2>9. ReadPacked(s, q, q + Len(c), old) = Read(old \o list, q + Len(c))
      <3>1. old \in Seq(Word)
        BY <1>2
      <3>2. q \in Nat /\ Fits(s) /\ At(s, q, c)
        BY <1>3, <2>4, <2>8
      <3> QED
        BY <3>1, <3>2, PackedReads
    <2> QED
      BY <1>2, <2>1, <2>3, <2>4, <2>7, <2>9
  <1>4. Takes(table, Delimited(table[i].num, c), x, [x EXCEPT ![table[i].name] = new])
    BY <1>1, <1>3, DelimitedTakes
  <1> QED
    BY <1>1, <1>2, <1>4

(* An embedded message. *)
Absorbs(field, c, old, new) ==
    /\ field.type \in {"pointer", "messageList"}
    /\ Fits(c) => Absorb(field, old, c) = Read(new, 0)

(* The entry of an embedded message reads it into the field. *)
LEMMA InnerEntry ==
    ASSUME NEW table, Distinct(table), NEW i \in DOMAIN table, NEW c \in Seq(Byte), NEW x, NEW new,
           Absorbs(table[i], c, x[table[i].name], new)
    PROVE  Sets(table, i, Delimited(table[i].num, c), x, new)
  <1>1. ASSUME NEW s, NEW p, Fits(s), p \in Nat, Fits(c), At(s, p, Measured(c))
        PROVE  ReadValue(table[i], x[table[i].name], s, 2, p) = Read(new, p + Len(Measured(c)))
    <2>1. PICK l, old, r : /\ l = ReadLength(s, p) /\ old = x[table[i].name]
                           /\ r = ReadValue(table[i], old, s, 2, p)
      OBVIOUS
    <2>2. l = Read(c, p + Len(Measured(c)))
      BY <1>1, <2>1, ReadLengthAt
    <2>3. l.ok = TRUE /\ l.value = c /\ l.next = p + Len(Measured(c))
      BY <2>2 DEF Read
    <2>4. table[i].type \in LengthTypes
      BY DEF LengthTypes, Absorbs
    <2>5. PICK a : a = Absorb(table[i], old, l.value)
      OBVIOUS
    <2>6. r = IF a.ok THEN Read(a.value, l.next) ELSE a
      BY <2>1, <2>3, <2>4, <2>5, ReadValueCases DEF Absorbs
    <2>7. a = Read(new, 0)
      BY <1>1, <2>1, <2>3, <2>5 DEF Absorbs
    <2>8. a.ok = TRUE /\ a.value = new
      BY <2>7 DEF Read
    <2> QED
      BY <2>1, <2>3, <2>6, <2>8
  <1> QED
    BY <1>1, DelimitedTakes DEF Sets
=============================================================================
