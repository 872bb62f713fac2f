----------------------------- MODULE SgitProofs -----------------------------
(***************************************************************************)
(* Proofs about the sgit baseline: the diffs, their encoding and the line  *)
(* splitting reproduce every text, and so does what the tool pushes and    *)
(* what the library serves.                                                *)
(***************************************************************************)
EXTENDS Sgit, SequenceTheorems, WellFoundedInduction, TLAPS

-----------------------------------------------------------------------------
(* Numbers *)

\* A set of numbers that is not empty has a smallest one.
LEMMA MinIn ==
  ASSUME NEW S, S # {}, \A x \in S : x \in Nat
  PROVE  \E x \in S : \A y \in S : x <= y
<1>1. \E x \in S : \A y \in S : ~(<<y, x>> \in OpToRel(<, Nat))
  BY NatLessThanWellFounded, WFMin, Zenon
<1>2. PICK x \in S : \A y \in S : ~(y < x)
  BY <1>1 DEF OpToRel
<1> QED
  BY <1>2

\* What holds of 0 and of each successor holds of all numbers.
LEMMA Least ==
  ASSUME NEW Good \in SUBSET Nat, 0 \in Good, \A n \in Nat : n \in Good => n + 1 \in Good
  PROVE  Good = Nat
<1> SUFFICES ASSUME Nat \ Good # {} PROVE FALSE
  OBVIOUS
<1>1. PICK S : S = Nat \ Good
  OBVIOUS
<1>2. S # {} /\ \A x \in S : x \in Nat
  BY <1>1
<1>3. PICK n \in S : \A x \in S : n <= x
  BY <1>2, MinIn
<1>4. n \in Nat /\ n # 0 /\ n - 1 \in Nat
  BY <1>1, <1>3
<1>5. n - 1 \in Good
  BY <1>1, <1>3, <1>4
<1> QED
  BY <1>1, <1>3, <1>4, <1>5

\* A set of numbers that is bounded and not empty has a largest one.
LEMMA MaxIn ==
  ASSUME NEW n \in Nat, NEW S \in SUBSET (0..n), S # {}
  PROVE  Max(S) \in S /\ \A k \in S : k <= Max(S)
<1> DEFINE T == {n - i : i \in S}
<1>0. \A i \in S : i \in 0..n /\ n - i \in Nat
  OBVIOUS
<1>1. T # {} /\ \A x \in T : x \in Nat
  BY <1>0
<1>2. PICK x \in T : \A y \in T : x <= y
  <2> HIDE DEF T
  <2> QED
    BY <1>1, MinIn
<1>3. PICK i \in S : x = n - i
  OBVIOUS
<1>4. \A k \in S : k <= i
  <2> TAKE k \in S
  <2>1. n - i <= n - k
    BY <1>2, <1>3
  <2> QED
    BY <1>0, <2>1
<1>5. i \in S /\ \A k \in S : i >= k
  BY <1>0, <1>4
<1> HIDE DEF T
<1> QED
  BY <1>4, <1>5 DEF Max

-----------------------------------------------------------------------------
(* Sequences *)

\* A sequence of n + 1 elements is one of n and another element.
LEMMA LastOff ==
  ASSUME NEW S, NEW s \in Seq(S), NEW n \in Nat, Len(s) = n + 1
  PROVE  /\ SubSeq(s, 1, n) \in Seq(S) /\ Len(SubSeq(s, 1, n)) = n /\ s[n + 1] \in S
         /\ s = SubSeq(s, 1, n) \o <<s[n + 1]>>
  OBVIOUS

\* The first k + 1 elements are the first k and one more; all of them are the sequence.
LEMMA OneMore ==
  ASSUME NEW S, NEW s \in Seq(S), NEW k \in 0..(Len(s) - 1)
  PROVE  /\ SubSeq(s, 1, k) \in Seq(S) /\ Len(SubSeq(s, 1, k)) = k /\ s[k + 1] \in S
         /\ SubSeq(s, 1, k + 1) = SubSeq(s, 1, k) \o <<s[k + 1]>>
  OBVIOUS

\* A sequence and one element more.
LEMMA MoreSeq ==
  ASSUME NEW S, NEW s \in Seq(S), NEW x \in S
  PROVE  /\ s \o <<x>> \in Seq(S) /\ Len(s \o <<x>>) = Len(s) + 1 /\ (s \o <<x>>)[Len(s) + 1] = x
         /\ Append(s, x) = s \o <<x>> /\ \A i \in 1..Len(s) : (s \o <<x>>)[i] = s[i]
  OBVIOUS

\* A sequence of two.
LEMMA TwoOf ==
  ASSUME NEW S, NEW d \in S, NEW e \in S
  PROVE  <<d, e>> = <<d>> \o <<e>>
<1>1. PICK s, x, z : s = <<d, e>> /\ x = <<d>> /\ z = x \o <<e>>
  OBVIOUS
<1>2. s \in Seq(S) /\ Len(s) = 2 /\ s[1] = d /\ s[2] = e /\ x \in Seq(S) /\ Len(x) = 1 /\ x[1] = d
  BY <1>1
<1>3. /\ z \in Seq(S) /\ Len(z) = Len(x) + 1 /\ z[Len(x) + 1] = e
      /\ \A i \in 1..Len(x) : z[i] = x[i]
  BY <1>1, <1>2, MoreSeq
<1>4. Len(z) = 2 /\ z[1] = d /\ z[2] = e
  BY <1>2, <1>3
<1>5. s = z
  <2>1. \A i \in 1..2 : s[i] = z[i]
    BY <1>2, <1>4
  <2> QED
    BY <1>2, <1>3, <1>4, <2>1, SeqEqual
<1> QED
  BY <1>1, <1>5

\* A stretch of a sequence.
LEMMA SubIn ==
  ASSUME NEW S, NEW s \in Seq(S), NEW i \in 1..(Len(s) + 1), NEW j \in (i - 1)..Len(s)
  PROVE  SubSeq(s, i, j) \in Seq(S) /\ Len(SubSeq(s, i, j)) = (j - i) + 1
  OBVIOUS

\* Stretches that meet.
LEMMA SubMeet ==
  ASSUME NEW S, NEW s \in Seq(S), NEW i \in 1..(Len(s) + 1), NEW k \in (i - 1)..Len(s),
         NEW j \in k..Len(s)
  PROVE  SubSeq(s, i, k) \o SubSeq(s, k + 1, j) = SubSeq(s, i, j)
  BY ConcatAdjacentSubSeq

\* Nothing and all of a sequence.
LEMMA SubAll ==
  ASSUME NEW S, NEW s \in Seq(S)
  PROVE  /\ SubSeq(s, 1, 0) = <<>> /\ SubSeq(s, 1, Len(s)) = s /\ SubSeq(s, Len(s) + 1, Len(s)) = <<>>
         /\ <<>> \o s = s /\ s \o <<>> = s /\ <<>> \in Seq(S)
  OBVIOUS

\* Concatenation associates.
LEMMA Assoc ==
  ASSUME NEW S, NEW x \in Seq(S), NEW y \in Seq(S), NEW z \in Seq(S)
  PROVE  (x \o y) \o z = x \o (y \o z) /\ x \o y \in Seq(S)
  OBVIOUS

\* What stands before a position is a sequence over the same set.
LEMMA HeadTyped ==
  ASSUME NEW S, NEW s \in Seq(S), NEW k \in 0..Len(s)
  PROVE  SubSeq(s, 1, k) \in Seq(S)
OBVIOUS

\* What stands after a position is a sequence over the same set.
LEMMA TailTyped ==
  ASSUME NEW S, NEW s \in Seq(S), NEW k \in 0..Len(s)
  PROVE  SubSeq(s, k + 1, Len(s)) \in Seq(S)
OBVIOUS

\* Concatenation under a name of its own, which the provers do not look into.
Cat(x, y) == x \o y

\* The same, for that name.
LEMMA CatRegroup ==
  ASSUME NEW S, NEW x \in Seq(S), NEW y \in Seq(S), NEW z \in Seq(S)
  PROVE  Cat(Cat(x, y), z) = Cat(x, Cat(y, z))
BY Assoc DEF Cat

\* A sequence with one element before it and one after it.
LEMMA Framed ==
  ASSUME NEW S, NEW s \in Seq(S), NEW x \in S, NEW y \in S, NEW t, t = (<<x>> \o s) \o <<y>>
  PROVE  /\ t \in Seq(S) /\ Len(t) = Len(s) + 2 /\ t[1] = x /\ t[Len(s) + 2] = y
         /\ \A k \in 1..Len(s) : t[k + 1] = s[k]
<1>1. PICK u : u = <<x>> \o s
  OBVIOUS
<1>2. u \in Seq(S) /\ Len(u) = Len(s) + 1 /\ u[1] = x /\ \A k \in 1..Len(s) : u[k + 1] = s[k]
  BY <1>1
<1>3. /\ t \in Seq(S) /\ Len(t) = Len(u) + 1 /\ t[Len(u) + 1] = y
      /\ \A k \in 1..Len(u) : t[k] = u[k]
  BY <1>1, <1>2
<1>4. /\ \A k \in 1..Len(s) : k + 1 \in 1..Len(u)
      /\ 1 \in 1..Len(u) /\ Len(u) + 1 = Len(s) + 2
  BY <1>2
<1> QED
  BY <1>2, <1>3, <1>4

\* A place of a sequence between the stretches before and after it.
LEMMA AtPlace ==
  ASSUME NEW S, NEW s \in Seq(S), NEW i \in 1..Len(s)
  PROVE  /\ SubSeq(s, 1, i) = SubSeq(s, 1, i - 1) \o <<s[i]>>
         /\ SubSeq(s, i, Len(s)) = <<s[i]>> \o SubSeq(s, i + 1, Len(s))
         /\ s[i] \in S /\ SubSeq(s, 1, i - 1) \in Seq(S) /\ SubSeq(s, i + 1, Len(s)) \in Seq(S)
  OBVIOUS

-----------------------------------------------------------------------------
(* FlattenSeq *)

\* The recursive function that FlattenSeq chooses.
IsFlat(ss, f) ==
    f = [i \in 1..Len(ss) |-> IF i = 1 THEN ss[i] ELSE f[i - 1] \o ss[i]]

\* FlattenSeq by that function.
LEMMA FlatDef ==
  ASSUME NEW ss
  PROVE  FlattenSeq(ss) = IF Len(ss) = 0 THEN ss ELSE (CHOOSE f : IsFlat(ss, f))[Len(ss)]
  BY DEF FlattenSeq, IsFlat

\* What its values are.
LEMMA FlatValues ==
  ASSUME NEW S, NEW ss \in Seq(Seq(S)), NEW f, IsFlat(ss, f), NEW i \in 1..Len(ss)
  PROVE  f[i] = IF i = 1 THEN ss[1] ELSE f[i - 1] \o ss[i]
  BY DEF IsFlat

\* For one more sequence it goes a step further.
LEMMA FlatGrows ==
  ASSUME NEW S, NEW ss \in Seq(Seq(S)), NEW f, IsFlat(ss, f), NEW x \in Seq(S)
  PROVE  \E g : IsFlat(ss \o <<x>>, g)
<1>1. PICK n, tt : n = Len(ss) /\ tt = ss \o <<x>>
  OBVIOUS
<1>2. n \in Nat /\ Len(tt) = n + 1 /\ tt[n + 1] = x /\ \A i \in 1..n : tt[i] = ss[i]
  BY <1>1
<1>3. PICK g : g = [i \in 1..(n + 1) |-> IF i = n + 1 THEN IF n = 0 THEN x ELSE f[n] \o x
                                        ELSE f[i]]
  OBVIOUS
<1>4. ASSUME NEW i \in 1..(n + 1)
      PROVE  g[i] = IF i = 1 THEN tt[i] ELSE g[i - 1] \o tt[i]
  <2>1. CASE i = n + 1
    <3>1. CASE n = 0
      BY <1>2, <1>3, <2>1, <3>1
    <3>2. CASE n # 0
      <4>1. n \in 1..(n + 1) /\ n # n + 1 /\ i # 1 /\ i - 1 = n
        BY <1>2, <2>1, <3>2
      <4>2. g[n] = f[n]
        BY <1>3, <4>1
      <4>3. g[i] = f[n] \o x
        BY <1>3, <2>1, <3>2
      <4> QED
        BY <1>2, <2>1, <4>1, <4>2, <4>3
    <3> QED
      BY <3>1, <3>2
  <2>2. CASE i # n + 1
    <3>1. i \in 1..n /\ (i # 1 => i - 1 \in 1..n /\ i - 1 # n + 1 /\ i - 1 \in 1..(n + 1))
      BY <1>2, <2>2
    <3>2. f[i] = IF i = 1 THEN ss[1] ELSE f[i - 1] \o ss[i]
      BY <1>1, <3>1, FlatValues
    <3>3. g[i] = f[i] /\ (i # 1 => g[i - 1] = f[i - 1])
      BY <1>3, <2>2, <3>1
    <3> QED
      BY <1>2, <3>1, <3>2, <3>3
  <2> QED
    BY <2>1, <2>2
<1>5. IsFlat(tt, g)
  <2>1. g = [i \in 1..(n + 1) |-> g[i]]
    BY <1>3
  <2>2. g = [i \in 1..(n + 1) |-> IF i = 1 THEN tt[i] ELSE g[i - 1] \o tt[i]]
    BY <1>4, <2>1
  <2> QED
    BY <1>2, <2>2 DEF IsFlat
<1> QED
  BY <1>1, <1>5

\* So there is one for any number of sequences.
LEMMA FlatExists ==
  ASSUME NEW S, NEW ss \in Seq(Seq(S))
  PROVE  \E f : IsFlat(ss, f)
<1> DEFINE Good == {n \in Nat : \A tt \in Seq(Seq(S)) : Len(tt) = n => \E f : IsFlat(tt, f)}
<1>1. 0 \in Good
  <2> SUFFICES ASSUME NEW tt \in Seq(Seq(S)), Len(tt) = 0
               PROVE  \E f : IsFlat(tt, f)
    OBVIOUS
  <2>1. PICK f : f = [i \in 1..0 |-> <<>>]
    OBVIOUS
  <2>2. IsFlat(tt, f)
    BY <2>1 DEF IsFlat
  <2> QED
    BY <2>2
<1>2. ASSUME NEW n \in Nat, n \in Good  PROVE n + 1 \in Good
  <2> SUFFICES ASSUME NEW tt \in Seq(Seq(S)), Len(tt) = n + 1
               PROVE  \E f : IsFlat(tt, f)
    OBVIOUS
  <2>1. PICK uu, x : uu = SubSeq(tt, 1, n) /\ x = tt[n + 1]
    OBVIOUS
  <2>2. uu \in Seq(Seq(S)) /\ Len(uu) = n /\ x \in Seq(S) /\ tt = uu \o <<x>>
    BY <2>1, LastOff
  <2>3. PICK f : IsFlat(uu, f)
    BY <1>2, <2>2
  <2> QED
    BY <2>2, <2>3, FlatGrows
<1>3. Good \in SUBSET Nat
  OBVIOUS
<1>4. Good = Nat
  <2> HIDE DEF Good
  <2> QED
    BY <1>1, <1>2, <1>3, Least
<1>5. Len(ss) \in Good
  BY <1>4
<1> QED
  BY <1>5

\* Two such functions agree where both are defined, and their values are sequences.
LEMMA FlatSame ==
  ASSUME NEW S, NEW ss \in Seq(Seq(S)), NEW x \in Seq(S), NEW f, IsFlat(ss, f),
         NEW g, IsFlat(ss \o <<x>>, g), NEW k \in 1..Len(ss)
  PROVE  f[k] = g[k] /\ f[k] \in Seq(S)
<1>1. PICK n, tt : n = Len(ss) /\ tt = ss \o <<x>>
  OBVIOUS
<1>2. /\ n \in Nat /\ tt \in Seq(Seq(S)) /\ Len(tt) = n + 1 /\ \A i \in 1..n : tt[i] = ss[i] /\ ss[i] \in Seq(S)
  BY <1>1
<1> DEFINE Good == {i \in Nat : i \in 1..n => f[i] = g[i] /\ f[i] \in Seq(S)}
<1>3. 0 \in Good
  OBVIOUS
<1>4. ASSUME NEW i \in Nat, i \in Good  PROVE i + 1 \in Good
  <2> SUFFICES ASSUME i + 1 \in 1..n  PROVE f[i + 1] = g[i + 1] /\ f[i + 1] \in Seq(S)
    OBVIOUS
  <2>1. /\ f[i + 1] = IF i + 1 = 1 THEN ss[1] ELSE f[(i + 1) - 1] \o ss[i + 1]
        /\ g[i + 1] = IF i + 1 = 1 THEN tt[1] ELSE g[(i + 1) - 1] \o tt[i + 1]
    <3>1. i + 1 \in 1..Len(ss) /\ i + 1 \in 1..Len(tt)
      BY <1>1, <1>2
    <3>2. PICK m : m = i + 1
      OBVIOUS
    <3>3. f[m] = IF m = 1 THEN ss[1] ELSE f[m - 1] \o ss[m]
      <4>1. m \in 1..Len(ss)
        BY <3>1, <3>2
      <4> QED
        BY <4>1, FlatValues
    <3>4. g[m] = IF m = 1 THEN tt[1] ELSE g[m - 1] \o tt[m]
      <4>1. tt \in Seq(Seq(S)) /\ m \in 1..Len(tt) /\ IsFlat(tt, g)
        BY <1>1, <1>2, <3>1, <3>2
      <4> QED
        BY <4>1, FlatValues
    <3> QED
      BY <3>2, <3>3, <3>4
  <2>2. tt[i + 1] = ss[i + 1] /\ ss[i + 1] \in Seq(S)
    BY <1>2
  <2>3. CASE i = 0
    BY <2>1, <2>2, <2>3
  <2>4. CASE i # 0
    <3>0. i \in 1..n /\ (i + 1) - 1 = i /\ i + 1 # 1
      BY <1>2, <2>4
    <3>1. f[i] = g[i] /\ f[i] \in Seq(S) /\ (i + 1) - 1 = i /\ i + 1 # 1
      BY <1>4, <3>0
    <3>2. f[i + 1] = f[i] \o ss[i + 1] /\ g[i + 1] = f[i] \o ss[i + 1]
      BY <2>1, <2>2, <3>1
    <3> QED
      BY <2>2, <3>1, <3>2
  <2> QED
    BY <2>3, <2>4
<1>5. Good \in SUBSET Nat
  OBVIOUS
<1>6. k \in Nat /\ k \in 1..n
  BY <1>1, <1>2
<1>7. k \in Good
  <2> HIDE DEF Good
  <2>1. Good = Nat
    BY <1>3, <1>4, <1>5, Least
  <2> QED
    BY <1>6, <2>1
<1> QED
  BY <1>6, <1>7

\* FlattenSeq of one sequence more.
LEMMA FlatMore ==
  ASSUME NEW S, NEW ss \in Seq(Seq(S)), NEW x \in Seq(S)
  PROVE  /\ FlattenSeq(ss) \in Seq(S)
         /\ FlattenSeq(ss \o <<x>>) = FlattenSeq(ss) \o x
<1>1. PICK n, tt : n = Len(ss) /\ tt = ss \o <<x>>
  OBVIOUS
<1>2. n \in Nat /\ tt \in Seq(Seq(S)) /\ Len(tt) = n + 1 /\ tt[n + 1] = x
  BY <1>1
<1>3. PICK f : f = CHOOSE h : IsFlat(ss, h)
  OBVIOUS
<1>4. PICK g : g = CHOOSE h : IsFlat(tt, h)
  OBVIOUS
<1>5. IsFlat(ss, f) /\ IsFlat(tt, g)
  BY <1>2, <1>3, <1>4, FlatExists
<1>6. FlattenSeq(tt) = g[n + 1]
  BY <1>2, <1>4, FlatDef
<1>7. n + 1 \in 1..Len(tt) /\ g[n + 1] = IF n + 1 = 1 THEN tt[1] ELSE g[(n + 1) - 1] \o tt[n + 1]
  <2>1. n + 1 \in 1..Len(tt)
    BY <1>2
  <2> QED
    BY <1>2, <1>5, <2>1, FlatValues
<1>8. CASE n = 0
  <2>1. ss = <<>>
    <3>1. Len(ss) = 0
      BY <1>1, <1>8
    <3> QED
      BY <3>1, EmptySeq
  <2>2. g[n + 1] = x
    BY <1>2, <1>7, <1>8
  <2>3. FlattenSeq(ss) = <<>>
    <3>1. FlattenSeq(ss) = ss
      BY <1>1, <1>8, FlatDef
    <3> QED
      BY <2>1, <3>1
  <2>4. <<>> \in Seq(S) /\ <<>> \o x = x
    OBVIOUS
  <2> QED
    BY <1>1, <1>6, <2>2, <2>3, <2>4
<1>9. CASE n # 0
  <2>1. n \in 1..Len(ss)
    BY <1>1, <1>2, <1>9
  <2>2. f[n] = g[n] /\ f[n] \in Seq(S)
    BY <1>1, <1>5, <2>1, FlatSame
  <2>3. FlattenSeq(ss) = f[n]
    BY <1>1, <1>3, <1>9, FlatDef
  <2>4. g[n + 1] = g[n] \o x
    <3>1. n + 1 # 1 /\ (n + 1) - 1 = n
      BY <1>2, <1>9
    <3> QED
      BY <1>2, <1>7, <3>1
  <2> QED
    BY <1>1, <1>6, <2>2, <2>3, <2>4
<1> QED
  BY <1>8, <1>9

\* FlattenSeq of none and of one; of a concatenation; of a prefix.
LEMMA FlatNone ==
  FlattenSeq(<<>>) = <<>>
  BY FlatDef

\* The same of two sequences of sequences.
LEMMA FlatConcat ==
  ASSUME NEW S, NEW ss \in Seq(Seq(S)), NEW tt \in Seq(Seq(S))
  PROVE  FlattenSeq(ss \o tt) = FlattenSeq(ss) \o FlattenSeq(tt)
<1> DEFINE Good == {n \in Nat : \A uu \in Seq(Seq(S)) : Len(uu) = n =>
                        FlattenSeq(ss \o uu) = FlattenSeq(ss) \o FlattenSeq(uu)}
<1>1. 0 \in Good
  <2> SUFFICES ASSUME NEW uu \in Seq(Seq(S)), Len(uu) = 0
               PROVE  FlattenSeq(ss \o uu) = FlattenSeq(ss) \o FlattenSeq(uu)
    OBVIOUS
  <2>1. uu = <<>> /\ ss \o uu = ss
    OBVIOUS
  <2>2. FlattenSeq(ss) \in Seq(S)
    BY <2>1, FlatMore, EmptySeq
  <2> QED
    BY <2>1, <2>2, FlatNone
<1>2. ASSUME NEW n \in Nat, n \in Good  PROVE n + 1 \in Good
  <2> SUFFICES ASSUME NEW uu \in Seq(Seq(S)), Len(uu) = n + 1
               PROVE  FlattenSeq(ss \o uu) = FlattenSeq(ss) \o FlattenSeq(uu)
    OBVIOUS
  <2>1. PICK vv, x : vv = SubSeq(uu, 1, n) /\ x = uu[n + 1]
    OBVIOUS
  <2>2. vv \in Seq(Seq(S)) /\ Len(vv) = n /\ x \in Seq(S) /\ uu = vv \o <<x>>
    BY <2>1, LastOff
  <2>3. FlattenSeq(ss \o vv) = FlattenSeq(ss) \o FlattenSeq(vv)
    BY <1>2, <2>2
  <2>4. ss \o uu = (ss \o vv) \o <<x>> /\ ss \o vv \in Seq(Seq(S))
    BY <2>2
  <2>5. FlattenSeq((ss \o vv) \o <<x>>) = FlattenSeq(ss \o vv) \o x
    BY <2>2, <2>4, FlatMore
  <2>6. FlattenSeq(uu) = FlattenSeq(vv) \o x /\ FlattenSeq(vv) \in Seq(S)
    BY <2>2, FlatMore
  <2>7. FlattenSeq(ss) \in Seq(S)
    BY <2>2, FlatMore
  <2>8. PICK a, b : a = FlattenSeq(ss) /\ b = FlattenSeq(vv)
    OBVIOUS
  <2>9. (a \o b) \o x = a \o (b \o x)
    <3>1. a \in Seq(S) /\ b \in Seq(S) /\ x \in Seq(S)
      BY <2>2, <2>6, <2>7, <2>8
    <3>2. Cat(Cat(a, b), x) = Cat(a, Cat(b, x))
      BY <3>1, CatRegroup
    <3> QED
      BY <3>2 DEF Cat
  <2> QED
    BY <2>3, <2>4, <2>5, <2>6, <2>8, <2>9
<1>3. Good \in SUBSET Nat
  OBVIOUS
<1>4. Good = Nat
  <2> HIDE DEF Good
  <2> QED
    BY <1>1, <1>2, <1>3, Least
<1>5. Len(tt) \in Good
  BY <1>4
<1> QED
  BY <1>5

\* The first k + 1 sequences put together.
LEMMA FlatPrefix ==
  ASSUME NEW S, NEW ss \in Seq(Seq(S)), NEW k \in 0..(Len(ss) - 1)
  PROVE  /\ FlattenSeq(SubSeq(ss, 1, k)) \in Seq(S) /\ ss[k + 1] \in Seq(S)
         /\ FlattenSeq(SubSeq(ss, 1, k + 1)) = FlattenSeq(SubSeq(ss, 1, k)) \o ss[k + 1]
<1>1. PICK uu, x : uu = SubSeq(ss, 1, k) /\ x = ss[k + 1]
  OBVIOUS
<1>2. uu \in Seq(Seq(S)) /\ x \in Seq(S) /\ SubSeq(ss, 1, k + 1) = uu \o <<x>>
  BY <1>1, OneMore
<1>3. FlattenSeq(uu) \in Seq(S) /\ FlattenSeq(uu \o <<x>>) = FlattenSeq(uu) \o x
  BY <1>2, FlatMore
<1> QED
  BY <1>1, <1>2, <1>3

-----------------------------------------------------------------------------
(* Folds.  FoldLeft is a recursive function on sets of places; that there is one is shown
   place by place. *)

\* The steps of the folds of the model: `kind` says which, `par` is what it depends on.
LinesStep(acc, c) ==
    IF acc = <<>> \/ Last(Last(acc)) = NL THEN Append(acc, <<c>>)
    ELSE Append(Front(acc), Append(Last(acc), c))
NoRun == [del |-> <<>>, ins |-> <<>>, eq |-> <<>>]
RunsStep(runs, g) ==
    IF runs = <<>> \/ (g.kind # "eq" /\ Last(runs).eq # <<>>)
    THEN Append(runs, [NoRun EXCEPT ![g.kind] = g.s])
    ELSE Append(Front(runs), [Last(runs) EXCEPT ![g.kind] = @ \o g.s])
\* What a segment has of the old text (w = "del") or of the new one (w = "ins").
PartOf(w, g) == IF g.kind \in {w, "eq"} THEN g.s ELSE <<>>
LineBlocks(k, text) == LET lines == SplitLines(text) IN [i \in DOMAIN lines |-> Enc(k, lines[i])]
StepOf(kind, par, e, m) ==
    CASE kind = "apply" -> Splice(e, m, m.ins)
      [] kind = "patch" -> Splice(e, m, LineBlocks(par, m.ins))
      [] kind = "units" -> Splice(e, m, SplitLines(m.ins))
      [] kind = "lines" -> LinesStep(e, m)
      [] kind = "side" -> e \o PartOf(par, m)
      [] kind = "runside" -> e \o (m[par] \o m.eq)
      [] kind = "runs" -> RunsStep(e, m)
      [] kind = "count" -> e + (IF m.kind = "del" THEN 0 ELSE Len(m.s))
      [] kind = "blocks" -> ApplyChars(e, DecodeOps(Dec(par, m)))

IsFold(kind, par, base, s, f) ==
    f = [T \in SUBSET DOMAIN s |->
            IF T = {} THEN base
            ELSE StepOf(kind, par, f[T \ {Max(T)}], s[Max(T)])]
Fold(kind, par, base, s) == (CHOOSE f : IsFold(kind, par, base, s, f))[DOMAIN s]


\* The folds of the model are such folds.
LEMMA ApplyIsFold ==
  ASSUME NEW text, NEW ops
  PROVE  ApplyChars(text, ops) = Fold("apply", 0, text, ops)
  BY DEF ApplyChars, FoldLeft, MapThenFoldSet, IsFold, Fold, StepOf

\* SplitLines.
LEMMA SplitIsFold ==
  ASSUME NEW text
  PROVE  SplitLines(text) = Fold("lines", 0, <<>>, text)
  BY DEF SplitLines, FoldLeft, MapThenFoldSet, IsFold, Fold, StepOf, LinesStep

\* The runs of MergeRuns.
LEMMA RunsAreFold ==
  ASSUME NEW segs
  PROVE  FoldLeft(RunsStep, <<>>, segs) = Fold("runs", 0, <<>>, segs)
  BY DEF FoldLeft, MapThenFoldSet, IsFold, Fold, StepOf

\* The count of OpsFromSegs.
LEMMA CountIsFold ==
  ASSUME NEW segs
  PROVE  FoldLeft(LAMBDA n, g : n + (IF g.kind = "del" THEN 0 ELSE Len(g.s)), 0, segs)
         = Fold("count", 0, 0, segs)
  BY DEF FoldLeft, MapThenFoldSet, IsFold, Fold, StepOf

\* The text of DecryptFile.
LEMMA BlocksAreFold ==
  ASSUME NEW k, NEW base, NEW blocks
  PROVE  FoldLeft(LAMBDA t, c : ApplyChars(t, DecodeOps(Dec(k, c))), base, blocks)
         = Fold("blocks", k, base, blocks)
  BY DEF FoldLeft, MapThenFoldSet, IsFold, Fold, StepOf

\* A fold over one element more is one taken a step further.
LEMMA FoldGrows ==
  ASSUME NEW kind, NEW par, NEW base, NEW n \in Nat, NEW s, DOMAIN s = 1..n,
         NEW tt, DOMAIN tt = 1..(n + 1), \A i \in 1..n : tt[i] = s[i],
         NEW f, IsFold(kind, par, base, s, f)
  PROVE  \E g : IsFold(kind, par, base, tt, g)
<1>1. PICK g : g = [T \in SUBSET (1..(n + 1)) |->
                      IF n + 1 \in T THEN StepOf(kind, par, f[T \ {n + 1}], tt[n + 1])
                      ELSE f[T]]
  OBVIOUS
<1>2. ASSUME NEW T \in SUBSET (1..(n + 1))
      PROVE  g[T] = IF T = {} THEN base
                    ELSE StepOf(kind, par, g[T \ {Max(T)}], tt[Max(T)])
  <2>1. CASE n + 1 \in T
    <3>1. Max(T) = n + 1
      <4>1. Max(T) \in T /\ \A k \in T : k <= Max(T)
        <5>1. n + 1 \in Nat /\ T # {} /\ T \in SUBSET (0..(n + 1))
          BY <2>1
        <5> QED
          BY <5>1, MaxIn
      <4>2. Max(T) \in 1..(n + 1) /\ n + 1 <= Max(T)
        BY <2>1, <4>1
      <4> QED
        BY <4>2
    <3>2. T \ {n + 1} \in SUBSET (1..(n + 1)) /\ n + 1 \notin T \ {n + 1} /\ T # {}
      BY <2>1
    <3>3. g[T] = StepOf(kind, par, f[T \ {n + 1}], tt[n + 1])
      BY <1>1, <2>1
    <3>4. g[T \ {n + 1}] = f[T \ {n + 1}]
      BY <1>1, <3>2
    <3> QED
      BY <3>1, <3>2, <3>3, <3>4
  <2>2. CASE n + 1 \notin T
    <3>1. T \in SUBSET (1..n)
      BY <2>2
    <3>2. g[T] = f[T]
      BY <1>1, <2>2
    <3>3. CASE T = {}
      BY <3>1, <3>2, <3>3 DEF IsFold
    <3>4. CASE T # {}
      <4>1. PICK m : m = Max(T)
        OBVIOUS
      <4>0. m \in 1..n
        <5>1. T \in SUBSET (0..n)
          BY <3>1
        <5> QED
          BY <3>1, <3>4, <4>1, <5>1, MaxIn
      <4>2. T \ {m} \in SUBSET (1..n) /\ T \ {m} \in SUBSET (1..(n + 1)) /\ n + 1 \notin T \ {m}
        BY <2>2, <3>1
      <4>3. g[T \ {m}] = f[T \ {m}]
        BY <1>1, <4>2
      <4>4. f[T] = StepOf(kind, par, f[T \ {m}], s[m])
        BY <3>1, <3>4, <4>1 DEF IsFold
      <4> QED
        BY <3>2, <3>4, <4>0, <4>1, <4>3, <4>4
    <3> QED
      BY <3>3, <3>4
  <2> QED
    BY <2>1, <2>2
<1>3. IsFold(kind, par, base, tt, g)
  BY <1>1, <1>2 DEF IsFold
<1> QED
  BY <1>3

\* So there is one over any sequence.
LEMMA FoldExists ==
  ASSUME NEW kind, NEW par, NEW base, NEW S, NEW s \in Seq(S)
  PROVE  \E f : IsFold(kind, par, base, s, f)
<1> DEFINE Good == {k \in Nat : \A t \in Seq(S) : Len(t) = k => \E f : IsFold(kind, par, base, t, f)}
<1>1. 0 \in Good
  <2> SUFFICES ASSUME NEW t \in Seq(S), Len(t) = 0  PROVE \E f : IsFold(kind, par, base, t, f)
    OBVIOUS
  <2>1. PICK f : f = [T \in SUBSET DOMAIN t |-> base]
    OBVIOUS
  <2>2. \A T \in SUBSET DOMAIN t : T = {}
    OBVIOUS
  <2>3. IsFold(kind, par, base, t, f)
    BY <2>1, <2>2 DEF IsFold
  <2> QED
    BY <2>3
<1>2. ASSUME NEW k \in Nat, k \in Good  PROVE k + 1 \in Good
  <2> SUFFICES ASSUME NEW t \in Seq(S), Len(t) = k + 1
               PROVE  \E f : IsFold(kind, par, base, t, f)
    OBVIOUS
  <2>1. PICK u, x : u = SubSeq(t, 1, k) /\ x = t[k + 1]
    OBVIOUS
  <2>2. u \in Seq(S) /\ Len(u) = k /\ t = u \o <<x>>
    BY <2>1, LastOff
  <2>3. PICK f : IsFold(kind, par, base, u, f)
    BY <1>2, <2>2
  <2>4. DOMAIN u = 1..k /\ DOMAIN t = 1..(k + 1) /\ \A i \in 1..k : t[i] = u[i]
    BY <2>1, <2>2
  <2> QED
    BY <2>3, <2>4, FoldGrows
<1>3. Good \in SUBSET Nat
  OBVIOUS
<1> HIDE DEF Good
<1>4. Good = Nat
  BY <1>1, <1>2, <1>3, Least
<1>5. Len(s) \in Good
  BY <1>4
<1> QED
  BY <1>5 DEF Good

\* A fold over nothing is its start.
LEMMA FoldEmpty ==
  ASSUME NEW kind, NEW par, NEW base
  PROVE  Fold(kind, par, base, <<>>) = base
<1>1. PICK f : f = CHOOSE g : IsFold(kind, par, base, <<>>, g)
  OBVIOUS
<1>2. IsFold(kind, par, base, <<>>, f)
  <2>1. <<>> \in Seq({})
    OBVIOUS
  <2> QED
    BY <1>1, <2>1, FoldExists
<1>3. DOMAIN <<>> = {} /\ {} \in SUBSET DOMAIN <<>>
  OBVIOUS
<1>4. f[{}] = base
  BY <1>2, <1>3 DEF IsFold
<1> QED
  BY <1>1, <1>3, <1>4 DEF Fold

\* The largest of the first k numbers, and the others.
LEMMA MaxUpto ==
  ASSUME NEW k \in Nat, k > 0
  PROVE  Max(1..k) = k /\ (1..k) \ {Max(1..k)} = 1..(k - 1) /\ 1..k # {}
<1>1. PICK T : T = 1..k
  OBVIOUS
<1>2. T \in SUBSET (0..k) /\ T # {} /\ k \in T
  BY <1>1
<1>3. Max(T) \in T /\ \A x \in T : x <= Max(T)
  BY <1>2, MaxIn
<1>4. Max(T) \in 1..k /\ k <= Max(T)
  BY <1>1, <1>2, <1>3
<1>5. Max(T) = k
  BY <1>4
<1>6. T \ {k} = 1..(k - 1)
  BY <1>1
<1> QED
  BY <1>1, <1>2, <1>5, <1>6

\* Two such functions, of a sequence and of one that goes on, agree.
LEMMA FoldSame ==
  ASSUME NEW kind, NEW par, NEW base, NEW n \in Nat, NEW s, DOMAIN s = 1..n,
         NEW tt, DOMAIN tt = 1..(n + 1), \A i \in 1..n : tt[i] = s[i],
         NEW f, IsFold(kind, par, base, s, f), NEW g, IsFold(kind, par, base, tt, g)
  PROVE  f[1..n] = g[1..n]
<1> DEFINE Good == {k \in Nat : k <= n => f[1..k] = g[1..k]}
<1>1. 0 \in Good
  <2>1. 1..0 = {} /\ {} \in SUBSET DOMAIN s /\ {} \in SUBSET DOMAIN tt
    OBVIOUS
  <2>2. f[{}] = base /\ g[{}] = base
    BY <2>1 DEF IsFold
  <2> QED
    BY <2>1, <2>2
<1>2. ASSUME NEW k \in Nat, k \in Good  PROVE k + 1 \in Good
  <2> SUFFICES ASSUME k + 1 <= n  PROVE f[1..(k + 1)] = g[1..(k + 1)]
    OBVIOUS
  <2>1. PICK T : T = 1..(k + 1)
    OBVIOUS
  <2>2. Max(T) = k + 1 /\ T \ {Max(T)} = 1..k /\ T # {}
    <3>1. k + 1 \in Nat /\ k + 1 > 0 /\ (k + 1) - 1 = k
      OBVIOUS
    <3> QED
      BY <2>1, <3>1, MaxUpto
  <2>3. T \in SUBSET DOMAIN s /\ T \in SUBSET DOMAIN tt
    BY <2>1
  <2>4. /\ f[T] = StepOf(kind, par, f[T \ {Max(T)}], s[Max(T)])
        /\ g[T] = StepOf(kind, par, g[T \ {Max(T)}], tt[Max(T)])
    BY <2>2, <2>3 DEF IsFold
  <2>5. f[1..k] = g[1..k] /\ tt[k + 1] = s[k + 1]
    BY <1>2
  <2> QED
    BY <2>1, <2>2, <2>4, <2>5
<1>3. Good \in SUBSET Nat
  OBVIOUS
<1> HIDE DEF Good
<1>4. Good = Nat
  BY <1>1, <1>2, <1>3, Least
<1>5. n \in Good
  BY <1>4
<1> QED
  BY <1>5 DEF Good

\* A fold over one element more takes one step more.
LEMMA FoldMore ==
  ASSUME NEW kind, NEW par, NEW base, NEW S, NEW s \in Seq(S), NEW x \in S
  PROVE  Fold(kind, par, base, s \o <<x>>) = StepOf(kind, par, Fold(kind, par, base, s), x)
<1>1. PICK n, tt : n = Len(s) /\ tt = s \o <<x>>
  OBVIOUS
<1>2. /\ n \in Nat /\ tt \in Seq(S) /\ tt[n + 1] = x
      /\ DOMAIN s = 1..n /\ DOMAIN tt = 1..(n + 1) /\ \A i \in 1..n : tt[i] = s[i]
  BY <1>1
<1>3. PICK f, g : /\ f = CHOOSE h : IsFold(kind, par, base, s, h)
                  /\ g = CHOOSE h : IsFold(kind, par, base, tt, h)
  OBVIOUS
<1>4. IsFold(kind, par, base, s, f) /\ IsFold(kind, par, base, tt, g)
  <2>1. \E h : IsFold(kind, par, base, s, h)
    BY FoldExists
  <2>2. \E h : IsFold(kind, par, base, tt, h)
    BY <1>2, FoldExists
  <2> QED
    BY <1>3, <2>1, <2>2
<1>5. f[1..n] = g[1..n]
  BY <1>2, <1>4, FoldSame
<1>6. PICK T : T = 1..(n + 1)
  OBVIOUS
<1>7. Max(T) = n + 1 /\ T \ {Max(T)} = 1..n /\ T # {}
  <2>1. n + 1 \in Nat /\ n + 1 > 0 /\ (n + 1) - 1 = n
    BY <1>2
  <2> QED
    BY <1>6, <2>1, MaxUpto
<1>8. T \in SUBSET DOMAIN tt
  BY <1>2, <1>6
<1>9. g[T] = StepOf(kind, par, g[T \ {Max(T)}], tt[Max(T)])
  BY <1>4, <1>7, <1>8 DEF IsFold
<1>10. Fold(kind, par, base, s) = f[1..n] /\ Fold(kind, par, base, tt) = g[T]
  BY <1>2, <1>3, <1>6 DEF Fold
<1> QED
  BY <1>1, <1>2, <1>5, <1>7, <1>9, <1>10

\* What holds of no elements, and of one more after any, holds of all sequences.
LEMMA SeqInduct ==
  ASSUME NEW S, NEW Good \in SUBSET Seq(S), <<>> \in Good,
         \A s \in Seq(S), x \in S : s \in Good => s \o <<x>> \in Good
  PROVE  Good = Seq(S)
<1> DEFINE Nums == {n \in Nat : \A s \in Seq(S) : Len(s) = n => s \in Good}
<1>1. 0 \in Nums
  BY EmptySeq
<1>2. ASSUME NEW n \in Nat, n \in Nums  PROVE n + 1 \in Nums
  <2> SUFFICES ASSUME NEW s \in Seq(S), Len(s) = n + 1  PROVE s \in Good
    OBVIOUS
  <2>1. PICK u, x : u = SubSeq(s, 1, n) /\ x = s[n + 1]
    OBVIOUS
  <2>2. u \in Seq(S) /\ Len(u) = n /\ x \in S /\ s = u \o <<x>>
    BY <2>1, LastOff
  <2> QED
    BY <1>2, <2>2
<1>3. Nums \in SUBSET Nat
  OBVIOUS
<1>4. Nums = Nat
  <2> HIDE DEF Nums
  <2> QED
    BY <1>1, <1>2, <1>3, Least
<1>5. ASSUME NEW s \in Seq(S)  PROVE s \in Good
  <2>1. Len(s) \in Nums
    BY <1>4
  <2> QED
    BY <2>1
<1> QED
  BY <1>5

\* A fold over two sequences goes on where it was after the first.
LEMMA FoldConcat ==
  ASSUME NEW kind, NEW par, NEW base, NEW S, NEW s \in Seq(S), NEW t \in Seq(S)
  PROVE  Fold(kind, par, base, s \o t) = Fold(kind, par, Fold(kind, par, base, s), t)
<1> DEFINE Good == {u \in Seq(S) : Fold(kind, par, base, s \o u)
                                   = Fold(kind, par, Fold(kind, par, base, s), u)}
<1>1. <<>> \in Good
  BY FoldEmpty
<1>2. ASSUME NEW u \in Seq(S), NEW x \in S, u \in Good  PROVE u \o <<x>> \in Good
  <2>1. s \o u \in Seq(S) /\ s \o (u \o <<x>>) = (s \o u) \o <<x>> /\ u \o <<x>> \in Seq(S)
    OBVIOUS
  <2>2. Fold(kind, par, base, (s \o u) \o <<x>>) = StepOf(kind, par, Fold(kind, par, base, s \o u), x)
    <3>1. PICK v : v = s \o u
      OBVIOUS
    <3>2. v \in Seq(S)
      BY <2>1, <3>1
    <3>3. Fold(kind, par, base, v \o <<x>>) = StepOf(kind, par, Fold(kind, par, base, v), x)
      BY <3>2, FoldMore
    <3> QED
      BY <3>1, <3>3
  <2>3. PICK b : b = Fold(kind, par, base, s)
    OBVIOUS
  <2>4. Fold(kind, par, b, u \o <<x>>) = StepOf(kind, par, Fold(kind, par, b, u), x)
    BY FoldMore
  <2> QED
    BY <1>2, <2>1, <2>2, <2>3, <2>4
<1>3. Good \in SUBSET Seq(S)
  OBVIOUS
<1>4. Good = Seq(S)
  <2> HIDE DEF Good
  <2> QED
    BY <1>1, <1>2, <1>3, SeqInduct
<1> QED
  BY <1>4

\* A fold over one element is one step.
LEMMA FoldOne ==
  ASSUME NEW kind, NEW par, NEW base, NEW x
  PROVE  Fold(kind, par, base, <<x>>) = StepOf(kind, par, base, x)
<1>1. PICK S, e : S = {x} /\ e = <<>>
  OBVIOUS
<1>2. e \in Seq(S) /\ x \in S /\ e \o <<x>> = <<x>>
  BY <1>1
<1>3. Fold(kind, par, base, e \o <<x>>) = StepOf(kind, par, Fold(kind, par, base, e), x)
  BY <1>2, FoldMore
<1> QED
  BY <1>1, <1>2, <1>3, FoldEmpty

-----------------------------------------------------------------------------
(* The walk through the table: whatever the table holds, the walk collects places where
   the two sequences agree, each further on in both than the one before. *)

Cells(a, b) == (1..(Len(a) + 1)) \X (1..(Len(b) + 1))
Ends(a, b, c) == c[1] > Len(a) \/ c[2] > Len(b)
Down(c) == <<c[1] + 1, c[2]>>
Right(c) == <<c[1], c[2] + 1>>
Diagonal(c) == <<c[1] + 1, c[2] + 1>>
WalkFrom(a, b, dp, w, c) ==
    IF Ends(a, b, c) THEN <<>>
    ELSE IF a[c[1]] = b[c[2]] THEN <<c>> \o w[Diagonal(c)]
    ELSE IF dp[Down(c)] >= dp[Right(c)] THEN w[Down(c)]
    ELSE w[Right(c)]
IsWalk(a, b, dp, w) == w = [c \in Cells(a, b) |-> WalkFrom(a, b, dp, w, c)]

\* How far a cell is from the end of the table.
Rest(a, b, c) == (Len(a) + 1 - c[1]) + (Len(b) + 1 - c[2])

\* LcsPairs is the walk from the first cell.
LEMMA LcsIsWalk ==
  ASSUME NEW a, NEW b
  PROVE  \E dp : LcsPairs(a, b) = (CHOOSE w : IsWalk(a, b, dp, w))[<<1, 1>>]
  BY DEF LcsPairs, IsWalk, WalkFrom, Ends, Cells, Down, Right, Diagonal

\* A cell and those the walk goes on to.
LEMMA CellFacts ==
  ASSUME NEW S, NEW a \in Seq(S), NEW b \in Seq(S), NEW c \in Cells(a, b)
  PROVE  /\ c[1] \in 1..(Len(a) + 1) /\ c[2] \in 1..(Len(b) + 1) /\ c = <<c[1], c[2]>>
         /\ Rest(a, b, c) \in Nat /\ Rest(a, b, c) <= Len(a) + Len(b)
         /\ Rest(a, b, c) = 0 => Ends(a, b, c)
         /\ ~Ends(a, b, c) => /\ c[1] \in 1..Len(a) /\ c[2] \in 1..Len(b)
                              /\ \A d \in {Down(c), Right(c), Diagonal(c)} :
                                    d \in Cells(a, b) /\ Rest(a, b, d) < Rest(a, b, c)
<1>1. PICK i \in 1..(Len(a) + 1), j \in 1..(Len(b) + 1) : c = <<i, j>>
  BY DEF Cells
<1>2. c[1] = i /\ c[2] = j /\ Len(a) \in Nat /\ Len(b) \in Nat
  BY <1>1
<1>3. ASSUME ~Ends(a, b, c)
      PROVE  i \in 1..Len(a) /\ j \in 1..Len(b)
  BY <1>2, <1>3 DEF Ends
<1>4. ASSUME ~Ends(a, b, c)
      PROVE  \A d \in {Down(c), Right(c), Diagonal(c)} :
                  d \in Cells(a, b) /\ Rest(a, b, d) < Rest(a, b, c)
  <2>1. Down(c) = <<i + 1, j>> /\ Right(c) = <<i, j + 1>> /\ Diagonal(c) = <<i + 1, j + 1>>
    BY <1>2 DEF Down, Right, Diagonal
  <2> QED
    BY <1>2, <1>3, <1>4, <2>1 DEF Cells, Rest
<1> QED
  BY <1>1, <1>2, <1>3, <1>4 DEF Rest, Ends

\* There is such a walk.
LEMMA WalkExists ==
  ASSUME NEW S, NEW a \in Seq(S), NEW b \in Seq(S), NEW dp
  PROVE  \E w : IsWalk(a, b, dp, w)
<1> DEFINE Good == {n \in Nat : \E w : \A c \in Cells(a, b) :
                        Rest(a, b, c) <= n => w[c] = WalkFrom(a, b, dp, w, c)}
<1>1. 0 \in Good
  <2>1. PICK w : w = [c \in Cells(a, b) |-> <<>>]
    OBVIOUS
  <2>2. ASSUME NEW c \in Cells(a, b), Rest(a, b, c) <= 0
        PROVE  w[c] = WalkFrom(a, b, dp, w, c)
    <3>1. Ends(a, b, c)
      BY <2>2, CellFacts
    <3> QED
      BY <2>1, <3>1 DEF WalkFrom
  <2> QED
    BY <2>2
<1>2. ASSUME NEW n \in Nat, n \in Good  PROVE n + 1 \in Good
  <2>1. PICK w : \A c \in Cells(a, b) : Rest(a, b, c) <= n => w[c] = WalkFrom(a, b, dp, w, c)
    BY <1>2
  <2>2. PICK v : v = [c \in Cells(a, b) |-> IF Rest(a, b, c) <= n THEN w[c]
                                            ELSE WalkFrom(a, b, dp, w, c)]
    OBVIOUS
  <2>3. ASSUME NEW c \in Cells(a, b), Rest(a, b, c) <= n + 1
        PROVE  v[c] = WalkFrom(a, b, dp, v, c)
    <3>1. v[c] = WalkFrom(a, b, dp, w, c)
      BY <2>1, <2>2
    <3>2. CASE Ends(a, b, c)
      BY <3>1, <3>2 DEF WalkFrom
    <3>3. CASE ~Ends(a, b, c)
      <4>1. \A d \in {Down(c), Right(c), Diagonal(c)} :
                d \in Cells(a, b) /\ Rest(a, b, d) < Rest(a, b, c)
        BY <3>3, CellFacts
      <4>2. ASSUME NEW d \in {Down(c), Right(c), Diagonal(c)}  PROVE v[d] = w[d]
        <5>1. d \in Cells(a, b) /\ Rest(a, b, d) \in Nat /\ Rest(a, b, c) \in Nat
          BY <4>1, CellFacts
        <5>2. Rest(a, b, d) <= n
          BY <2>3, <4>1, <5>1
        <5> QED
          BY <2>2, <5>1, <5>2
      <4>3. v[Down(c)] = w[Down(c)] /\ v[Right(c)] = w[Right(c)] /\ v[Diagonal(c)] = w[Diagonal(c)]
        BY <4>2
      <4> QED
        BY <3>1, <4>3 DEF WalkFrom
    <3> QED
      BY <3>2, <3>3
  <2> QED
    BY <2>3
<1>3. Good \in SUBSET Nat
  OBVIOUS
<1>4. Good = Nat
  <2> HIDE DEF Good
  <2> QED
    BY <1>1, <1>2, <1>3, Least
<1>5. Len(a) + Len(b) \in Good
  <2>1. Len(a) + Len(b) \in Nat
    OBVIOUS
  <2> HIDE DEF Good
  <2> QED
    BY <1>4, <2>1
<1>6. PICK w : \A c \in Cells(a, b) :
                  Rest(a, b, c) <= Len(a) + Len(b) => w[c] = WalkFrom(a, b, dp, w, c)
  BY <1>5
<1>7. \A c \in Cells(a, b) : w[c] = WalkFrom(a, b, dp, w, c)
  BY <1>6, CellFacts
<1>8. PICK v : v = [c \in Cells(a, b) |-> w[c]]
  OBVIOUS
<1>9. ASSUME NEW c \in Cells(a, b)  PROVE v[c] = WalkFrom(a, b, dp, v, c)
  <2>1. v[c] = WalkFrom(a, b, dp, w, c)
    BY <1>7, <1>8
  <2>2. CASE Ends(a, b, c)
    BY <2>1, <2>2 DEF WalkFrom
  <2>3. CASE ~Ends(a, b, c)
    <3>1. Down(c) \in Cells(a, b) /\ Right(c) \in Cells(a, b) /\ Diagonal(c) \in Cells(a, b)
      BY <2>3, CellFacts
    <3>2. v[Down(c)] = w[Down(c)] /\ v[Right(c)] = w[Right(c)] /\ v[Diagonal(c)] = w[Diagonal(c)]
      BY <1>8, <3>1
    <3> QED
      BY <2>1, <3>2 DEF WalkFrom
  <2> QED
    BY <2>2, <2>3
<1>10. v = [c \in Cells(a, b) |-> WalkFrom(a, b, dp, v, c)]
  BY <1>8, <1>9
<1> QED
  BY <1>10 DEF IsWalk

\* Matching pairs of places from cell c on.
Matching(a, b, c, ps) ==
    /\ ps \in Seq(Nat \X Nat)
    /\ \A k \in 1..Len(ps) : /\ ps[k][1] \in c[1]..Len(a) /\ ps[k][2] \in c[2]..Len(b)
                             /\ a[ps[k][1]] = b[ps[k][2]]
    /\ \A k \in 1..(Len(ps) - 1) : ps[k][1] < ps[k + 1][1] /\ ps[k][2] < ps[k + 1][2]

\* What matches further on matches from here on, and one place more can go before it.
LEMMA MatchFurther ==
  ASSUME NEW S, NEW a \in Seq(S), NEW b \in Seq(S), NEW c \in Cells(a, b), ~Ends(a, b, c), NEW ps
  PROVE  /\ Matching(a, b, Down(c), ps) \/ Matching(a, b, Right(c), ps) => Matching(a, b, c, ps)
         /\ Matching(a, b, Diagonal(c), ps) /\ a[c[1]] = b[c[2]] => Matching(a, b, c, <<c>> \o ps)
<1>1. PICK i \in 1..Len(a), j \in 1..Len(b) : c = <<i, j>> /\ c[1] = i /\ c[2] = j
  BY CellFacts
<1>2. /\ Down(c)[1] = i + 1 /\ Down(c)[2] = j /\ Right(c)[1] = i /\ Right(c)[2] = j + 1
      /\ Diagonal(c)[1] = i + 1 /\ Diagonal(c)[2] = j + 1
  BY <1>1 DEF Down, Right, Diagonal
<1>3. ASSUME NEW p \in Nat \X Nat  PROVE p[1] \in Nat /\ p[2] \in Nat
  OBVIOUS
<1>4. ASSUME Matching(a, b, Down(c), ps) \/ Matching(a, b, Right(c), ps)
      PROVE  Matching(a, b, c, ps)
  <2>1. /\ ps \in Seq(Nat \X Nat)
        /\ \A k \in 1..Len(ps) : a[ps[k][1]] = b[ps[k][2]]
        /\ \A k \in 1..(Len(ps) - 1) : ps[k][1] < ps[k + 1][1] /\ ps[k][2] < ps[k + 1][2]
    BY <1>4 DEF Matching
  <2>2. ASSUME NEW k \in 1..Len(ps)  PROVE ps[k][1] \in i..Len(a) /\ ps[k][2] \in j..Len(b)
    <3>1. ps[k][1] \in Nat /\ ps[k][2] \in Nat
      BY <1>3, <2>1
    <3>2. \/ ps[k][1] \in (i + 1)..Len(a) /\ ps[k][2] \in j..Len(b)
          \/ ps[k][1] \in i..Len(a) /\ ps[k][2] \in (j + 1)..Len(b)
      BY <1>2, <1>4 DEF Matching
    <3> QED
      BY <3>1, <3>2
  <2> QED
    BY <1>1, <2>1, <2>2 DEF Matching
<1>5. ASSUME Matching(a, b, Diagonal(c), ps), a[c[1]] = b[c[2]]
      PROVE  Matching(a, b, c, <<c>> \o ps)
  <2>1. /\ ps \in Seq(Nat \X Nat)
        /\ \A k \in 1..Len(ps) : /\ ps[k][1] \in (i + 1)..Len(a) /\ ps[k][2] \in (j + 1)..Len(b)
                                 /\ a[ps[k][1]] = b[ps[k][2]]
        /\ \A k \in 1..(Len(ps) - 1) : ps[k][1] < ps[k + 1][1] /\ ps[k][2] < ps[k + 1][2]
    BY <1>2, <1>5 DEF Matching
  <2>2. PICK qs : qs = <<c>> \o ps
    OBVIOUS
  <2>3. /\ qs \in Seq(Nat \X Nat) /\ Len(qs) = Len(ps) + 1 /\ qs[1] = c
        /\ \A k \in 1..Len(ps) : qs[k + 1] = ps[k]
    <3>1. c \in Nat \X Nat
      BY <1>1
    <3> QED
      BY <2>1, <2>2, <3>1
  <2>4. ASSUME NEW k \in 1..Len(qs)
        PROVE  /\ qs[k][1] \in i..Len(a) /\ qs[k][2] \in j..Len(b) /\ a[qs[k][1]] = b[qs[k][2]]
               /\ k > 1 => qs[k][1] > i /\ qs[k][2] > j
    <3>1. CASE k = 1
      BY <1>1, <1>5, <2>3, <3>1
    <3>2. CASE k > 1
      <4>1. k - 1 \in 1..Len(ps) /\ (k - 1) + 1 = k
        BY <2>1, <2>3, <3>2
      <4>2. qs[k] = ps[k - 1]
        BY <2>3, <4>1
      <4>3. /\ ps[k - 1][1] \in (i + 1)..Len(a) /\ ps[k - 1][2] \in (j + 1)..Len(b)
            /\ a[ps[k - 1][1]] = b[ps[k - 1][2]]
        BY <2>1, <4>1
      <4> QED
        BY <4>2, <4>3
    <3> QED
      BY <2>1, <2>3, <3>1, <3>2
  <2>5. ASSUME NEW k \in 1..(Len(qs) - 1)
        PROVE  qs[k][1] < qs[k + 1][1] /\ qs[k][2] < qs[k + 1][2]
    <3>1. CASE k = 1
      <4>1. k + 1 \in 1..Len(qs) /\ k + 1 > 1
        BY <2>1, <2>3, <3>1
      <4> QED
        BY <1>1, <2>3, <2>4, <3>1, <4>1
    <3>2. CASE k > 1
      <4>1. k - 1 \in 1..(Len(ps) - 1) /\ k - 1 \in 1..Len(ps) /\ k \in 1..Len(ps) /\ (k - 1) + 1 = k
        BY <2>1, <2>3, <3>2
      <4>2. qs[k] = ps[k - 1] /\ qs[k + 1] = ps[k]
        BY <2>3, <4>1
      <4>3. ps[k - 1][1] < ps[(k - 1) + 1][1] /\ ps[k - 1][2] < ps[(k - 1) + 1][2]
        BY <2>1, <4>1
      <4> QED
        BY <4>1, <4>2, <4>3
    <3> QED
      BY <2>1, <2>3, <3>1, <3>2
  <2> QED
    BY <1>1, <2>2, <2>3, <2>4, <2>5 DEF Matching
<1> QED
  BY <1>4, <1>5

\* The walk from any cell is a matching.
LEMMA WalkMatches ==
  ASSUME NEW S, NEW a \in Seq(S), NEW b \in Seq(S), NEW dp, NEW w, IsWalk(a, b, dp, w),
         NEW c \in Cells(a, b)
  PROVE  Matching(a, b, c, w[c])
<1> DEFINE Good == {n \in Nat : \A d \in Cells(a, b) : Rest(a, b, d) <= n => Matching(a, b, d, w[d])}
<1>0. ASSUME NEW d \in Cells(a, b), Ends(a, b, d)  PROVE Matching(a, b, d, w[d])
  <2>1. w[d] = <<>>
    BY <1>0 DEF IsWalk, WalkFrom
  <2> QED
    BY <2>1 DEF Matching
<1>1. 0 \in Good
  <2> SUFFICES ASSUME NEW d \in Cells(a, b), Rest(a, b, d) <= 0  PROVE Matching(a, b, d, w[d])
    OBVIOUS
  <2>1. Ends(a, b, d)
    BY CellFacts
  <2> QED
    BY <1>0, <2>1
<1>2. ASSUME NEW n \in Nat, n \in Good  PROVE n + 1 \in Good
  <2> SUFFICES ASSUME NEW d \in Cells(a, b), Rest(a, b, d) <= n + 1  PROVE Matching(a, b, d, w[d])
    OBVIOUS
  <2>1. CASE ~Ends(a, b, d)
    <3>1. \A e \in {Down(d), Right(d), Diagonal(d)} :
              e \in Cells(a, b) /\ Rest(a, b, e) < Rest(a, b, d)
      BY <2>1, CellFacts
    <3>2. ASSUME NEW e \in {Down(d), Right(d), Diagonal(d)}  PROVE Matching(a, b, e, w[e])
      <4>1. e \in Cells(a, b) /\ Rest(a, b, e) \in Nat /\ Rest(a, b, d) \in Nat
        BY <3>1, CellFacts
      <4>2. Rest(a, b, e) <= n
        BY <3>1, <4>1
      <4> QED
        BY <1>2, <4>1, <4>2
    <3>3. w[d] = IF a[d[1]] = b[d[2]] THEN <<d>> \o w[Diagonal(d)]
                 ELSE IF dp[Down(d)] >= dp[Right(d)] THEN w[Down(d)] ELSE w[Right(d)]
      BY <2>1 DEF IsWalk, WalkFrom
    <3>4. /\ Matching(a, b, Down(d), w[Down(d)]) /\ Matching(a, b, Right(d), w[Right(d)])
          /\ Matching(a, b, Diagonal(d), w[Diagonal(d)])
      BY <3>2
    <3>5. CASE a[d[1]] = b[d[2]]
      <4>1. Matching(a, b, d, <<d>> \o w[Diagonal(d)])
        BY <2>1, <3>4, <3>5, MatchFurther
      <4> QED
        BY <3>3, <3>5, <4>1
    <3>6. CASE a[d[1]] # b[d[2]]
      <4>1. Matching(a, b, d, w[Down(d)]) /\ Matching(a, b, d, w[Right(d)])
        BY <2>1, <3>4, MatchFurther
      <4> QED
        BY <3>3, <3>6, <4>1
    <3> QED
      BY <3>5, <3>6
  <2> QED
    BY <1>0, <2>1
<1>3. Good \in SUBSET Nat
  OBVIOUS
<1>4. Good = Nat
  <2> HIDE DEF Good
  <2> QED
    BY <1>1, <1>2, <1>3, Least
<1>5. Rest(a, b, c) \in Nat
  BY CellFacts
<1>6. Rest(a, b, c) \in Good
  BY <1>4, <1>5
<1> QED
  BY <1>5, <1>6

\* What two sequences have in common, as lcs_pairs finds it.
Start == <<1, 1>>
LEMMA LcsMatches ==
  ASSUME NEW S, NEW a \in Seq(S), NEW b \in Seq(S)
  PROVE  Matching(a, b, Start, LcsPairs(a, b))
<1>1. PICK dp : LcsPairs(a, b) = (CHOOSE w : IsWalk(a, b, dp, w))[<<1, 1>>]
  BY LcsIsWalk
<1>2. PICK w : w = CHOOSE v : IsWalk(a, b, dp, v)
  OBVIOUS
<1>3. IsWalk(a, b, dp, w)
  BY <1>2, WalkExists
<1>4. Start \in Cells(a, b)
  BY DEF Start, Cells
<1>5. Matching(a, b, Start, w[Start])
  BY <1>3, <1>4, WalkMatches
<1> QED
  BY <1>1, <1>2, <1>5 DEF Start

-----------------------------------------------------------------------------
(* Splicing *)

\* An operation deletes or inserts.
Ops == {o \in [idx : Nat, del : Nat, ins : Seq(Nat)] : o.del = 0 \/ o.ins = <<>>}

\* Taking units out of a sequence, and putting units into it.
LEMMA SpliceOut ==
  ASSUME NEW S, NEW x \in Seq(S), NEW y \in Seq(S), NEW z \in Seq(S), NEW o,
         o.idx = Len(x), o.del = Len(y)
  PROVE  Splice(Cat(Cat(x, y), z), o, <<>>) = Cat(x, z)
<1>1. PICK v : v = (x \o y) \o z
  OBVIOUS
<1>2. v \in Seq(S) /\ Len(v) = Len(x) + Len(y) + Len(z)
  BY <1>1
<1>3. /\ MinOf(o.idx, Len(v)) = Len(x)
      /\ MinOf(Len(x) + o.del, Len(v)) = Len(x) + Len(y)
  <2>1. PICK i, j, k : i = Len(x) /\ j = Len(y) /\ k = Len(z)
    OBVIOUS
  <2>2. i \in Nat /\ j \in Nat /\ k \in Nat /\ Len(v) = i + j + k
    BY <1>2, <2>1
  <2>3. MinOf(i, i + j + k) = i /\ MinOf(i + j, i + j + k) = i + j
    BY <2>2 DEF MinOf
  <2> QED
    BY <2>1, <2>2, <2>3
<1>4. SubSeq(v, 1, Len(x)) = x /\ SubSeq(v, Len(x) + Len(y) + 1, Len(v)) = z
  BY <1>1, <1>2
<1>5. Splice(v, o, <<>>) = (x \o <<>>) \o z
  BY <1>3, <1>4 DEF Splice
<1>6. x \o <<>> = x
  OBVIOUS
<1> QED
  BY <1>1, <1>5, <1>6 DEF Cat

\* The same of an insertion.
LEMMA SpliceIn ==
  ASSUME NEW S, NEW x \in Seq(S), NEW u \in Seq(S), NEW z \in Seq(S), NEW o,
         o.idx = Len(x), o.del = 0
  PROVE  Splice(Cat(x, z), o, u) = Cat(Cat(x, u), z)
<1>1. PICK v : v = x \o z
  OBVIOUS
<1>2. v \in Seq(S) /\ Len(v) = Len(x) + Len(z)
  BY <1>1
<1>3. /\ MinOf(o.idx, Len(v)) = Len(x)
      /\ MinOf(Len(x) + o.del, Len(v)) = Len(x)
  BY <1>2 DEF MinOf
<1>4. SubSeq(v, 1, Len(x)) = x /\ SubSeq(v, Len(x) + 1, Len(v)) = z
  BY <1>1, <1>2
<1>5. Splice(v, o, u) = (x \o u) \o z
  BY <1>3, <1>4 DEF Splice
<1> QED
  BY <1>1, <1>5 DEF Cat

-----------------------------------------------------------------------------
(* Lines *)

\* A line: characters of which only the last may end it.
IsLine(l) == l \in Seq(Nat) /\ l # <<>> /\ \A j \in 1..(Len(l) - 1) : l[j] # NL
LinesLike(ls) ==
    /\ ls \in Seq(Seq(Nat))
    /\ \A i \in 1..Len(ls) : IsLine(ls[i])
    /\ \A i \in 1..(Len(ls) - 1) : Last(ls[i]) = NL

\* Any stretch of lines is lines.
LEMMA LinesSub ==
  ASSUME NEW ls, LinesLike(ls), NEW i \in Nat, NEW j \in Nat, i > 0, j <= Len(ls)
  PROVE  LinesLike(SubSeq(ls, i, j))
<1>1. ls \in Seq(Seq(Nat))
  BY DEF LinesLike
<1>2. PICK t : t = SubSeq(ls, i, j)
  OBVIOUS
<1>3. t \in Seq(Seq(Nat)) /\ \A k \in 1..Len(t) : t[k] = ls[i + k - 1] /\ i + k - 1 \in 1..j
  BY <1>1, <1>2
<1>4. \A k \in 1..Len(t) : IsLine(t[k])
  BY <1>1, <1>3 DEF LinesLike
<1>5. ASSUME NEW k \in 1..(Len(t) - 1)  PROVE Last(t[k]) = NL
  <2>1. k \in 1..Len(t) /\ k + 1 \in 1..Len(t)
    BY <1>3
  <2>2. i + k - 1 \in 1..j /\ i + (k + 1) - 1 \in 1..j /\ t[k] = ls[i + k - 1]
    BY <1>3, <2>1
  <2>3. i + k - 1 \in 1..(Len(ls) - 1)
    BY <1>1, <2>2
  <2> QED
    BY <2>2, <2>3 DEF LinesLike
<1> QED
  BY <1>2, <1>3, <1>4, <1>5 DEF LinesLike

\* Splitting a text gives lines, and the lines give the text.
LEMMA SplitFlat ==
  ASSUME NEW text \in Seq(Nat)
  PROVE  LinesLike(SplitLines(text)) /\ FlattenSeq(SplitLines(text)) = text
<1> DEFINE Good == {t \in Seq(Nat) : LinesLike(SplitLines(t)) /\ FlattenSeq(SplitLines(t)) = t}
<1>1. <<>> \in Good
  <2>1. SplitLines(<<>>) = <<>>
    BY SplitIsFold, FoldEmpty
  <2>2. LinesLike(<<>>)
    BY DEF LinesLike
  <2>3. <<>> \in Seq(Nat)
    OBVIOUS
  <2> QED
    BY <2>1, <2>2, <2>3, FlatNone
<1>2. ASSUME NEW t \in Seq(Nat), NEW c \in Nat, t \in Good  PROVE t \o <<c>> \in Good
  <2>1. PICK ls : ls = SplitLines(t)
    OBVIOUS
  <2>2. LinesLike(ls) /\ FlattenSeq(ls) = t /\ ls \in Seq(Seq(Nat)) /\ t \o <<c>> \in Seq(Nat)
    BY <1>2, <2>1 DEF LinesLike
  <2>3. SplitLines(t \o <<c>>) = LinesStep(ls, c)
    <3>1. PICK u : u = t \o <<c>>
      OBVIOUS
    <3>2. Fold("lines", 0, <<>>, t \o <<c>>) = StepOf("lines", 0, Fold("lines", 0, <<>>, t), c)
      BY FoldMore
    <3>3. SplitLines(t) = Fold("lines", 0, <<>>, t) /\ SplitLines(u) = Fold("lines", 0, <<>>, u)
      BY SplitIsFold
    <3>4. StepOf("lines", 0, ls, c) = LinesStep(ls, c)
      BY DEF StepOf
    <3> QED
      BY <2>1, <3>1, <3>2, <3>3, <3>4
  <2>4. PICK n : n = Len(ls)
    OBVIOUS
  <2>5. CASE ls = <<>> \/ Last(Last(ls)) = NL
    <3>1. PICK l : l = <<c>>
      OBVIOUS
    <3>2. IsLine(l) /\ l \in Seq(Nat)
      BY <3>1 DEF IsLine
    <3>3. LinesStep(ls, c) = ls \o <<l>>
      BY <2>2, <2>5, <3>1 DEF LinesStep
    <3>4. LinesLike(ls \o <<l>>)
      <4>1. PICK ms : ms = ls \o <<l>>
        OBVIOUS
      <4>2. /\ ms \in Seq(Seq(Nat)) /\ Len(ms) = n + 1 /\ n \in Nat /\ ms[n + 1] = l
            /\ \A i \in 1..n : ms[i] = ls[i]
        BY <2>2, <2>4, <3>2, <4>1
      <4>3. \A i \in 1..Len(ms) : IsLine(ms[i])
        <5> TAKE i \in 1..Len(ms)
        <5>1. i = n + 1 \/ i \in 1..n
          BY <4>2
        <5> QED
          BY <2>2, <2>4, <3>2, <4>2, <5>1 DEF LinesLike
      <4>4. ASSUME NEW i \in 1..(Len(ms) - 1)  PROVE Last(ms[i]) = NL
        <5>1. i \in 1..n /\ ms[i] = ls[i]
          BY <4>2
        <5>2. CASE i = n
          BY <2>2, <2>4, <2>5, <5>1, <5>2 DEF Last
        <5>3. CASE i # n
          <6>1. i \in 1..(Len(ls) - 1)
            BY <2>4, <4>2, <5>1, <5>3
          <6> QED
            BY <2>2, <5>1, <6>1 DEF LinesLike
        <5> QED
          BY <5>2, <5>3
      <4> QED
        BY <4>1, <4>2, <4>3, <4>4 DEF LinesLike
    <3>5. FlattenSeq(ls \o <<l>>) = t \o l
      BY <2>2, <3>2, FlatMore
    <3> QED
      BY <2>2, <2>3, <3>1, <3>3, <3>4, <3>5
  <2>6. CASE ~(ls = <<>> \/ Last(Last(ls)) = NL)
    <3>1. n \in Nat /\ n > 0
      BY <2>2, <2>4, <2>6, EmptySeq
    <3>2. PICK fs, l : fs = SubSeq(ls, 1, n - 1) /\ l = ls[n]
      OBVIOUS
    <3>3. fs \in Seq(Seq(Nat)) /\ Len(fs) = n - 1 /\ l \in Seq(Nat) /\ ls = fs \o <<l>>
      <4>1. n - 1 \in Nat /\ Len(ls) = (n - 1) + 1 /\ (n - 1) + 1 = n
        BY <2>4, <3>1
      <4> QED
        BY <2>2, <3>2, <4>1, LastOff
    <3>4. IsLine(l) /\ Last(l) # NL
      <4>1. n \in 1..Len(ls)
        BY <2>4, <3>1
      <4> QED
        BY <2>2, <2>4, <2>6, <3>2, <4>1 DEF LinesLike, Last
    <3>5. PICK m : m = l \o <<c>>
      OBVIOUS
    <3>6. IsLine(m)
      <4>1. m \in Seq(Nat) /\ m # <<>> /\ Len(m) = Len(l) + 1 /\ Len(l) > 0
        BY <3>3, <3>4, <3>5, EmptySeq DEF IsLine
      <4>2. ASSUME NEW j \in 1..(Len(m) - 1)  PROVE m[j] # NL
        <5>1. j \in 1..Len(l) /\ m[j] = l[j]
          BY <3>3, <3>5, <4>1
        <5> QED
          BY <3>3, <3>4, <5>1 DEF IsLine, Last
      <4> QED
        BY <4>1, <4>2 DEF IsLine
    <3>7. LinesStep(ls, c) = fs \o <<m>>
      <4>1. Front(ls) = fs /\ Last(ls) = l
        BY <2>4, <3>2 DEF Front, Last
      <4>2. Append(l, c) = m /\ m \in Seq(Nat)
        BY <3>3, <3>5
      <4>3. Append(fs, m) = fs \o <<m>>
        BY <3>3, <4>2
      <4> QED
        BY <2>6, <4>1, <4>2, <4>3 DEF LinesStep
    <3>8. LinesLike(fs \o <<m>>)
      <4>1. PICK ms : ms = fs \o <<m>>
        OBVIOUS
      <4>2. /\ ms \in Seq(Seq(Nat)) /\ Len(ms) = n /\ ms[n] = m /\ m \in Seq(Nat)
            /\ \A i \in 1..(n - 1) : ms[i] = ls[i]
        <5>1. m \in Seq(Nat)
          BY <3>3, <3>5
        <5>2. ms \in Seq(Seq(Nat)) /\ Len(ms) = n /\ ms[n] = m
          <6>1. Len(fs) + 1 = n
            BY <3>1, <3>3
          <6> QED
            BY <3>3, <4>1, <5>1, <6>1, MoreSeq
        <5>3. \A i \in 1..(n - 1) : ms[i] = fs[i] /\ ls[i] = fs[i]
          BY <3>1, <3>3, <4>1, <5>1
        <5> QED
          BY <5>1, <5>2, <5>3
      <4>3. \A i \in 1..Len(ms) : IsLine(ms[i])
        <5> TAKE i \in 1..Len(ms)
        <5>1. i = n \/ (i \in 1..(n - 1) /\ i \in 1..Len(ls))
          BY <2>4, <3>1, <4>2
        <5> QED
          BY <2>2, <2>4, <3>6, <4>2, <5>1 DEF LinesLike
      <4>4. ASSUME NEW i \in 1..(Len(ms) - 1)  PROVE Last(ms[i]) = NL
        <5>1. i \in 1..(n - 1) /\ ms[i] = ls[i] /\ i \in 1..(Len(ls) - 1)
          BY <2>4, <4>2
        <5> QED
          BY <2>2, <5>1 DEF LinesLike
      <4> QED
        BY <4>1, <4>2, <4>3, <4>4 DEF LinesLike
    <3>9. FlattenSeq(fs \o <<m>>) = t \o <<c>>
      <4>1. FlattenSeq(fs) \in Seq(Nat) /\ FlattenSeq(fs \o <<l>>) = FlattenSeq(fs) \o l
        BY <3>3, FlatMore
      <4>2. m \in Seq(Nat)
        BY <3>3, <3>5
      <4>3. FlattenSeq(fs \o <<m>>) = FlattenSeq(fs) \o m
        BY <3>3, <4>2, FlatMore
      <4>4. PICK x : x = FlattenSeq(fs)
        OBVIOUS
      <4>5. x \o (l \o <<c>>) = (x \o l) \o <<c>>
        BY <3>3, <4>1, <4>4
      <4> QED
        BY <2>2, <3>3, <3>5, <4>1, <4>3, <4>4, <4>5
    <3> QED
      BY <2>2, <2>3, <3>7, <3>8, <3>9
  <2> QED
    BY <2>5, <2>6
<1>3. Good \in SUBSET Seq(Nat)
  OBVIOUS
<1>4. Good = Seq(Nat)
  <2> HIDE DEF Good
  <2> QED
    BY <1>1, <1>2, <1>3, SeqInduct
<1> QED
  BY <1>4

\* After lines that have all ended, a line is split off whole.
LEMMA OneLine ==
  ASSUME NEW ls \in Seq(Seq(Nat)), ls = <<>> \/ Last(Last(ls)) = NL, NEW l, IsLine(l)
  PROVE  Fold("lines", 0, ls, l) = ls \o <<l>>
<1> DEFINE Good == {u \in Seq(Nat) : IsLine(u) => Fold("lines", 0, ls, u) = ls \o <<u>>}
<1>1. <<>> \in Good
  BY DEF IsLine
<1>2. ASSUME NEW u \in Seq(Nat), NEW c \in Nat, u \in Good  PROVE u \o <<c>> \in Good
  <2>1. PICK v : v = u \o <<c>>
    OBVIOUS
  <2>2. v \in Seq(Nat) /\ Len(v) = Len(u) + 1 /\ \A j \in 1..Len(u) : v[j] = u[j]
    BY <2>1
  <2>3. SUFFICES ASSUME IsLine(v)  PROVE Fold("lines", 0, ls, v) = ls \o <<v>>
    BY <2>1, <2>2
  <2>4. Fold("lines", 0, ls, v) = LinesStep(Fold("lines", 0, ls, u), c)
    <3>1. Fold("lines", 0, ls, u \o <<c>>) = StepOf("lines", 0, Fold("lines", 0, ls, u), c)
      BY FoldMore
    <3> QED
      BY <2>1, <3>1 DEF StepOf
  <2>5. CASE u = <<>>
    <3>1. Fold("lines", 0, ls, u) = ls /\ v = <<c>>
      BY <2>1, <2>5, FoldEmpty
    <3>2. LinesStep(ls, c) = Append(ls, v)
      BY <3>1 DEF LinesStep
    <3>3. Append(ls, v) = ls \o <<v>>
      BY <2>2, MoreSeq
    <3> QED
      BY <2>4, <3>1, <3>2, <3>3
  <2>6. CASE u # <<>>
    <3>1. Len(u) \in Nat /\ Len(u) > 0
      BY <2>6, EmptySeq
    <3>2. \A j \in 1..Len(u) : u[j] # NL
      <4>1. \A j \in 1..(Len(v) - 1) : v[j] # NL
        BY <2>3 DEF IsLine
      <4>2. Len(v) - 1 = Len(u)
        BY <2>2
      <4> QED
        BY <2>2, <4>1, <4>2
    <3>3. IsLine(u) /\ Last(u) # NL
      BY <2>6, <3>1, <3>2 DEF IsLine, Last
    <3>4. Fold("lines", 0, ls, u) = ls \o <<u>>
      BY <1>2, <3>3
    <3>5. PICK w : w = ls \o <<u>>
      OBVIOUS
    <3>6. w \in Seq(Seq(Nat)) /\ Len(w) = Len(ls) + 1 /\ w # <<>> /\ Last(w) = u /\ Front(w) = ls
      BY <3>5 DEF Last, Front
    <3>7. LinesStep(w, c) = Append(ls, Append(u, c))
      BY <3>3, <3>6 DEF LinesStep
    <3>8. Append(ls, Append(u, c)) = ls \o <<v>>
      <4>1. Append(u, c) = v
        BY <2>1
      <4>2. Append(ls, v) = ls \o <<v>>
        BY <2>2, MoreSeq
      <4> QED
        BY <4>1, <4>2
    <3> QED
      BY <2>4, <3>4, <3>5, <3>7, <3>8
  <2> QED
    BY <2>5, <2>6
<1>3. Good \in SUBSET Seq(Nat)
  OBVIOUS
<1>4. Good = Seq(Nat)
  <2> HIDE DEF Good
  <2> QED
    BY <1>1, <1>2, <1>3, SeqInduct
<1>5. l \in Seq(Nat)
  BY DEF IsLine
<1> QED
  BY <1>4, <1>5

\* Lines put together and split are the same lines.
LEMMA FlatSplit ==
  ASSUME NEW ls, LinesLike(ls)
  PROVE  SplitLines(FlattenSeq(ls)) = ls
<1> DEFINE Good == {ms \in Seq(Seq(Nat)) : LinesLike(ms) => SplitLines(FlattenSeq(ms)) = ms}
<1>1. <<>> \in Good
  <2>1. SplitLines(<<>>) = <<>>
    BY SplitIsFold, FoldEmpty
  <2> QED
    BY <2>1, FlatNone
<1>2. ASSUME NEW ms \in Seq(Seq(Nat)), NEW l \in Seq(Nat), ms \in Good  PROVE ms \o <<l>> \in Good
  <2>1. PICK ns : ns = ms \o <<l>>
    OBVIOUS
  <2>2. /\ ns \in Seq(Seq(Nat)) /\ Len(ns) = Len(ms) + 1 /\ ns[Len(ms) + 1] = l
        /\ \A i \in 1..Len(ms) : ns[i] = ms[i]
    BY <2>1
  <2>3. SUFFICES ASSUME LinesLike(ns)  PROVE SplitLines(FlattenSeq(ns)) = ns
    BY <2>1, <2>2
  <2>4. IsLine(l) /\ \A i \in 1..Len(ms) : IsLine(ms[i]) /\ Last(ms[i]) = NL
    BY <2>2, <2>3 DEF LinesLike
  <2>5. LinesLike(ms)
    BY <2>4 DEF LinesLike
  <2>6. ms = <<>> \/ Last(Last(ms)) = NL
    <3>1. CASE ms # <<>>
      <4>1. Len(ms) \in 1..Len(ms)
        BY <3>1, EmptySeq
      <4> QED
        BY <2>4, <4>1 DEF Last
    <3> QED
      BY <3>1
  <2>7. PICK t : t = FlattenSeq(ms)
    OBVIOUS
  <2>8. t \in Seq(Nat) /\ FlattenSeq(ns) = t \o l
    BY <2>1, <2>7, FlatMore
  <2>9. Fold("lines", 0, <<>>, t) = ms
    BY <1>2, <2>5, <2>7, SplitIsFold
  <2>10. Fold("lines", 0, <<>>, t \o l) = Fold("lines", 0, Fold("lines", 0, <<>>, t), l)
    BY <2>8, FoldConcat
  <2>11. Fold("lines", 0, ms, l) = ns
    BY <2>1, <2>4, <2>6, OneLine
  <2>12. SplitLines(t \o l) = Fold("lines", 0, <<>>, t \o l)
    BY SplitIsFold
  <2> QED
    BY <2>8, <2>9, <2>10, <2>11, <2>12
<1>3. Good \in SUBSET Seq(Seq(Nat))
  OBVIOUS
<1>4. Good = Seq(Seq(Nat))
  <2> HIDE DEF Good
  <2> QED
    BY <1>1, <1>2, <1>3, SeqInduct
<1>5. ls \in Seq(Seq(Nat))
  BY DEF LinesLike
<1> QED
  BY <1>4, <1>5

-----------------------------------------------------------------------------
(* The stretches between matches *)

\* p and q: the places of the matches in the two sequences, with one before the first and
\* one after the last; the gaps are what lies between.
Places(a, b, ps, p, q) ==
    /\ p[1] = 0 /\ q[1] = 0
    /\ p[Len(ps) + 2] = Len(a) + 1 /\ q[Len(ps) + 2] = Len(b) + 1
    /\ \A k \in 1..(Len(ps) + 1) :
          /\ p[k] \in 0..Len(a) /\ p[k + 1] \in (p[k] + 1)..(Len(a) + 1)
          /\ q[k] \in 0..Len(b) /\ q[k + 1] \in (q[k] + 1)..(Len(b) + 1)
    /\ \A k \in 1..Len(ps) : /\ ps[k][1] = p[k + 1]
                             /\ p[k + 1] \in 1..Len(a) /\ q[k + 1] \in 1..Len(b)
                             /\ a[p[k + 1]] = b[q[k + 1]]
    /\ Gaps(a, b, ps) = [k \in 1..(Len(ps) + 1) |->
          [at |-> q[k], old |-> SubSeq(a, p[k] + 1, p[k + 1] - 1),
           new |-> SubSeq(b, q[k] + 1, q[k + 1] - 1)]]

\* The gaps of a matching have such places.
LEMMA GapPlaces ==
  ASSUME NEW S, NEW a \in Seq(S), NEW b \in Seq(S), NEW ps, Matching(a, b, Start, ps)
  PROVE  \E p, q : Places(a, b, ps, p, q)
<1>1. PICK n, na, nb : n = Len(ps) /\ na = Len(a) /\ nb = Len(b)
  OBVIOUS
<1>2. n \in Nat /\ na \in Nat /\ nb \in Nat /\ ps \in Seq(Nat \X Nat)
  BY <1>1 DEF Matching
<1>3. PICK all : all = <<<<0, 0>>>> \o ps \o <<<<na + 1, nb + 1>>>>
  OBVIOUS
<1>4. PICK p, q : /\ p = [k \in 1..(n + 2) |-> all[k][1]]
                  /\ q = [k \in 1..(n + 2) |-> all[k][2]]
  OBVIOUS
<1>5. /\ all[1] = <<0, 0>> /\ all[n + 2] = <<na + 1, nb + 1>>
      /\ \A k \in 1..n : all[k + 1] = ps[k]
  <2>1. <<0, 0>> \in Nat \X Nat /\ <<na + 1, nb + 1>> \in Nat \X Nat
    BY <1>2
  <2>2. PICK S2, x, y : S2 = Nat \X Nat /\ x = <<0, 0>> /\ y = <<na + 1, nb + 1>>
    OBVIOUS
  <2>3. ps \in Seq(S2) /\ x \in S2 /\ y \in S2 /\ all = (<<x>> \o ps) \o <<y>>
    BY <1>2, <1>3, <2>1, <2>2
  <2>4. all[1] = x /\ all[Len(ps) + 2] = y /\ \A k \in 1..Len(ps) : all[k + 1] = ps[k]
    BY <2>3, Framed
  <2> QED
    BY <1>1, <2>2, <2>4
<1>6. /\ p[1] = 0 /\ q[1] = 0 /\ p[n + 2] = na + 1 /\ q[n + 2] = nb + 1
      /\ \A k \in 1..n : p[k + 1] = ps[k][1] /\ q[k + 1] = ps[k][2]
  BY <1>2, <1>4, <1>5
<1>7. /\ \A k \in 1..n : /\ ps[k][1] \in 1..na /\ ps[k][2] \in 1..nb
                         /\ a[ps[k][1]] = b[ps[k][2]]
      /\ \A k \in 1..(n - 1) : ps[k][1] < ps[k + 1][1] /\ ps[k][2] < ps[k + 1][2]
  <2>1. Start[1] = 1 /\ Start[2] = 1
    BY DEF Start
  <2> QED
    BY <1>1, <2>1 DEF Matching
<1>8. ASSUME NEW k \in 1..(n + 1)
      PROVE  /\ p[k] \in 0..na /\ p[k + 1] \in (p[k] + 1)..(na + 1)
             /\ q[k] \in 0..nb /\ q[k + 1] \in (q[k] + 1)..(nb + 1)
  <2>1. k \in Nat /\ (k = 1 \/ (k - 1 \in 1..n /\ (k - 1) + 1 = k)) /\ (k = n + 1 \/ k \in 1..n)
    BY <1>2
  <2>2. PICK i, j, i1, j1 : i = p[k] /\ j = q[k] /\ i1 = p[k + 1] /\ j1 = q[k + 1]
    OBVIOUS
  <2>3. \/ k = 1 /\ i = 0 /\ j = 0
        \/ k - 1 \in 1..n /\ i = ps[k - 1][1] /\ j = ps[k - 1][2] /\ i \in 1..na /\ j \in 1..nb
    <3>1. CASE k = 1
      BY <1>6, <2>2, <3>1
    <3>2. CASE k - 1 \in 1..n /\ (k - 1) + 1 = k
      <4>1. p[(k - 1) + 1] = ps[k - 1][1] /\ q[(k - 1) + 1] = ps[k - 1][2]
        BY <1>6, <3>2
      <4>2. ps[k - 1][1] \in 1..na /\ ps[k - 1][2] \in 1..nb
        BY <1>7, <3>2
      <4> QED
        BY <2>2, <3>2, <4>1, <4>2
    <3> QED
      BY <2>1, <3>1, <3>2
  <2>4. \/ k = n + 1 /\ i1 = na + 1 /\ j1 = nb + 1
        \/ k \in 1..n /\ i1 = ps[k][1] /\ j1 = ps[k][2] /\ i1 \in 1..na /\ j1 \in 1..nb
    <3>1. CASE k = n + 1
      <4>1. k + 1 = n + 2
        BY <1>2, <3>1
      <4> QED
        BY <1>6, <2>2, <3>1, <4>1
    <3>2. CASE k \in 1..n
      BY <1>6, <1>7, <2>2, <3>2
    <3> QED
      BY <2>1, <3>1, <3>2
  <2>5. i \in 0..na /\ j \in 0..nb /\ i1 \in 1..(na + 1) /\ j1 \in 1..(nb + 1)
    BY <1>2, <2>3, <2>4
  <2>6. i < i1 /\ j < j1
    <3>1. CASE k = 1
      BY <2>3, <2>5, <3>1
    <3>2. CASE k = n + 1
      <4>1. i1 = na + 1 /\ j1 = nb + 1
        BY <1>2, <2>4, <3>2
      <4> QED
        BY <1>2, <2>5, <4>1
    <3>3. CASE k # 1 /\ k # n + 1
      <4>1. k - 1 \in 1..(n - 1) /\ (k - 1) + 1 = k
        BY <1>2, <3>3
      <4>2. ps[k - 1][1] < ps[(k - 1) + 1][1] /\ ps[k - 1][2] < ps[(k - 1) + 1][2]
        BY <1>7, <4>1
      <4> QED
        BY <2>3, <2>4, <3>3, <4>1, <4>2
    <3> QED
      BY <3>1, <3>2, <3>3
  <2>7. i1 \in (i + 1)..(na + 1) /\ j1 \in (j + 1)..(nb + 1)
    BY <1>2, <2>5, <2>6
  <2> QED
    BY <2>2, <2>5, <2>7
<1>9. Gaps(a, b, ps) = [k \in 1..(n + 1) |->
          [at |-> q[k], old |-> SubSeq(a, p[k] + 1, p[k + 1] - 1),
           new |-> SubSeq(b, q[k] + 1, q[k + 1] - 1)]]
  <2>1. Gaps(a, b, ps) = [k \in 1..(n + 1) |->
          [at |-> all[k][2], old |-> SubSeq(a, all[k][1] + 1, all[k + 1][1] - 1),
           new |-> SubSeq(b, all[k][2] + 1, all[k + 1][2] - 1)]]
    BY <1>1, <1>3 DEF Gaps
  <2>2. ASSUME NEW k \in 1..(n + 1)
        PROVE  p[k] = all[k][1] /\ q[k] = all[k][2] /\ p[k + 1] = all[k + 1][1] /\ q[k + 1] = all[k + 1][2]
    <3>1. k \in 1..(n + 2) /\ k + 1 \in 1..(n + 2)
      BY <1>2
    <3> QED
      BY <1>4, <3>1
  <2> QED
    BY <2>1, <2>2
<1>10. \A k \in 1..n : /\ ps[k][1] = p[k + 1] /\ p[k + 1] \in 1..na /\ q[k + 1] \in 1..nb
                       /\ a[p[k + 1]] = b[q[k + 1]]
  BY <1>6, <1>7
<1>11. Places(a, b, ps, p, q)
  <2>1. /\ p[1] = 0 /\ q[1] = 0
        /\ p[Len(ps) + 2] = Len(a) + 1 /\ q[Len(ps) + 2] = Len(b) + 1
    BY <1>1, <1>6
  <2>2. \A k \in 1..(Len(ps) + 1) :
          /\ p[k] \in 0..Len(a) /\ p[k + 1] \in (p[k] + 1)..(Len(a) + 1)
          /\ q[k] \in 0..Len(b) /\ q[k + 1] \in (q[k] + 1)..(Len(b) + 1)
    BY <1>1, <1>8
  <2>3. \A k \in 1..Len(ps) : /\ ps[k][1] = p[k + 1]
                             /\ p[k + 1] \in 1..Len(a) /\ q[k + 1] \in 1..Len(b)
                             /\ a[p[k + 1]] = b[q[k + 1]]
    BY <1>1, <1>10
  <2> QED
    BY <1>1, <1>9, <2>1, <2>2, <2>3 DEF Places
<1> QED
  BY <1>11

\* What is put together up to a gap and over it.
LEMMA OverGap ==
  ASSUME NEW S, NEW b \in Seq(S), NEW i \in 0..Len(b), NEW j \in (i + 1)..(Len(b) + 1)
  PROVE  SubSeq(b, 1, i) \o SubSeq(b, i + 1, j - 1) = SubSeq(b, 1, j - 1)
<1>1. 1 \in 1..(Len(b) + 1) /\ i \in (1 - 1)..Len(b) /\ j - 1 \in i..Len(b)
  OBVIOUS
<1> QED
  BY <1>1, SubMeet

\* From a gap to the end: the gap, the match after it, and the rest.
LEMMA FromGap ==
  ASSUME NEW S, NEW a \in Seq(S), NEW i \in 0..Len(a), NEW j \in (i + 1)..(Len(a) + 1)
  PROVE  SubSeq(a, i + 1, Len(a)) = SubSeq(a, i + 1, j - 1) \o SubSeq(a, j, Len(a))
<1>1. PICK k : k = j - 1
  OBVIOUS
<1>2. /\ i + 1 \in 1..(Len(a) + 1) /\ k \in ((i + 1) - 1)..Len(a) /\ Len(a) \in k..Len(a)
      /\ k + 1 = j
  BY <1>1
<1>3. SubSeq(a, i + 1, k) \o SubSeq(a, k + 1, Len(a)) = SubSeq(a, i + 1, Len(a))
  BY <1>2, SubMeet
<1> QED
  BY <1>1, <1>2, <1>3

-----------------------------------------------------------------------------
(* The line diff *)

\* What Emit gives are operations.
LEMMA EmitOps ==
  ASSUME NEW i \in Nat, NEW j \in Nat, NEW m \in Seq(Nat)
  PROVE  Emit(i, j, m) \in Seq(Ops)
<1>1. Delete(i, j) \in Ops /\ Insert(i, m) \in Ops
  BY DEF Delete, Insert, Ops
<1>2. PICK o1, o2 : o1 = Delete(i, j) /\ o2 = Insert(i, m)
  OBVIOUS
<1> QED
  BY <1>1, <1>2 DEF Emit

\* Emit replaces a stretch of lines by the lines of a text.
LEMMA EmitUnits ==
  ASSUME NEW x \in Seq(Seq(Nat)), NEW y \in Seq(Seq(Nat)), NEW z \in Seq(Seq(Nat)),
         NEW u, LinesLike(u)
  PROVE  Fold("units", 0, Cat(Cat(x, y), z), Emit(Len(x), Len(y), FlattenSeq(u)))
         = Cat(Cat(x, u), z)
<1>1. PICK v, del, m : v = Cat(Cat(x, y), z) /\ del = Len(y) /\ m = FlattenSeq(u)
  OBVIOUS
<1>0. u \in Seq(Seq(Nat))
  BY DEF LinesLike
<1>2. m \in Seq(Nat) /\ SplitLines(m) = u /\ SplitLines(<<>>) = <<>>
  <2>1. m \in Seq(Nat)
    <3>1. <<>> \in Seq(Nat)
      OBVIOUS
    <3> QED
      BY <1>0, <1>1, <3>1, FlatMore
  <2>2. SplitLines(m) = u
    BY <1>1, FlatSplit
  <2>3. SplitLines(<<>>) = <<>>
    BY SplitIsFold, FoldEmpty
  <2> QED
    BY <2>1, <2>2, <2>3
<1>3. PICK e1, e2, n : /\ e1 = IF del > 0 THEN <<Delete(n, del)>> ELSE <<>>
                       /\ e2 = IF m # <<>> THEN <<Insert(n, m)>> ELSE <<>>
                       /\ n = Len(x)
  OBVIOUS
<1>4. e1 \in Seq(Ops) /\ e2 \in Seq(Ops) /\ Emit(n, del, m) = Cat(e1, e2)
  <2>1. n \in Nat /\ del \in Nat
    BY <1>1, <1>3
  <2>2. Delete(n, del) \in Ops /\ Insert(n, m) \in Ops
    BY <1>2, <2>1 DEF Ops, Delete, Insert
  <2> QED
    BY <1>3, <2>2 DEF Emit, Cat
<1>5. Fold("units", 0, v, e1) = Cat(x, z)
  <2>1. CASE del > 0
    <3>1. PICK o : o = Delete(n, del)
      OBVIOUS
    <3>2. o.idx = Len(x) /\ o.del = Len(y) /\ o.ins = <<>>
      BY <1>1, <1>3, <3>1 DEF Delete
    <3>3. Fold("units", 0, v, e1) = StepOf("units", 0, v, o)
      BY <1>3, <2>1, <3>1, FoldOne
    <3>4. StepOf("units", 0, v, o) = Splice(v, o, <<>>)
      BY <1>2, <3>2 DEF StepOf
    <3>5. Splice(Cat(Cat(x, y), z), o, <<>>) = Cat(x, z)
      BY <3>2, SpliceOut
    <3> QED
      BY <1>1, <3>3, <3>4, <3>5
  <2>2. CASE ~(del > 0)
    <3>1. y = <<>>
      BY <1>1, <2>2, EmptySeq
    <3>2. Fold("units", 0, v, e1) = v
      BY <1>3, <2>2, FoldEmpty
    <3>3. x \o <<>> = x
      OBVIOUS
    <3> QED
      BY <1>1, <3>1, <3>2, <3>3 DEF Cat
  <2> QED
    BY <2>1, <2>2
<1>6. Fold("units", 0, Cat(x, z), e2) = Cat(Cat(x, u), z)
  <2>1. CASE m # <<>>
    <3>1. PICK o : o = Insert(n, m)
      OBVIOUS
    <3>2. o.idx = Len(x) /\ o.del = 0 /\ o.ins = m
      BY <1>3, <3>1 DEF Insert
    <3>3. Fold("units", 0, Cat(x, z), e2) = StepOf("units", 0, Cat(x, z), o)
      BY <1>3, <2>1, <3>1, FoldOne
    <3>4. StepOf("units", 0, Cat(x, z), o) = Splice(Cat(x, z), o, u)
      BY <1>2, <3>2 DEF StepOf
    <3>5. Splice(Cat(x, z), o, u) = Cat(Cat(x, u), z)
      BY <1>0, <3>2, SpliceIn
    <3> QED
      BY <3>3, <3>4, <3>5
  <2>2. CASE m = <<>>
    <3>1. u = <<>>
      BY <1>2, <2>2
    <3>2. Fold("units", 0, Cat(x, z), e2) = Cat(x, z)
      BY <1>3, <2>2, FoldEmpty
    <3>3. x \o <<>> = x
      OBVIOUS
    <3> QED
      BY <3>1, <3>2, <3>3 DEF Cat
  <2> QED
    BY <2>1, <2>2
<1>7. Fold("units", 0, v, e1 \o e2) = Fold("units", 0, Fold("units", 0, v, e1), e2)
  BY <1>4, FoldConcat
<1>8. Emit(n, del, m) = e1 \o e2
  BY <1>4 DEF Cat
<1> QED
  BY <1>1, <1>3, <1>5, <1>6, <1>7, <1>8

\* The operations of the line diff turn the old lines into the new ones.
LEMMA PairsToOps ==
  ASSUME NEW a, LinesLike(a), NEW b, LinesLike(b), NEW ps, Matching(a, b, Start, ps)
  PROVE  OpsFromPairs(a, b, ps) \in Seq(Ops) /\ Fold("units", 0, a, OpsFromPairs(a, b, ps)) = b
<1>1. a \in Seq(Seq(Nat)) /\ b \in Seq(Seq(Nat)) /\ ps \in Seq(Nat \X Nat)
  BY DEF LinesLike, Matching
<1>2. PICK p, q : Places(a, b, ps, p, q)
  BY <1>1, GapPlaces
<1>3. PICK n, na, nb : n = Len(ps) /\ na = Len(a) /\ nb = Len(b)
  OBVIOUS
<1>4. n \in Nat /\ na \in Nat /\ nb \in Nat
  BY <1>1, <1>3
<1>5. /\ p[1] = 0 /\ q[1] = 0 /\ p[n + 2] = na + 1 /\ q[n + 2] = nb + 1
      /\ \A k \in 1..(n + 1) : /\ p[k] \in 0..na /\ p[k + 1] \in (p[k] + 1)..(na + 1)
                               /\ q[k] \in 0..nb /\ q[k + 1] \in (q[k] + 1)..(nb + 1)
      /\ \A k \in 1..n : p[k + 1] \in 1..na /\ q[k + 1] \in 1..nb /\ a[p[k + 1]] = b[q[k + 1]]
  BY <1>2, <1>3 DEF Places
<1>6. PICK ss : ss = [k \in 1..(n + 1) |->
          Emit(q[k], Len(SubSeq(a, p[k] + 1, p[k + 1] - 1)),
               FlattenSeq(SubSeq(b, q[k] + 1, q[k + 1] - 1)))]
  OBVIOUS
<1>7. OpsFromPairs(a, b, ps) = FlattenSeq(ss)
  <2>1. PICK gaps : gaps = Gaps(a, b, ps)
    OBVIOUS
  <2>2. gaps = [k \in 1..(n + 1) |->
          [at |-> q[k], old |-> SubSeq(a, p[k] + 1, p[k + 1] - 1),
           new |-> SubSeq(b, q[k] + 1, q[k + 1] - 1)]]
    BY <1>2, <1>3, <2>1 DEF Places
  <2>3. [k \in DOMAIN gaps |-> Emit(gaps[k].at, Len(gaps[k].old), FlattenSeq(gaps[k].new))] = ss
    BY <1>6, <2>2
  <2> QED
    BY <2>1, <2>3 DEF OpsFromPairs
<1>8. ASSUME NEW k \in 1..(n + 1)
      PROVE  /\ LinesLike(SubSeq(b, q[k] + 1, q[k + 1] - 1))
             /\ ss[k] \in Seq(Ops)
             /\ Fold("units", 0, SubSeq(b, 1, q[k]) \o SubSeq(a, p[k] + 1, na), ss[k])
                = SubSeq(b, 1, q[k + 1] - 1) \o SubSeq(a, p[k + 1], na)
  <2>1. PICK x, y, z, u : /\ x = SubSeq(b, 1, q[k]) /\ y = SubSeq(a, p[k] + 1, p[k + 1] - 1)
                          /\ z = SubSeq(a, p[k + 1], na) /\ u = SubSeq(b, q[k] + 1, q[k + 1] - 1)
    OBVIOUS
  <2>2. LinesLike(u)
    <3>1. q[k] + 1 \in Nat /\ q[k + 1] - 1 \in Nat /\ q[k] + 1 > 0 /\ q[k + 1] - 1 <= Len(b)
      <4>1. PICK j, j1 : j = q[k] /\ j1 = q[k + 1]
        OBVIOUS
      <4>2. j \in 0..nb /\ j1 \in (j + 1)..(nb + 1) /\ nb = Len(b) /\ nb \in Nat
        BY <1>3, <1>4, <1>5, <4>1
      <4>3. j + 1 \in Nat /\ j1 - 1 \in Nat /\ j + 1 > 0 /\ j1 - 1 <= nb
        BY <4>2
      <4> QED
        BY <4>1, <4>2, <4>3
    <3> QED
      BY <2>1, <3>1, LinesSub
  <2>3. /\ x \in Seq(Seq(Nat)) /\ y \in Seq(Seq(Nat)) /\ z \in Seq(Seq(Nat)) /\ u \in Seq(Seq(Nat))
        /\ Len(x) = q[k]
    <3>1. PICK i, j, i1, j1 : i = p[k] /\ j = q[k] /\ i1 = p[k + 1] /\ j1 = q[k + 1]
      OBVIOUS
    <3>2. /\ i \in 0..Len(a) /\ i1 \in (i + 1)..(Len(a) + 1)
          /\ j \in 0..Len(b) /\ j1 \in (j + 1)..(Len(b) + 1)
      BY <1>3, <1>5, <3>1
    <3>3. /\ 1 \in 1..(Len(b) + 1) /\ j \in (1 - 1)..Len(b) /\ j + 1 \in 1..(Len(b) + 1)
          /\ j1 - 1 \in ((j + 1) - 1)..Len(b)
          /\ i + 1 \in 1..(Len(a) + 1) /\ i1 - 1 \in ((i + 1) - 1)..Len(a)
          /\ i1 \in 1..(Len(a) + 1) /\ Len(a) \in (i1 - 1)..Len(a) /\ (j - 1) + 1 = j
      BY <1>1, <3>2
    <3>4. SubSeq(b, 1, j) \in Seq(Seq(Nat)) /\ Len(SubSeq(b, 1, j)) = (j - 1) + 1
      BY <1>1, <3>3, SubIn
    <3>5. SubSeq(b, j + 1, j1 - 1) \in Seq(Seq(Nat))
      BY <1>1, <3>3, SubIn
    <3>6. SubSeq(a, i + 1, i1 - 1) \in Seq(Seq(Nat)) /\ SubSeq(a, i1, Len(a)) \in Seq(Seq(Nat))
      BY <1>1, <3>3, SubIn
    <3> QED
      BY <1>3, <2>1, <3>1, <3>3, <3>4, <3>5, <3>6
  <2>4. SubSeq(a, p[k] + 1, na) = y \o z
    <3>1. p[k] \in 0..Len(a) /\ p[k + 1] \in (p[k] + 1)..(Len(a) + 1)
      BY <1>3, <1>5
    <3> QED
      BY <1>1, <1>3, <2>1, <3>1, FromGap
  <2>5. x \o u = SubSeq(b, 1, q[k + 1] - 1)
    <3>1. q[k] \in 0..Len(b) /\ q[k + 1] \in (q[k] + 1)..(Len(b) + 1)
      BY <1>3, <1>5
    <3> QED
      BY <1>1, <2>1, <3>1, OverGap
  <2>6. ss[k] = Emit(Len(x), Len(y), FlattenSeq(u))
    BY <1>6, <2>1, <2>3
  <2>7. Fold("units", 0, (x \o y) \o z, ss[k]) = (x \o u) \o z
    <3>1. Fold("units", 0, Cat(Cat(x, y), z), Emit(Len(x), Len(y), FlattenSeq(u)))
          = Cat(Cat(x, u), z)
      BY <2>2, <2>3, EmitUnits
    <3> QED
      BY <2>6, <3>1 DEF Cat
  <2>8. (x \o y) \o z = x \o (y \o z)
    <3>1. x \in Seq(Seq(Nat)) /\ y \in Seq(Seq(Nat)) /\ z \in Seq(Seq(Nat))
      BY <2>3
    <3>2. Cat(Cat(x, y), z) = Cat(x, Cat(y, z))
      BY <3>1, CatRegroup
    <3> QED
      BY <3>2 DEF Cat
  <2>9. ss[k] \in Seq(Ops)
    <3>1. PICK m, i, j : m = FlattenSeq(u) /\ i = Len(x) /\ j = Len(y)
      OBVIOUS
    <3>2. m \in Seq(Nat)
      <4>1. <<>> \in Seq(Nat)
        OBVIOUS
      <4> QED
        BY <2>3, <3>1, <4>1, FlatMore
    <3>3. i \in Nat /\ j \in Nat
      BY <2>3, <3>1
    <3> QED
      BY <2>6, <3>1, <3>2, <3>3, EmitOps
  <2> QED
    BY <2>1, <2>2, <2>4, <2>5, <2>7, <2>8, <2>9
<1>9. ss \in Seq(Seq(Ops)) /\ Len(ss) = n + 1
  <2>1. ss \in [1..(n + 1) -> Seq(Ops)]
    BY <1>6, <1>8
  <2> QED
    BY <1>4, <2>1
<1> DEFINE Upto(k) == FlattenSeq(SubSeq(ss, 1, k))
           Done(k) == /\ Upto(k) \in Seq(Ops)
                      /\ Fold("units", 0, a, Upto(k))
                         = SubSeq(b, 1, q[k + 1] - 1) \o SubSeq(a, p[k + 1], na)
           Good == {k \in Nat : k <= n => Done(k + 1)}
<1>10. ASSUME NEW k \in 0..n, Upto(k) \in Seq(Ops),
              Fold("units", 0, a, Upto(k)) = SubSeq(b, 1, q[k + 1]) \o SubSeq(a, p[k + 1] + 1, na)
       PROVE  Done(k + 1)
  <2>1. PICK us, x : us = Upto(k) /\ x = ss[k + 1]
    OBVIOUS
  <2>2. k \in 0..(Len(ss) - 1) /\ k + 1 \in 1..(n + 1)
    BY <1>4, <1>9
  <2>3. us \in Seq(Ops) /\ x \in Seq(Ops) /\ Upto(k + 1) = us \o x
    BY <1>9, <1>10, <2>1, <2>2, FlatPrefix
  <2>4. Fold("units", 0, a, us \o x) = Fold("units", 0, Fold("units", 0, a, us), x)
    BY <2>3, FoldConcat
  <2>5. Fold("units", 0, SubSeq(b, 1, q[k + 1]) \o SubSeq(a, p[k + 1] + 1, na), x)
        = SubSeq(b, 1, q[(k + 1) + 1] - 1) \o SubSeq(a, p[(k + 1) + 1], na)
    BY <1>8, <2>1, <2>2
  <2>6. us \o x \in Seq(Ops)
    BY <2>3
  <2> QED
    BY <1>10, <2>1, <2>3, <2>4, <2>5, <2>6
<1>11. 0 \in Good
  <2>1. SubSeq(ss, 1, 0) = <<>>
    BY <1>9
  <2>2. Upto(0) = <<>>
    BY <2>1, FlatNone
  <2>3. SubSeq(b, 1, q[0 + 1]) \o SubSeq(a, p[0 + 1] + 1, na) = a
    <3>1. SubSeq(b, 1, 0) = <<>> /\ SubSeq(a, 1, Len(a)) = a /\ <<>> \o a = a
      BY <1>1, SubAll
    <3>2. q[0 + 1] = 0 /\ p[0 + 1] + 1 = 1
      BY <1>5
    <3> QED
      BY <1>3, <3>1, <3>2
  <2>4. Fold("units", 0, a, Upto(0)) = a
    BY <2>2, FoldEmpty
  <2>5. Upto(0) \in Seq(Ops) /\ 0 \in 0..n
    <3>1. <<>> \in Seq(Ops) /\ 0 \in 0..n
      BY <1>4
    <3> HIDE DEF Upto
    <3> QED
      BY <2>2, <3>1
  <2>6. Done(0 + 1)
    BY <1>10, <2>3, <2>4, <2>5
  <2> QED
    BY <2>6
<1>12. ASSUME NEW k \in Nat, k \in Good  PROVE k + 1 \in Good
  <2>0. k + 1 \in Nat
    OBVIOUS
  <2> SUFFICES ASSUME k + 1 <= n  PROVE Done((k + 1) + 1)
    <3> HIDE DEF Done
    <3> QED
      BY <2>0
  <2>1. k + 1 \in 1..n /\ k + 1 \in 0..n /\ k <= n
    BY <1>4
  <2>2. Done(k + 1)
    BY <1>12, <2>1
  <2>3. PICK i, j : i = p[(k + 1) + 1] /\ j = q[(k + 1) + 1]
    OBVIOUS
  <2>4. i \in 1..na /\ j \in 1..nb /\ a[i] = b[j]
    BY <1>5, <2>1, <2>3
  <2>5. SubSeq(b, 1, j - 1) \o SubSeq(a, i, na) = SubSeq(b, 1, j) \o SubSeq(a, i + 1, na)
    <3>1. PICK x, y, c : x = SubSeq(b, 1, j - 1) /\ y = SubSeq(a, i + 1, na) /\ c = a[i]
      OBVIOUS
    <3>2. i \in 1..Len(a) /\ j \in 1..Len(b)
      BY <1>3, <2>4
    <3>3. /\ SubSeq(b, 1, j) = x \o <<c>> /\ x \in Seq(Seq(Nat)) /\ c \in Seq(Nat)
          /\ SubSeq(a, i, na) = <<c>> \o y /\ y \in Seq(Seq(Nat))
      <4>1. /\ SubSeq(b, 1, j) = SubSeq(b, 1, j - 1) \o <<b[j]>>
            /\ SubSeq(b, 1, j - 1) \in Seq(Seq(Nat))
        BY <1>1, <3>2, AtPlace
      <4>2. /\ SubSeq(a, i, Len(a)) = <<a[i]>> \o SubSeq(a, i + 1, Len(a))
            /\ SubSeq(a, i + 1, Len(a)) \in Seq(Seq(Nat)) /\ a[i] \in Seq(Nat)
        BY <1>1, <3>2, AtPlace
      <4> QED
        BY <1>3, <2>4, <3>1, <4>1, <4>2
    <3>4. <<c>> \in Seq(Seq(Nat))
      BY <3>3
    <3>5. x \o (<<c>> \o y) = (x \o <<c>>) \o y
      BY <3>3, <3>4, Assoc
    <3> QED
      BY <3>1, <3>3, <3>5
  <2> QED
    BY <1>10, <2>1, <2>2, <2>3, <2>5
<1>13. Good \in SUBSET Nat
  OBVIOUS
<1>14. Good = Nat
  <2> HIDE DEF Good
  <2> QED
    BY <1>11, <1>12, <1>13, Least
<1>15. Done(n + 1)
  <2>1. n \in Good
    <3> HIDE DEF Good
    <3> QED
      BY <1>4, <1>14
  <2>2. n <= n
    BY <1>4
  <2> HIDE DEF Done
  <2> QED
    BY <2>1, <2>2
<1>16. SubSeq(ss, 1, n + 1) = ss
  BY <1>4, <1>9
<1>17. SubSeq(b, 1, q[(n + 1) + 1] - 1) \o SubSeq(a, p[(n + 1) + 1], na) = b
  <2>1. (n + 1) + 1 = n + 2
    BY <1>4
  <2>2. SubSeq(b, 1, nb) = b /\ SubSeq(a, na + 1, na) = <<>> /\ b \o <<>> = b
    BY <1>1, <1>3, SubAll
  <2>3. q[(n + 1) + 1] - 1 = nb /\ p[(n + 1) + 1] = na + 1
    BY <1>4, <1>5, <2>1
  <2> QED
    BY <2>2, <2>3
<1> QED
  BY <1>7, <1>15, <1>16, <1>17

\* com_diff_line: the operations turn the lines of the old text into those of the new one.
THEOREM LineDiff ==
  ASSUME NEW old \in Seq(Nat), NEW new \in Seq(Nat)
  PROVE  /\ ComDiffLine(old, new) \in Seq(Ops)
         /\ Fold("units", 0, SplitLines(old), ComDiffLine(old, new)) = SplitLines(new)
<1>1. PICK a, b : a = SplitLines(old) /\ b = SplitLines(new)
  OBVIOUS
<1>2. LinesLike(a) /\ LinesLike(b) /\ a \in Seq(Seq(Nat)) /\ b \in Seq(Seq(Nat))
  BY <1>1, SplitFlat DEF LinesLike
<1>3. Matching(a, b, Start, LcsPairs(a, b))
  BY <1>2, LcsMatches
<1>4. ComDiffLine(old, new) = OpsFromPairs(a, b, LcsPairs(a, b))
  BY <1>1 DEF ComDiffLine
<1> QED
  BY <1>1, <1>2, <1>3, <1>4, PairsToOps

-----------------------------------------------------------------------------
(* The segments of the character diff *)

Segs == [kind : {"del", "ins", "eq"}, s : Seq(Nat)]

\* The old text (w = "del") or the new one (w = "ins") that the segments stand for.
Side(w, segs) == Fold("side", w, <<>>, segs)

\* The side of one segment more.
LEMMA SideMore ==
  ASSUME NEW w, NEW segs \in Seq(Segs), NEW g \in Segs
  PROVE  Side(w, segs \o <<g>>) = Side(w, segs) \o PartOf(w, g) /\ PartOf(w, g) \in Seq(Nat)
<1>1. Fold("side", w, <<>>, segs \o <<g>>) = StepOf("side", w, Fold("side", w, <<>>, segs), g)
  BY FoldMore
<1>2. PartOf(w, g) \in Seq(Nat)
  BY DEF PartOf, Segs
<1> QED
  BY <1>1, <1>2 DEF Side, StepOf

\* The sides of no segment and of one.
LEMMA SideFew ==
  ASSUME NEW w, NEW g \in Segs
  PROVE  Side(w, <<>>) = <<>> /\ Side(w, <<g>>) = PartOf(w, g)
<1>1. Side(w, <<>>) = <<>>
  BY FoldEmpty DEF Side
<1>2. PICK e : e = <<>>
  OBVIOUS
<1>3. e \in Seq(Segs) /\ e \o <<g>> = <<g>>
  BY <1>2
<1>4. Side(w, e \o <<g>>) = Side(w, e) \o PartOf(w, g) /\ PartOf(w, g) \in Seq(Nat)
  BY <1>3, SideMore
<1>5. <<>> \o PartOf(w, g) = PartOf(w, g)
  BY <1>4
<1> QED
  BY <1>1, <1>2, <1>3, <1>4, <1>5

\* A side is a text.
LEMMA SideText ==
  ASSUME NEW w, NEW segs \in Seq(Segs)
  PROVE  Side(w, segs) \in Seq(Nat)
<1> DEFINE Good == {t \in Seq(Segs) : Side(w, t) \in Seq(Nat)}
<1>1. <<>> \in Good
  <2>1. Side(w, <<>>) = <<>>
    BY FoldEmpty DEF Side
  <2>2. <<>> \in Seq(Segs) /\ <<>> \in Seq(Nat)
    OBVIOUS
  <2> QED
    BY <2>1, <2>2
<1>2. ASSUME NEW t \in Seq(Segs), NEW g \in Segs, t \in Good  PROVE t \o <<g>> \in Good
  <2>1. Side(w, t \o <<g>>) = Side(w, t) \o PartOf(w, g) /\ PartOf(w, g) \in Seq(Nat)
    BY SideMore
  <2>2. Side(w, t) \in Seq(Nat)
    BY <1>2
  <2>3. Side(w, t) \o PartOf(w, g) \in Seq(Nat) /\ t \o <<g>> \in Seq(Segs)
    BY <2>1, <2>2
  <2> QED
    BY <2>1, <2>3
<1>3. Good \in SUBSET Seq(Segs)
  OBVIOUS
<1>4. Good = Seq(Segs)
  <2> HIDE DEF Good
  <2> QED
    BY <1>1, <1>2, <1>3, SeqInduct
<1> QED
  BY <1>4

\* The side of two sequences of segments.
LEMMA SideConcat ==
  ASSUME NEW w, NEW s \in Seq(Segs), NEW t \in Seq(Segs)
  PROVE  Side(w, s \o t) = Side(w, s) \o Side(w, t)
<1> DEFINE Good == {u \in Seq(Segs) : Side(w, s \o u) = Side(w, s) \o Side(w, u)}
<1>1. <<>> \in Good
  <2>1. Side(w, <<>>) = <<>> /\ s \o <<>> = s
    BY FoldEmpty DEF Side
  <2>2. Side(w, s) \in Seq(Nat)
    BY SideText
  <2> QED
    BY <2>1, <2>2
<1>2. ASSUME NEW u \in Seq(Segs), NEW g \in Segs, u \in Good  PROVE u \o <<g>> \in Good
  <2>1. PICK v : v = s \o u
    OBVIOUS
  <2>2. v \in Seq(Segs) /\ s \o (u \o <<g>>) = v \o <<g>> /\ u \o <<g>> \in Seq(Segs)
    BY <2>1
  <2>3. Side(w, v \o <<g>>) = Side(w, v) \o PartOf(w, g) /\ PartOf(w, g) \in Seq(Nat)
    BY <2>2, SideMore
  <2>4. Side(w, u \o <<g>>) = Side(w, u) \o PartOf(w, g)
    BY SideMore
  <2>5. PICK x, y, z : x = Side(w, s) /\ y = Side(w, u) /\ z = PartOf(w, g)
    OBVIOUS
  <2>6. x \in Seq(Nat) /\ y \in Seq(Nat) /\ z \in Seq(Nat)
    BY <2>3, <2>5, SideText
  <2>7. (x \o y) \o z = x \o (y \o z)
    BY <2>6
  <2>8. Side(w, v) = x \o y
    BY <1>2, <2>1, <2>5
  <2> QED
    BY <2>2, <2>3, <2>4, <2>5, <2>7, <2>8
<1>3. Good \in SUBSET Seq(Segs)
  OBVIOUS
<1>4. Good = Seq(Segs)
  <2> HIDE DEF Good
  <2> QED
    BY <1>1, <1>2, <1>3, SeqInduct
<1> QED
  BY <1>4

\* Pieces put together: their side is what the fold of the elements they stand for gives.
LEMMA Pieces ==
  ASSUME NEW kind, NEW w, NEW T, NEW gs \in Seq(T), NEW ss \in Seq(Seq(Segs)),
         Len(ss) = Len(gs),
         \A k \in 1..Len(gs) : \A e \in Seq(Nat) : StepOf(kind, w, e, gs[k]) = e \o Side(w, ss[k])
  PROVE  FlattenSeq(ss) \in Seq(Segs) /\ Side(w, FlattenSeq(ss)) = Fold(kind, w, <<>>, gs)
<1>1. PICK n : n = Len(gs)
  OBVIOUS
<1> DEFINE Done(k) == /\ FlattenSeq(SubSeq(ss, 1, k)) \in Seq(Segs)
                      /\ Side(w, FlattenSeq(SubSeq(ss, 1, k))) = Fold(kind, w, <<>>, SubSeq(gs, 1, k))
           Good == {k \in Nat : k <= n => Done(k)}
<1>2. 0 \in Good
  <2>1. SubSeq(ss, 1, 0) = <<>> /\ SubSeq(gs, 1, 0) = <<>> /\ <<>> \in Seq(Segs)
    OBVIOUS
  <2>2. Side(w, <<>>) = <<>> /\ Fold(kind, w, <<>>, <<>>) = <<>>
    BY FoldEmpty DEF Side
  <2>3. Done(0)
    BY <2>1, <2>2, FlatNone
  <2> QED
    BY <2>3
<1>3. ASSUME NEW k \in Nat, k \in Good  PROVE k + 1 \in Good
  <2>0. k + 1 \in Nat
    OBVIOUS
  <2> SUFFICES ASSUME k + 1 <= n  PROVE Done(k + 1)
    <3> HIDE DEF Done
    <3> QED
      BY <2>0
  <2>1. k \in 0..(Len(gs) - 1) /\ k \in 0..(Len(ss) - 1) /\ k + 1 \in 1..Len(gs) /\ k <= n
    BY <1>1
  <2>2. Done(k)
    BY <1>3, <2>1
  <2>3. PICK us, x, hs, g : /\ us = FlattenSeq(SubSeq(ss, 1, k)) /\ x = ss[k + 1]
                            /\ hs = SubSeq(gs, 1, k) /\ g = gs[k + 1]
    OBVIOUS
  <2>4. us \in Seq(Segs) /\ x \in Seq(Segs) /\ FlattenSeq(SubSeq(ss, 1, k + 1)) = us \o x
    BY <2>1, <2>3, FlatPrefix
  <2>5. hs \in Seq(T) /\ g \in T /\ SubSeq(gs, 1, k + 1) = hs \o <<g>>
    BY <2>1, <2>3, OneMore
  <2>6. Side(w, us \o x) = Side(w, us) \o Side(w, x) /\ Side(w, us) \in Seq(Nat)
    BY <2>4, SideConcat, SideText
  <2>7. Fold(kind, w, <<>>, hs \o <<g>>) = StepOf(kind, w, Fold(kind, w, <<>>, hs), g)
    BY <2>5, FoldMore
  <2>8. Side(w, us) = Fold(kind, w, <<>>, hs)
    BY <2>2, <2>3
  <2>9. StepOf(kind, w, Side(w, us), g) = Side(w, us) \o Side(w, x)
    BY <2>1, <2>3, <2>6
  <2>10. us \o x \in Seq(Segs)
    BY <2>4
  <2> QED
    BY <2>4, <2>5, <2>6, <2>7, <2>8, <2>9, <2>10
<1>4. Good \in SUBSET Nat
  OBVIOUS
<1>5. Good = Nat
  <2> HIDE DEF Good
  <2> QED
    BY <1>2, <1>3, <1>4, Least
<1>6. n \in Nat /\ n <= n
  BY <1>1
<1>7. Done(n)
  <2>1. n \in Good
    <3> HIDE DEF Good
    <3> QED
      BY <1>5, <1>6
  <2> HIDE DEF Done
  <2> QED
    BY <1>6, <2>1
<1>8. SubSeq(ss, 1, n) = ss /\ SubSeq(gs, 1, n) = gs
  BY <1>1, SubAll
<1> QED
  BY <1>7, <1>8

\* Absorbing short equalities changes neither side.
LEMMA AbsorbSides ==
  ASSUME NEW w \in {"del", "ins"}, NEW segs \in Seq(Segs)
  PROVE  Absorb(segs) \in Seq(Segs) /\ Side(w, Absorb(segs)) = Side(w, segs)
<1>1. PICK ss : ss = [i \in DOMAIN segs |->
        IF /\ segs[i].kind = "eq" /\ Len(segs[i].s) < EditCost
           /\ i > 1 /\ i < Len(segs)
        THEN <<Seg("del", segs[i].s), Seg("ins", segs[i].s)>>
        ELSE <<segs[i]>>]
  OBVIOUS
<1>2. Absorb(segs) = FlattenSeq(ss)
  BY <1>1 DEF Absorb
<1>3. ASSUME NEW i \in 1..Len(segs)
      PROVE  ss[i] \in Seq(Segs) /\ Side(w, ss[i]) = PartOf(w, segs[i]) /\ PartOf(w, segs[i]) \in Seq(Nat)
  <2>1. PICK g, text : g = segs[i] /\ text = g.s
    OBVIOUS
  <2>2. g \in Segs /\ text \in Seq(Nat)
    <3>1. g \in Segs
      BY <2>1
    <3> QED
      BY <2>1, <3>1 DEF Segs
  <2>3. Side(w, <<g>>) = PartOf(w, g) /\ PartOf(w, g) \in Seq(Nat) /\ <<g>> \in Seq(Segs)
    BY <2>2, SideFew DEF PartOf, Segs
  <2>4. CASE ss[i] = <<g>>
    BY <2>1, <2>3, <2>4
  <2>5. CASE ss[i] = <<Seg("del", text), Seg("ins", text)>> /\ g.kind = "eq"
    <3>1. PICK d, e : d = Seg("del", text) /\ e = Seg("ins", text)
      OBVIOUS
    <3>2. d \in Segs /\ e \in Segs
      BY <2>2, <3>1 DEF Seg, Segs
    <3>3. <<d>> \in Seq(Segs) /\ <<d, e>> = <<d>> \o <<e>> /\ <<d, e>> \in Seq(Segs)
      <4>1. <<d>> \in Seq(Segs) /\ <<d, e>> \in Seq(Segs)
        BY <3>2
      <4>2. <<d, e>> = <<d>> \o <<e>>
        BY <3>2, TwoOf
      <4> QED
        BY <4>1, <4>2
    <3>4. Side(w, <<d>> \o <<e>>) = Side(w, <<d>>) \o PartOf(w, e)
      BY <3>2, <3>3, SideMore
    <3>5. Side(w, <<d>>) = PartOf(w, d)
      BY <3>2, SideFew
    <3>6. PartOf(w, d) \o PartOf(w, e) = text
      <4>1. /\ d.kind = "del" /\ d.s = text /\ e.kind = "ins" /\ e.s = text
        BY <3>1 DEF Seg
      <4>2. text \o <<>> = text /\ <<>> \o text = text
        BY <2>2
      <4>3. CASE w = "del"
        BY <4>1, <4>2, <4>3 DEF PartOf
      <4>4. CASE w = "ins"
        BY <4>1, <4>2, <4>4 DEF PartOf
      <4> QED
        BY <4>3, <4>4
    <3>7. PartOf(w, g) = text
      BY <2>1, <2>5 DEF PartOf
    <3> QED
      BY <2>1, <2>2, <2>5, <3>1, <3>3, <3>4, <3>5, <3>6, <3>7
  <2>6. ss[i] = <<g>> \/ (ss[i] = <<Seg("del", text), Seg("ins", text)>> /\ g.kind = "eq")
    <3>1. i \in DOMAIN segs
      OBVIOUS
    <3> QED
      BY <1>1, <2>1, <3>1
  <2> QED
    BY <2>4, <2>5, <2>6
<1>4. ss \in Seq(Seq(Segs)) /\ Len(ss) = Len(segs)
  <2>0. DOMAIN segs = 1..Len(segs)
    OBVIOUS
  <2>1. ss \in [1..Len(segs) -> Seq(Segs)]
    BY <1>1, <1>3, <2>0
  <2> QED
    BY <2>1
<1>5. \A k \in 1..Len(segs) : \A e \in Seq(Nat) : StepOf("side", w, e, segs[k]) = e \o Side(w, ss[k])
  BY <1>3 DEF StepOf
<1>6. FlattenSeq(ss) \in Seq(Segs) /\ Side(w, FlattenSeq(ss)) = Fold("side", w, <<>>, segs)
  BY <1>4, <1>5, Pieces
<1> QED
  BY <1>2, <1>6 DEF Side

\* A run of edits and the equality after it.
Runs == [del : Seq(Nat), ins : Seq(Nat), eq : Seq(Nat)]
RunText(w, runs) == Fold("runside", w, <<>>, runs)
OfRuns(runs) ==
    FlattenSeq([k \in DOMAIN runs |->
        SegIf("del", runs[k].del) \o SegIf("ins", runs[k].ins) \o SegIf("eq", runs[k].eq)])

\* MergeRuns makes segments of the runs it collects.
LEMMA MergeIs ==
  ASSUME NEW segs
  PROVE  MergeRuns(segs) = OfRuns(Fold("runs", 0, <<>>, segs))
<1>1. MergeRuns(segs) = OfRuns(FoldLeft(RunsStep, <<>>, segs))
  BY DEF MergeRuns, OfRuns, RunsStep, NoRun
<1> QED
  BY <1>1, RunsAreFold

\* One part of a run replaced.
Put(r, k, t) == [r EXCEPT ![k] = t]
LEMMA RunPut ==
  ASSUME NEW r \in Runs, NEW k \in {"del", "ins", "eq"}, NEW t \in Seq(Nat)
  PROVE  /\ Put(r, k, t) \in Runs /\ Put(r, k, t)[k] = t
         /\ \A j \in {"del", "ins", "eq"} : j # k => Put(r, k, t)[j] = r[j]
<1>0. PICK x : x = Put(r, k, t)
  OBVIOUS
<1>1. r = [del |-> r.del, ins |-> r.ins, eq |-> r.eq]
  BY DEF Runs
<1>2. r.del \in Seq(Nat) /\ r.ins \in Seq(Nat) /\ r.eq \in Seq(Nat)
  BY DEF Runs
<1>3. CASE k = "del"
  <2>1. x = [del |-> t, ins |-> r.ins, eq |-> r.eq]
    BY <1>0, <1>1, <1>3 DEF Put
  <2>2. x \in Runs
    BY <1>2, <2>1 DEF Runs
  <2>3. x["del"] = t /\ x["ins"] = r["ins"] /\ x["eq"] = r["eq"]
    BY <2>1
  <2> QED
    BY <1>0, <1>2, <1>3, <2>2, <2>3
<1>4. CASE k = "ins"
  <2>1. x = [del |-> r.del, ins |-> t, eq |-> r.eq]
    BY <1>0, <1>1, <1>4 DEF Put
  <2>2. x \in Runs
    BY <1>2, <2>1 DEF Runs
  <2>3. x["ins"] = t /\ x["del"] = r["del"] /\ x["eq"] = r["eq"]
    BY <2>1
  <2> QED
    BY <1>0, <1>2, <1>4, <2>2, <2>3
<1>5. CASE k = "eq"
  <2>1. x = [del |-> r.del, ins |-> r.ins, eq |-> t]
    BY <1>0, <1>1, <1>5 DEF Put
  <2>2. x \in Runs
    BY <1>2, <2>1 DEF Runs
  <2>3. x["eq"] = t /\ x["del"] = r["del"] /\ x["ins"] = r["ins"]
    BY <2>1
  <2> QED
    BY <1>0, <1>2, <1>5, <2>2, <2>3
<1> QED
  BY <1>0, <1>3, <1>4, <1>5

\* The text of runs is a text.
LEMMA RunTexts ==
  ASSUME NEW w \in {"del", "ins"}, NEW runs \in Seq(Runs)
  PROVE  RunText(w, runs) \in Seq(Nat)
<1> DEFINE Good == {t \in Seq(Runs) : RunText(w, t) \in Seq(Nat)}
<1>1. <<>> \in Good
  <2>1. RunText(w, <<>>) = <<>>
    BY FoldEmpty DEF RunText
  <2>2. <<>> \in Seq(Runs) /\ <<>> \in Seq(Nat)
    OBVIOUS
  <2> QED
    BY <2>1, <2>2
<1>2. ASSUME NEW t \in Seq(Runs), NEW r \in Runs, t \in Good  PROVE t \o <<r>> \in Good
  <2>1. Fold("runside", w, <<>>, t \o <<r>>) = StepOf("runside", w, Fold("runside", w, <<>>, t), r)
    BY FoldMore
  <2>2. RunText(w, t \o <<r>>) = RunText(w, t) \o (r[w] \o r.eq)
    BY <2>1 DEF StepOf, RunText
  <2>3. r["del"] \in Seq(Nat) /\ r["ins"] \in Seq(Nat) /\ r.eq \in Seq(Nat)
    BY DEF Runs
  <2>4. RunText(w, t) \in Seq(Nat) /\ t \o <<r>> \in Seq(Runs) /\ r[w] \in Seq(Nat)
    BY <1>2, <2>3
  <2>5. RunText(w, t) \o (r[w] \o r.eq) \in Seq(Nat)
    BY <2>3, <2>4
  <2> QED
    BY <2>2, <2>4, <2>5
<1>3. Good \in SUBSET Seq(Runs)
  OBVIOUS
<1>4. Good = Seq(Runs)
  <2> HIDE DEF Good
  <2> QED
    BY <1>1, <1>2, <1>3, SeqInduct
<1> QED
  BY <1>4

\* A segment, or none, of a text.
LEMMA SegIfSide ==
  ASSUME NEW w, NEW kind \in {"del", "ins", "eq"}, NEW text \in Seq(Nat)
  PROVE  /\ SegIf(kind, text) \in Seq(Segs)
         /\ Side(w, SegIf(kind, text)) = IF kind \in {w, "eq"} THEN text ELSE <<>>
<1>1. PICK g : g = Seg(kind, text)
  OBVIOUS
<1>2. g \in Segs /\ g.kind = kind /\ g.s = text
  BY <1>1 DEF Seg, Segs
<1>3. Side(w, <<>>) = <<>> /\ Side(w, <<g>>) = PartOf(w, g) /\ <<g>> \in Seq(Segs) /\ <<>> \in Seq(Segs)
  BY <1>2, SideFew
<1>4. PartOf(w, g) = IF kind \in {w, "eq"} THEN text ELSE <<>>
  BY <1>2 DEF PartOf
<1>5. CASE text = <<>>
  BY <1>3, <1>5 DEF SegIf
<1>6. CASE text # <<>>
  BY <1>1, <1>3, <1>4, <1>6 DEF SegIf
<1> QED
  BY <1>5, <1>6

\* What a delete, an insert and an equality, each only if there is one, stand for.
Three(d, i, e) == SegIf("del", d) \o SegIf("ins", i) \o SegIf("eq", e)
LEMMA ThreeSegs ==
  ASSUME NEW d \in Seq(Nat), NEW i \in Seq(Nat), NEW e \in Seq(Nat)
  PROVE  /\ Three(d, i, e) \in Seq(Segs)
         /\ Side("del", Three(d, i, e)) = d \o e /\ Side("ins", Three(d, i, e)) = i \o e
<1>0. ASSUME NEW w \in {"del", "ins"}
      PROVE  /\ Three(d, i, e) \in Seq(Segs)
             /\ Side(w, Three(d, i, e)) = (IF w = "del" THEN d ELSE i) \o e
  <2>1. PICK x, y, z : x = SegIf("del", d) /\ y = SegIf("ins", i) /\ z = SegIf("eq", e)
    OBVIOUS
  <2>2. /\ x \in Seq(Segs) /\ Side(w, x) = IF w = "del" THEN d ELSE <<>>
        /\ y \in Seq(Segs) /\ Side(w, y) = IF w = "ins" THEN i ELSE <<>>
        /\ z \in Seq(Segs) /\ Side(w, z) = e
    BY <2>1, SegIfSide
  <2>3. x \in Seq(Segs) /\ y \in Seq(Segs) /\ z \in Seq(Segs)
    BY <2>2
  <2>4. PICK u : u = x \o y
    OBVIOUS
  <2>5. u \in Seq(Segs)
    BY <2>3, <2>4
  <2>6. Side(w, x \o y) = Side(w, x) \o Side(w, y) /\ Side(w, u \o z) = Side(w, u) \o Side(w, z)
    BY <2>3, <2>5, SideConcat
  <2>7. u \o z \in Seq(Segs)
    BY <2>3, <2>5
  <2>8. Side(w, x) \o Side(w, y) = IF w = "del" THEN d ELSE i
    <3>1. d \o <<>> = d /\ <<>> \o i = i
      OBVIOUS
    <3> QED
      BY <2>2, <3>1
  <2> QED
    BY <2>1, <2>2, <2>4, <2>6, <2>7, <2>8 DEF Three
<1> QED
  BY <1>0

\* A step of MergeRuns adds to each side what the segment has of it.
LEMMA RunsStepSides ==
  ASSUME NEW w \in {"del", "ins"}, NEW runs \in Seq(Runs), NEW g \in Segs
  PROVE  /\ RunsStep(runs, g) \in Seq(Runs)
         /\ RunText(w, runs) \in Seq(Nat) =>
              RunText(w, RunsStep(runs, g)) = RunText(w, runs) \o PartOf(w, g)
<1>1. PICK k, t : k = g.kind /\ t = g.s
  OBVIOUS
<1>2. k \in {"del", "ins", "eq"} /\ t \in Seq(Nat)
  BY <1>1 DEF Segs
<1>3. PartOf(w, g) = IF k \in {w, "eq"} THEN t ELSE <<>>
  BY <1>1 DEF PartOf
<1>4. t \o <<>> = t /\ <<>> \o t = t
  BY <1>2
<1>5. CASE runs = <<>> \/ (g.kind # "eq" /\ Last(runs).eq # <<>>)
  <2>1. PICK x : x = Put(NoRun, k, t)
    OBVIOUS
  <2>2. NoRun \in Runs /\ NoRun["del"] = <<>> /\ NoRun["ins"] = <<>> /\ NoRun["eq"] = <<>>
    BY DEF NoRun, Runs
  <2>3. x \in Runs /\ x[k] = t /\ \A j \in {"del", "ins", "eq"} : j # k => x[j] = NoRun[j]
    BY <1>2, <2>1, <2>2, RunPut
  <2>4. RunsStep(runs, g) = runs \o <<x>> /\ runs \o <<x>> \in Seq(Runs)
    <3>1. RunsStep(runs, g) = Append(runs, x)
      BY <1>1, <1>5, <2>1 DEF RunsStep, Put
    <3> QED
      BY <2>3, <3>1, MoreSeq
  <2>5. RunText(w, runs \o <<x>>) = RunText(w, runs) \o (x[w] \o x.eq)
    <3>1. Fold("runside", w, <<>>, runs \o <<x>>)
          = StepOf("runside", w, Fold("runside", w, <<>>, runs), x)
      BY <2>3, FoldMore
    <3> QED
      BY <3>1 DEF StepOf, RunText
  <2>6. x[w] \o x.eq = PartOf(w, g)
    <3>1. CASE k = "eq"
      <4>1. x.eq = t /\ x[w] = <<>>
        BY <2>2, <2>3, <3>1
      <4> QED
        BY <1>3, <1>4, <3>1, <4>1
    <3>2. CASE k = w
      <4>1. x.eq = <<>> /\ x[w] = t
        BY <2>2, <2>3, <3>2
      <4> QED
        BY <1>3, <1>4, <3>2, <4>1
    <3>3. CASE k # w /\ k # "eq"
      <4>1. x.eq = <<>> /\ x[w] = <<>>
        BY <2>2, <2>3, <3>3
      <4>2. <<>> \o <<>> = <<>>
        OBVIOUS
      <4> QED
        BY <1>3, <3>3, <4>1, <4>2
    <3> QED
      BY <3>1, <3>2, <3>3
  <2> QED
    BY <2>4, <2>5, <2>6
<1>6. CASE ~(runs = <<>> \/ (g.kind # "eq" /\ Last(runs).eq # <<>>))
  <2>1. PICK n, fs, r : n = Len(runs) /\ fs = SubSeq(runs, 1, n - 1) /\ r = runs[n]
    OBVIOUS
  <2>2. n \in Nat /\ n > 0 /\ n - 1 \in Nat /\ Len(runs) = (n - 1) + 1 /\ (n - 1) + 1 = n
    BY <1>6, <2>1, EmptySeq
  <2>3. fs \in Seq(Runs) /\ r \in Runs /\ runs = fs \o <<r>>
    BY <2>1, <2>2, LastOff
  <2>4. Front(runs) = fs /\ Last(runs) = r /\ (k # "eq" => r.eq = <<>>)
    BY <1>1, <1>6, <2>1 DEF Front, Last
  <2>5. PICK x : x = Put(r, k, r[k] \o t)
    OBVIOUS
  <2>6. r["del"] \in Seq(Nat) /\ r["ins"] \in Seq(Nat) /\ r["eq"] \in Seq(Nat)
    BY <2>3 DEF Runs
  <2>7. r[k] \o t \in Seq(Nat)
    BY <1>2, <2>6
  <2>8. x \in Runs /\ x[k] = r[k] \o t /\ \A j \in {"del", "ins", "eq"} : j # k => x[j] = r[j]
    <3>1. PICK y : y = r[k] \o t
      OBVIOUS
    <3>2. /\ Put(r, k, y) \in Runs /\ Put(r, k, y)[k] = y
          /\ \A j \in {"del", "ins", "eq"} : j # k => Put(r, k, y)[j] = r[j]
      <4>1. y \in Seq(Nat)
        BY <2>7, <3>1
      <4>2. r \in Runs
        BY <2>3
      <4>3. k \in {"del", "ins", "eq"}
        BY <1>2
      <4> QED
        BY <4>1, <4>2, <4>3, RunPut
    <3> QED
      BY <2>5, <3>1, <3>2
  <2>9. RunsStep(runs, g) = fs \o <<x>> /\ fs \o <<x>> \in Seq(Runs)
    <3>1. RunsStep(runs, g) = Append(fs, x)
      BY <1>1, <1>6, <2>4, <2>5 DEF RunsStep, Put
    <3> QED
      BY <2>3, <2>8, <3>1, MoreSeq
  <2>10. /\ RunText(w, fs \o <<x>>) = RunText(w, fs) \o (x[w] \o x.eq)
         /\ RunText(w, fs \o <<r>>) = RunText(w, fs) \o (r[w] \o r.eq)
    <3>1. /\ Fold("runside", w, <<>>, fs \o <<x>>)
             = StepOf("runside", w, Fold("runside", w, <<>>, fs), x)
          /\ Fold("runside", w, <<>>, fs \o <<r>>)
             = StepOf("runside", w, Fold("runside", w, <<>>, fs), r)
      BY <2>3, <2>8, FoldMore
    <3> QED
      BY <3>1 DEF StepOf, RunText
  <2>11. x[w] \o x.eq = (r[w] \o r.eq) \o PartOf(w, g) /\ r[w] \o r.eq \in Seq(Nat)
    <3>1. PICK i, e : i = r[w] /\ e = r.eq
      OBVIOUS
    <3>2. i \in Seq(Nat) /\ e \in Seq(Nat) /\ i \o e \in Seq(Nat)
      BY <2>6, <3>1
    <3>3. CASE k = "eq"
      <4>1. x.eq = e \o t /\ x[w] = i
        BY <2>8, <3>1, <3>3
      <4>2. i \o (e \o t) = (i \o e) \o t
        BY <1>2, <3>2
      <4> QED
        BY <1>3, <3>1, <3>2, <3>3, <4>1, <4>2
    <3>4. CASE k = w
      <4>1. x.eq = <<>> /\ x[w] = i \o t /\ e = <<>>
        BY <2>4, <2>8, <3>1, <3>4
      <4>2. (i \o t) \o <<>> = i \o t /\ i \o <<>> = i
        BY <1>2, <3>2
      <4> QED
        BY <1>3, <3>1, <3>2, <3>4, <4>1, <4>2
    <3>5. CASE k # w /\ k # "eq"
      <4>1. x.eq = e /\ x[w] = i
        BY <2>8, <3>1, <3>5
      <4>2. (i \o e) \o <<>> = i \o e
        BY <3>2
      <4> QED
        BY <1>3, <3>1, <3>2, <3>5, <4>1, <4>2
    <3> QED
      BY <3>3, <3>4, <3>5
  <2>12. PartOf(w, g) \in Seq(Nat)
    BY <1>2, <1>3
  <2>13. ASSUME RunText(w, runs) \in Seq(Nat)
         PROVE  RunText(w, RunsStep(runs, g)) = RunText(w, runs) \o PartOf(w, g)
    <3>1. PICK f, y, z : f = RunText(w, fs) /\ y = r[w] \o r.eq /\ z = PartOf(w, g)
      OBVIOUS
    <3>2. y \in Seq(Nat) /\ z \in Seq(Nat) /\ RunText(w, runs) = f \o y
      BY <2>3, <2>10, <2>11, <2>12, <3>1
    <3>3. f \in Seq(Nat)
      BY <2>3, <3>1, RunTexts
    <3>4. f \o (y \o z) = (f \o y) \o z
      <4>1. f \in Seq(Nat) /\ y \in Seq(Nat) /\ z \in Seq(Nat)
        BY <3>2, <3>3
      <4>2. Cat(Cat(f, y), z) = Cat(f, Cat(y, z))
        BY <4>1, CatRegroup
      <4> QED
        BY <4>2 DEF Cat
    <3> QED
      BY <2>9, <2>10, <2>11, <3>1, <3>2, <3>4
  <2> QED
    BY <2>9, <2>13
<1> QED
  BY <1>5, <1>6

\* Merging runs changes neither side.
LEMMA MergeSides ==
  ASSUME NEW w \in {"del", "ins"}, NEW segs \in Seq(Segs)
  PROVE  MergeRuns(segs) \in Seq(Segs) /\ Side(w, MergeRuns(segs)) = Side(w, segs)
<1> DEFINE Good == {t \in Seq(Segs) : /\ Fold("runs", 0, <<>>, t) \in Seq(Runs)
                                      /\ RunText(w, Fold("runs", 0, <<>>, t)) = Side(w, t)}
<1>1. <<>> \in Good
  <2>1. Fold("runs", 0, <<>>, <<>>) = <<>> /\ RunText(w, <<>>) = <<>> /\ Side(w, <<>>) = <<>>
    BY FoldEmpty DEF Side, RunText
  <2>2. <<>> \in Seq(Segs) /\ <<>> \in Seq(Runs)
    OBVIOUS
  <2> QED
    BY <2>1, <2>2
<1>2. ASSUME NEW t \in Seq(Segs), NEW g \in Segs, t \in Good  PROVE t \o <<g>> \in Good
  <2>1. PICK runs : runs = Fold("runs", 0, <<>>, t)
    OBVIOUS
  <2>2. runs \in Seq(Runs) /\ RunText(w, runs) = Side(w, t) /\ t \o <<g>> \in Seq(Segs)
    BY <1>2, <2>1
  <2>3. Fold("runs", 0, <<>>, t \o <<g>>) = RunsStep(runs, g)
    <3>1. Fold("runs", 0, <<>>, t \o <<g>>) = StepOf("runs", 0, Fold("runs", 0, <<>>, t), g)
      BY FoldMore
    <3> QED
      BY <2>1, <3>1 DEF StepOf
  <2>4. Side(w, t) \in Seq(Nat) /\ Side(w, t \o <<g>>) = Side(w, t) \o PartOf(w, g)
    BY SideText, SideMore
  <2>5. /\ RunsStep(runs, g) \in Seq(Runs)
        /\ RunText(w, RunsStep(runs, g)) = RunText(w, runs) \o PartOf(w, g)
    BY <2>2, <2>4, RunsStepSides
  <2> QED
    BY <2>2, <2>3, <2>4, <2>5
<1>3. Good \in SUBSET Seq(Segs)
  OBVIOUS
<1>4. Good = Seq(Segs)
  <2> HIDE DEF Good
  <2> QED
    BY <1>1, <1>2, <1>3, SeqInduct
<1>5. PICK runs : runs = Fold("runs", 0, <<>>, segs)
  OBVIOUS
<1>6. runs \in Seq(Runs) /\ RunText(w, runs) = Side(w, segs)
  BY <1>4, <1>5
<1>7. PICK ss : ss = [k \in DOMAIN runs |->
        SegIf("del", runs[k].del) \o SegIf("ins", runs[k].ins) \o SegIf("eq", runs[k].eq)]
  OBVIOUS
<1>8. MergeRuns(segs) = FlattenSeq(ss)
  BY <1>5, <1>7, MergeIs DEF OfRuns
<1>9. ASSUME NEW k \in 1..Len(runs)
      PROVE  ss[k] \in Seq(Segs) /\ Side(w, ss[k]) = runs[k][w] \o runs[k].eq
  <2>1. PICK r, t : r = runs[k] /\ t = SegIf("del", r.del) \o SegIf("ins", r.ins) \o SegIf("eq", r.eq)
    OBVIOUS
  <2>2. r \in Runs /\ k \in DOMAIN runs
    BY <1>6, <2>1
  <2>3. r.del \in Seq(Nat) /\ r.ins \in Seq(Nat) /\ r.eq \in Seq(Nat)
    BY <2>2 DEF Runs
  <2>4. ss[k] = t
    BY <1>7, <2>1, <2>2
  <2>5. t \in Seq(Segs) /\ Side(w, t) = (IF w = "del" THEN r.del ELSE r.ins) \o r.eq
    <3>1. PICK d, i, e : d = r.del /\ i = r.ins /\ e = r.eq
      OBVIOUS
    <3>2. d \in Seq(Nat) /\ i \in Seq(Nat) /\ e \in Seq(Nat)
      BY <2>3, <3>1
    <3>3. /\ Three(d, i, e) \in Seq(Segs)
          /\ Side("del", Three(d, i, e)) = d \o e /\ Side("ins", Three(d, i, e)) = i \o e
      BY <3>2, ThreeSegs
    <3> QED
      BY <2>1, <3>1, <3>3 DEF Three
  <2> QED
    BY <2>1, <2>4, <2>5
<1>10. ss \in Seq(Seq(Segs)) /\ Len(ss) = Len(runs)
  <2>0. DOMAIN runs = 1..Len(runs)
    BY <1>6
  <2>1. ss \in [1..Len(runs) -> Seq(Segs)]
    BY <1>7, <1>9, <2>0
  <2> QED
    BY <1>6, <2>1
<1>11. \A k \in 1..Len(runs) : \A e \in Seq(Nat) :
          StepOf("runside", w, e, runs[k]) = e \o Side(w, ss[k])
  BY <1>9 DEF StepOf
<1>12. FlattenSeq(ss) \in Seq(Segs) /\ Side(w, FlattenSeq(ss)) = Fold("runside", w, <<>>, runs)
  BY <1>6, <1>10, <1>11, Pieces
<1> QED
  BY <1>6, <1>8, <1>12 DEF RunText

\* So does the whole cleanup.
IsPass(segs, n, f) ==
    f = [k \in 0..n |-> IF k = 0 THEN segs ELSE MergeRuns(Absorb(f[k - 1]))]
ThePass(segs, n) == CHOOSE f : IsPass(segs, n, f)

\* The passes of the cleanup exist.
LEMMA PassExists ==
  ASSUME NEW segs, NEW n \in Nat
  PROVE  \E f : IsPass(segs, n, f)
<1> DEFINE Good == {k \in Nat : \E f : IsPass(segs, k, f)}
<1>1. 0 \in Good
  <2>1. PICK f : f = [k \in 0..0 |-> segs]
    OBVIOUS
  <2>2. IsPass(segs, 0, f)
    BY <2>1 DEF IsPass
  <2> QED
    BY <2>2
<1>2. ASSUME NEW k \in Nat, k \in Good  PROVE k + 1 \in Good
  <2>1. PICK f : IsPass(segs, k, f)
    BY <1>2
  <2>2. PICK g : g = [j \in 0..(k + 1) |-> IF j = k + 1 THEN MergeRuns(Absorb(f[k])) ELSE f[j]]
    OBVIOUS
  <2>3. ASSUME NEW j \in 0..(k + 1)
        PROVE  g[j] = IF j = 0 THEN segs ELSE MergeRuns(Absorb(g[j - 1]))
    <3>1. CASE j = k + 1
      <4>1. k \in 0..(k + 1) /\ k # k + 1 /\ j - 1 = k /\ j # 0
        BY <3>1
      <4>2. g[k] = f[k]
        BY <2>2, <4>1
      <4> QED
        BY <2>2, <3>1, <4>1, <4>2
    <3>2. CASE j # k + 1 /\ j # 0
      <4>1. j \in 0..k /\ j - 1 \in 0..(k + 1) /\ j - 1 # k + 1
        BY <3>2
      <4>2. f[j] = MergeRuns(Absorb(f[j - 1]))
        BY <2>1, <3>2, <4>1 DEF IsPass
      <4>3. g[j] = f[j] /\ g[j - 1] = f[j - 1]
        BY <2>2, <3>2, <4>1
      <4> QED
        BY <3>2, <4>2, <4>3
    <3>3. CASE j = 0
      <4>1. 0 \in 0..k /\ 0 # k + 1
        OBVIOUS
      <4>2. f[0] = segs
        BY <2>1, <4>1 DEF IsPass
      <4> QED
        BY <2>2, <3>3, <4>1, <4>2
    <3> QED
      BY <3>1, <3>2, <3>3
  <2>4. IsPass(segs, k + 1, g)
    BY <2>2, <2>3 DEF IsPass
  <2> QED
    BY <2>4
<1>3. Good \in SUBSET Nat
  OBVIOUS
<1>4. Good = Nat
  <2> HIDE DEF Good
  <2> QED
    BY <1>1, <1>2, <1>3, Least
<1> QED
  BY <1>4

\* The sides stay through all the passes.
LEMMA CleanupSides ==
  ASSUME NEW w \in {"del", "ins"}, NEW segs \in Seq(Segs)
  PROVE  Cleanup(segs) \in Seq(Segs) /\ Side(w, Cleanup(segs)) = Side(w, segs)
<1>1. PICK n, f : n = Len(segs) + 1 /\ f = ThePass(segs, n)
  OBVIOUS
<1>2. n \in Nat
  BY <1>1
<1>3. IsPass(segs, n, f)
  BY <1>1, <1>2, PassExists DEF ThePass
<1>4. Cleanup(segs) = f[n]
  BY <1>1 DEF Cleanup, ThePass, IsPass
<1> DEFINE Good == {k \in Nat : k <= n => f[k] \in Seq(Segs) /\ Side(w, f[k]) = Side(w, segs)}
<1>5. 0 \in Good
  <2>1. f[0] = segs
    BY <1>2, <1>3 DEF IsPass
  <2> QED
    BY <2>1
<1>6. ASSUME NEW k \in Nat, k \in Good  PROVE k + 1 \in Good
  <2> SUFFICES ASSUME k + 1 <= n
               PROVE  f[k + 1] \in Seq(Segs) /\ Side(w, f[k + 1]) = Side(w, segs)
    OBVIOUS
  <2>1. k <= n /\ k + 1 \in 0..n /\ k + 1 # 0 /\ (k + 1) - 1 = k
    BY <1>2
  <2>2. f[k + 1] = MergeRuns(Absorb(f[k]))
    BY <1>3, <2>1 DEF IsPass
  <2>3. PICK x, y : x = f[k] /\ y = Absorb(x)
    OBVIOUS
  <2>4. x \in Seq(Segs) /\ Side(w, x) = Side(w, segs)
    BY <1>6, <2>1, <2>3
  <2>5. y \in Seq(Segs) /\ Side(w, y) = Side(w, x)
    BY <2>3, <2>4, AbsorbSides
  <2>6. MergeRuns(y) \in Seq(Segs) /\ Side(w, MergeRuns(y)) = Side(w, y)
    BY <2>5, MergeSides
  <2> QED
    BY <2>2, <2>3, <2>4, <2>5, <2>6
<1>7. Good \in SUBSET Nat
  OBVIOUS
<1>8. Good = Nat
  <2> HIDE DEF Good
  <2> QED
    BY <1>5, <1>6, <1>7, Least
<1>9. n \in Good /\ n <= n
  <2> HIDE DEF Good
  <2> QED
    BY <1>2, <1>8
<1> QED
  BY <1>4, <1>9

\* Pieces that stand for one stretch of a text after the other stand for the text.
Stretches(w, c, m, e, ss) ==
    /\ e[0] = 0 /\ e[m] = Len(c)
    /\ \A k \in 0..(m - 1) : e[k] \in 0..Len(c) /\ e[k + 1] \in e[k]..Len(c)
    /\ ss \in Seq(Seq(Segs)) /\ Len(ss) = m
    /\ \A k \in 0..(m - 1) : Side(w, ss[k + 1]) = SubSeq(c, e[k] + 1, e[k + 1])
LEMMA PieceText ==
  ASSUME NEW w, NEW c \in Seq(Nat), NEW m \in Nat, NEW e, NEW ss, Stretches(w, c, m, e, ss)
  PROVE  FlattenSeq(ss) \in Seq(Segs) /\ Side(w, FlattenSeq(ss)) = c
<1> USE DEF Stretches
<1> DEFINE Upto(k) == FlattenSeq(SubSeq(ss, 1, k))
           Done(k) == Upto(k) \in Seq(Segs) /\ Side(w, Upto(k)) = SubSeq(c, 1, e[k])
           Good == {k \in Nat : k <= m => Done(k)}
<1>1. 0 \in Good
  <2>1. SubSeq(ss, 1, 0) = <<>> /\ SubSeq(c, 1, 0) = <<>> /\ <<>> \in Seq(Segs)
    OBVIOUS
  <2>2. Upto(0) = <<>> /\ Side(w, <<>>) = <<>>
    BY <2>1, FlatNone, FoldEmpty DEF Side
  <2>3. Done(0)
    BY <2>1, <2>2
  <2> QED
    BY <2>3
<1>2. ASSUME NEW k \in Nat, k \in Good  PROVE k + 1 \in Good
  <2>0. k + 1 \in Nat
    OBVIOUS
  <2> SUFFICES ASSUME k + 1 <= m  PROVE Done(k + 1)
    <3> HIDE DEF Done
    <3> QED
      BY <2>0
  <2>1. k \in 0..(m - 1) /\ k <= m /\ k \in 0..(Len(ss) - 1)
    OBVIOUS
  <2>2. Done(k)
    BY <1>2, <2>1
  <2>3. PICK x, y : x = Upto(k) /\ y = ss[k + 1]
    OBVIOUS
  <2>4. x \in Seq(Segs) /\ y \in Seq(Segs) /\ Upto(k + 1) = x \o y
    BY <2>1, <2>3, FlatPrefix
  <2>5. Side(w, x \o y) = Side(w, x) \o Side(w, y) /\ x \o y \in Seq(Segs)
    <3>1. x \in Seq(Segs) /\ y \in Seq(Segs)
      BY <2>4
    <3>2. Side(w, x \o y) = Side(w, x) \o Side(w, y)
      BY <3>1, SideConcat
    <3> QED
      BY <3>1, <3>2
  <2>6. PICK i, j : i = e[k] /\ j = e[k + 1]
    OBVIOUS
  <2>7. i \in 0..Len(c) /\ j \in i..Len(c)
    BY <2>1, <2>6
  <2>8. SubSeq(c, 1, i) \o SubSeq(c, i + 1, j) = SubSeq(c, 1, j)
    <3>1. 1 \in 1..(Len(c) + 1) /\ i \in (1 - 1)..Len(c) /\ j \in i..Len(c)
      BY <2>7
    <3> QED
      BY <3>1, SubMeet
  <2>9. Side(w, y) = SubSeq(c, i + 1, j)
    BY <2>1, <2>3, <2>6
  <2> QED
    BY <2>2, <2>3, <2>4, <2>5, <2>6, <2>8, <2>9
<1>3. Good \in SUBSET Nat
  OBVIOUS
<1>4. Good = Nat
  <2> HIDE DEF Good
  <2> QED
    BY <1>1, <1>2, <1>3, Least
<1>5. m \in Good /\ m <= m
  <2> HIDE DEF Good
  <2> QED
    BY <1>4
<1>6. Done(m)
  <2> HIDE DEF Done
  <2> QED
    BY <1>5
<1>7. SubSeq(ss, 1, m) = ss /\ SubSeq(c, 1, Len(c)) = c
  OBVIOUS
<1> QED
  BY <1>6, <1>7

\* A gap and the match after it.
LEMMA GapMatch ==
  ASSUME NEW c \in Seq(Nat), NEW i \in 0..Len(c), NEW j \in (i + 1)..Len(c)
  PROVE  SubSeq(c, i + 1, j) = SubSeq(c, i + 1, j - 1) \o <<c[j]>> /\ <<c[j]>> \in Seq(Nat)
<1>1. PICK x, y : x = SubSeq(c, i + 1, j) /\ y = SubSeq(c, i + 1, j - 1) \o <<c[j]>>
  OBVIOUS
<1>2. /\ x \in Seq(Nat) /\ Len(x) = j - i /\ \A k \in 1..(j - i) : x[k] = c[i + k]
      /\ c[j] \in Nat
  BY <1>1
<1>3. PICK z : z = SubSeq(c, i + 1, j - 1)
  OBVIOUS
<1>4. z \in Seq(Nat) /\ Len(z) = (j - 1) - i /\ \A k \in 1..((j - 1) - i) : z[k] = c[i + k]
  BY <1>3
<1>5. /\ y \in Seq(Nat) /\ Len(y) = Len(z) + 1 /\ y[Len(z) + 1] = c[j]
      /\ \A k \in 1..Len(z) : y[k] = z[k]
  BY <1>1, <1>2, <1>3, <1>4, MoreSeq
<1>6. Len(y) = j - i /\ \A k \in 1..(j - i) : y[k] = c[i + k]
  <2>1. Len(y) = j - i
    BY <1>4, <1>5
  <2>2. ASSUME NEW k \in 1..(j - i)  PROVE y[k] = c[i + k]
    <3>1. CASE k = j - i
      <4>1. Len(z) + 1 = k /\ i + k = j
        BY <1>4, <3>1
      <4> QED
        BY <1>5, <4>1
    <3>2. CASE k # j - i
      <4>1. k \in 1..Len(z) /\ k \in 1..((j - 1) - i)
        BY <1>4, <3>2
      <4> QED
        BY <1>4, <1>5, <4>1
    <3> QED
      BY <3>1, <3>2
  <2> QED
    BY <2>1, <2>2
<1>7. x = y
  <2>1. \A k \in 1..(j - i) : x[k] = y[k]
    BY <1>2, <1>6
  <2> QED
    BY <1>2, <1>5, <1>6, <2>1, SeqEqual
<1>8. <<c[j]>> \in Seq(Nat)
  BY <1>2
<1> QED
  BY <1>1, <1>7, <1>8

\* The segments made of a matching stand for the two texts.
LEMMA SegsSides ==
  ASSUME NEW a \in Seq(Nat), NEW b \in Seq(Nat), NEW ps, Matching(a, b, Start, ps),
         NEW w \in {"del", "ins"}
  PROVE  /\ SegsFromPairs(a, b, ps) \in Seq(Segs)
         /\ Side(w, SegsFromPairs(a, b, ps)) = IF w = "del" THEN a ELSE b
<1>1. PICK p, q : Places(a, b, ps, p, q)
  BY GapPlaces
<1>2. PICK n, na, nb : n = Len(ps) /\ na = Len(a) /\ nb = Len(b)
  OBVIOUS
<1>3. n \in Nat /\ na \in Nat /\ nb \in Nat
  BY <1>2 DEF Matching
<1>4. /\ p[1] = 0 /\ q[1] = 0 /\ p[n + 2] = na + 1 /\ q[n + 2] = nb + 1
      /\ \A k \in 1..(n + 1) : /\ p[k] \in 0..na /\ p[k + 1] \in (p[k] + 1)..(na + 1)
                               /\ q[k] \in 0..nb /\ q[k + 1] \in (q[k] + 1)..(nb + 1)
      /\ \A k \in 1..n : /\ ps[k][1] = p[k + 1] /\ p[k + 1] \in 1..na /\ q[k + 1] \in 1..nb
                         /\ a[p[k + 1]] = b[q[k + 1]]
  BY <1>1, <1>2 DEF Places
<1> DEFINE eq(k) == IF k <= n THEN <<a[p[k + 1]]>> ELSE <<>>
           old(k) == SubSeq(a, p[k] + 1, p[k + 1] - 1)
           new(k) == SubSeq(b, q[k] + 1, q[k + 1] - 1)
<1>5. PICK ss : ss = [k \in 1..(n + 1) |->
          SegIf("del", old(k)) \o SegIf("ins", new(k)) \o SegIf("eq", eq(k))]
  OBVIOUS
<1>6. SegsFromPairs(a, b, ps) = FlattenSeq(ss)
  <2>1. PICK gaps : gaps = Gaps(a, b, ps)
    OBVIOUS
  <2>2. gaps = [k \in 1..(n + 1) |->
          [at |-> q[k], old |-> SubSeq(a, p[k] + 1, p[k + 1] - 1),
           new |-> SubSeq(b, q[k] + 1, q[k + 1] - 1)]]
    BY <1>1, <1>2, <2>1 DEF Places
  <2>3. ASSUME NEW k \in 1..(n + 1)
        PROVE  SegIf("eq", eq(k)) = IF k <= Len(ps) THEN <<Seg("eq", <<a[ps[k][1]]>>)>> ELSE <<>>
    <3>1. CASE k <= n
      <4>1. ps[k][1] = p[k + 1] /\ <<a[p[k + 1]]>> # <<>>
        BY <1>3, <1>4, <3>1
      <4> QED
        BY <1>2, <3>1, <4>1 DEF SegIf
    <3>2. CASE ~(k <= n)
      BY <1>2, <3>2 DEF SegIf
    <3> QED
      BY <3>1, <3>2
  <2>4. [k \in DOMAIN gaps |-> SegIf("del", gaps[k].old) \o SegIf("ins", gaps[k].new)
            \o (IF k <= Len(ps) THEN <<Seg("eq", <<a[ps[k][1]]>>)>> ELSE <<>>)] = ss
    <3> HIDE DEF eq
    <3> QED
      BY <1>5, <2>2, <2>3
  <2> QED
    BY <2>1, <2>4 DEF SegsFromPairs
<1>7. PICK c, e : /\ c = IF w = "del" THEN a ELSE b
                  /\ e = [k \in 0..(n + 1) |-> IF k = n + 1 THEN Len(c)
                                              ELSE IF w = "del" THEN p[k + 1] ELSE q[k + 1]]
  OBVIOUS
<1>8. c \in Seq(Nat) /\ n + 1 \in Nat /\ e[0] = 0 /\ e[n + 1] = Len(c)
  BY <1>3, <1>4, <1>7
<1>9. ASSUME NEW k \in 0..n
      PROVE  /\ e[k] \in 0..Len(c) /\ e[k + 1] \in e[k]..Len(c)
             /\ ss[k + 1] \in Seq(Segs)
             /\ Side(w, ss[k + 1]) = SubSeq(c, e[k] + 1, e[k + 1])
  <2>1. PICK i, i1, j, j1 : /\ i = p[k + 1] /\ i1 = p[(k + 1) + 1]
                            /\ j = q[k + 1] /\ j1 = q[(k + 1) + 1]
    OBVIOUS
  <2>2. k + 1 \in 1..(n + 1) /\ (k + 1 <= n => k + 1 \in 1..n)
    BY <1>3
  <2>3. /\ i \in 0..Len(a) /\ i1 \in (i + 1)..(Len(a) + 1)
        /\ j \in 0..Len(b) /\ j1 \in (j + 1)..(Len(b) + 1)
        /\ k + 1 <= n => i1 \in 1..Len(a) /\ j1 \in 1..Len(b) /\ a[i1] = b[j1]
        /\ ~(k + 1 <= n) => i1 = Len(a) + 1 /\ j1 = Len(b) + 1
    <3>1. ~(k + 1 <= n) => (k + 1) + 1 = n + 2
      BY <1>3
    <3> QED
      BY <1>2, <1>4, <2>1, <2>2, <3>1
  <2>4. PICK x, y, u : x = old(k + 1) /\ y = new(k + 1) /\ u = eq(k + 1)
    OBVIOUS
  <2>5. x = SubSeq(a, i + 1, i1 - 1) /\ y = SubSeq(b, j + 1, j1 - 1)
    BY <2>1, <2>4
  <2>6. x \in Seq(Nat) /\ y \in Seq(Nat)
    <3>1. /\ i + 1 \in 1..(Len(a) + 1) /\ i1 - 1 \in ((i + 1) - 1)..Len(a)
          /\ j + 1 \in 1..(Len(b) + 1) /\ j1 - 1 \in ((j + 1) - 1)..Len(b)
      <4>1. PICK m, l : m = Len(a) /\ l = Len(b)
        OBVIOUS
      <4>2. m \in Nat /\ l \in Nat /\ i \in 0..m /\ i1 \in (i + 1)..(m + 1)
            /\ j \in 0..l /\ j1 \in (j + 1)..(l + 1)
        BY <2>3, <4>1
      <4>3. /\ i + 1 \in 1..(m + 1) /\ i1 - 1 \in ((i + 1) - 1)..m
            /\ j + 1 \in 1..(l + 1) /\ j1 - 1 \in ((j + 1) - 1)..l
        BY <4>2
      <4> QED
        BY <4>1, <4>3
    <3>2. SubSeq(a, i + 1, i1 - 1) \in Seq(Nat)
      BY <3>1, SubIn
    <3>3. SubSeq(b, j + 1, j1 - 1) \in Seq(Nat)
      BY <3>1, SubIn
    <3> QED
      BY <2>5, <3>2, <3>3
  <2>7. u = IF k + 1 <= n THEN <<a[i1]>> ELSE <<>>
    BY <2>1, <2>4
  <2>8. u \in Seq(Nat)
    <3>1. <<>> \in Seq(Nat)
      OBVIOUS
    <3>2. k + 1 <= n => <<a[i1]>> \in Seq(Nat)
      <4>1. k + 1 <= n => a[i1] \in Nat
        BY <2>3
      <4>2. \A t \in Nat : <<t>> \in Seq(Nat)
        OBVIOUS
      <4> QED
        BY <4>1, <4>2
    <3> QED
      BY <2>7, <3>1, <3>2
  <2>9. ss[k + 1] = SegIf("del", x) \o SegIf("ins", y) \o SegIf("eq", u)
    <3> HIDE DEF eq, old, new
    <3> QED
      BY <1>5, <2>2, <2>4
  <2>10. ss[k + 1] \in Seq(Segs) /\ Side(w, ss[k + 1]) = (IF w = "del" THEN x ELSE y) \o u
    <3>1. /\ Three(x, y, u) \in Seq(Segs)
          /\ Side("del", Three(x, y, u)) = x \o u /\ Side("ins", Three(x, y, u)) = y \o u
      BY <2>6, <2>8, ThreeSegs
    <3> QED
      BY <2>9, <3>1 DEF Three
  <2>11. PICK z, g, g1 : /\ z = IF w = "del" THEN x ELSE y
                         /\ g = IF w = "del" THEN i ELSE j
                         /\ g1 = IF w = "del" THEN i1 ELSE j1
    OBVIOUS
  <2>12. /\ g \in 0..Len(c) /\ g1 \in (g + 1)..(Len(c) + 1) /\ z = SubSeq(c, g + 1, g1 - 1)
         /\ k + 1 <= n => g1 \in 1..Len(c) /\ u = <<c[g1]>>
         /\ ~(k + 1 <= n) => g1 = Len(c) + 1 /\ u = <<>>
    BY <1>7, <2>3, <2>5, <2>7, <2>11
  <2>13. e[k] = g
    BY <1>3, <1>7, <2>1, <2>11
  <2>14. CASE k + 1 <= n
    <3>1. e[k + 1] = g1
      <4>1. k + 1 \in 0..(n + 1) /\ k + 1 # n + 1
        BY <1>3, <2>14
      <4> QED
        BY <1>7, <2>1, <2>11, <4>1
    <3>2. g1 \in (g + 1)..Len(c) /\ g1 \in g..Len(c)
      BY <2>12, <2>14
    <3>3. SubSeq(c, g + 1, g1) = SubSeq(c, g + 1, g1 - 1) \o <<c[g1]>>
      BY <1>8, <2>12, <3>2, GapMatch
    <3> QED
      BY <2>10, <2>11, <2>12, <2>13, <2>14, <3>1, <3>2, <3>3
  <2>15. CASE ~(k + 1 <= n)
    <3>1. k + 1 = n + 1 /\ g1 - 1 = Len(c) /\ Len(c) \in g..Len(c)
      BY <1>3, <1>8, <2>12, <2>15
    <3>2. z \o <<>> = z
      BY <2>6, <2>11
    <3> QED
      BY <1>8, <2>10, <2>11, <2>12, <2>13, <2>15, <3>1, <3>2
  <2> QED
    BY <2>14, <2>15
<1>10. ss \in Seq(Seq(Segs)) /\ Len(ss) = n + 1
  <2>1. ASSUME NEW k \in 1..(n + 1)  PROVE ss[k] \in Seq(Segs)
    <3>1. k - 1 \in 0..n /\ (k - 1) + 1 = k
      BY <1>3
    <3> QED
      BY <1>9, <3>1
  <2>2. ss \in [1..(n + 1) -> Seq(Segs)]
    <3> HIDE DEF eq, old, new
    <3> QED
      BY <1>5, <2>1
  <2> QED
    BY <1>3, <2>2
<1>11. FlattenSeq(ss) \in Seq(Segs) /\ Side(w, FlattenSeq(ss)) = c
  <2>1. PICK m : m = n + 1
    OBVIOUS
  <2>2. m \in Nat /\ m - 1 = n /\ Len(ss) = m /\ e[m] = Len(c)
    BY <1>3, <1>8, <1>10, <2>1
  <2>3. /\ \A k \in 0..(m - 1) : e[k] \in 0..Len(c) /\ e[k + 1] \in e[k]..Len(c)
        /\ \A k \in 0..(m - 1) : Side(w, ss[k + 1]) = SubSeq(c, e[k] + 1, e[k + 1])
    BY <1>9, <2>2
  <2> HIDE DEF eq, old, new
  <2>4. Stretches(w, c, m, e, ss)
    BY <1>8, <1>10, <2>2, <2>3 DEF Stretches
  <2> QED
    BY <1>8, <2>2, <2>4, PieceText
<1> QED
  BY <1>6, <1>7, <1>11

-----------------------------------------------------------------------------
(* The character diff *)

\* The running index of ops_from_segs counts the new text so far.
LEMMA CountIs ==
  ASSUME NEW segs \in Seq(Segs)
  PROVE  Fold("count", 0, 0, segs) = Len(Side("ins", segs)) /\ Fold("count", 0, 0, segs) \in Nat
<1> DEFINE Good == {t \in Seq(Segs) : Fold("count", 0, 0, t) = Len(Side("ins", t))}
<1>1. <<>> \in Good
  <2>1. Fold("count", 0, 0, <<>>) = 0 /\ Side("ins", <<>>) = <<>>
    BY FoldEmpty DEF Side
  <2>2. <<>> \in Seq(Segs) /\ Len(<<>>) = 0
    OBVIOUS
  <2> QED
    BY <2>1, <2>2
<1>2. ASSUME NEW t \in Seq(Segs), NEW g \in Segs, t \in Good  PROVE t \o <<g>> \in Good
  <2>1. Fold("count", 0, 0, t \o <<g>>) = StepOf("count", 0, Fold("count", 0, 0, t), g)
    BY FoldMore
  <2>2. Side("ins", t \o <<g>>) = Side("ins", t) \o PartOf("ins", g) /\ PartOf("ins", g) \in Seq(Nat)
    BY SideMore
  <2>3. Side("ins", t) \in Seq(Nat)
    BY SideText
  <2>4. PICK x, y : x = Side("ins", t) /\ y = PartOf("ins", g)
    OBVIOUS
  <2>5. x \in Seq(Nat) /\ y \in Seq(Nat) /\ Len(x \o y) = Len(x) + Len(y)
    BY <2>2, <2>3, <2>4
  <2>6. Len(y) = IF g.kind = "del" THEN 0 ELSE Len(g.s)
    BY <2>4 DEF PartOf, Segs
  <2>7. Fold("count", 0, 0, t) = Len(x)
    BY <1>2, <2>4
  <2>8. Fold("count", 0, 0, t \o <<g>>) = Len(x) + Len(y)
    BY <2>1, <2>6, <2>7 DEF StepOf
  <2>9. t \o <<g>> \in Seq(Segs)
    OBVIOUS
  <2> QED
    BY <2>2, <2>4, <2>5, <2>8, <2>9
<1>3. Good \in SUBSET Seq(Segs)
  OBVIOUS
<1>4. Good = Seq(Segs)
  <2> HIDE DEF Good
  <2> QED
    BY <1>1, <1>2, <1>3, SeqInduct
<1>5. Side("ins", segs) \in Seq(Nat)
  BY SideText
<1> QED
  BY <1>4, <1>5

\* The operations of one segment, and of all.
SegOp(g, n) ==
    CASE g.kind = "del" -> <<Delete(n, Len(g.s))>>
      [] g.kind = "ins" -> <<Insert(n, g.s)>>
      [] OTHER -> <<>>
SegOps(segs, base) ==
    [k \in DOMAIN segs |-> SegOp(segs[k], base + Fold("count", 0, 0, SubSeq(segs, 1, k - 1)))]

\* OpsFromSegs puts them together.
LEMMA SegOpsAre ==
  ASSUME NEW segs, NEW base
  PROVE  OpsFromSegs(segs, base) = FlattenSeq(SegOps(segs, base))
<1>1. \A k : FoldLeft(LAMBDA n, g : n + (IF g.kind = "del" THEN 0 ELSE Len(g.s)), 0, SubSeq(segs, 1, k - 1))
             = Fold("count", 0, 0, SubSeq(segs, 1, k - 1))
  BY CountIsFold
<1> QED
  BY <1>1 DEF OpsFromSegs, SegOps, SegOp

\* The operations of one segment are operations.
LEMMA SegOpOps ==
  ASSUME NEW g \in Segs, NEW n \in Nat
  PROVE  SegOp(g, n) \in Seq(Ops)
<1>1. g.kind \in {"del", "ins", "eq"} /\ g.s \in Seq(Nat)
  BY DEF Segs
<1>2. Delete(n, Len(g.s)) \in Ops /\ Insert(n, g.s) \in Ops
  BY <1>1 DEF Delete, Insert, Ops
<1>3. PICK d, i : d = Delete(n, Len(g.s)) /\ i = Insert(n, g.s)
  OBVIOUS
<1>4. <<d>> \in Seq(Ops) /\ <<i>> \in Seq(Ops) /\ <<>> \in Seq(Ops)
  BY <1>2, <1>3
<1> QED
  BY <1>1, <1>3, <1>4 DEF SegOp

\* The operations of one segment more.
LEMMA SegOpsMore ==
  ASSUME NEW base \in Nat, NEW t \in Seq(Segs), NEW g \in Segs
  PROVE  /\ SegOps(t, base) \in Seq(Seq(Ops))
         /\ SegOp(g, base + Fold("count", 0, 0, t)) \in Seq(Ops)
         /\ SegOps(t \o <<g>>, base) = SegOps(t, base) \o <<SegOp(g, base + Fold("count", 0, 0, t))>>
<1>1. ASSUME NEW u \in Seq(Segs)  PROVE SegOps(u, base) \in Seq(Seq(Ops)) /\ Len(SegOps(u, base)) = Len(u)
  <2>1. ASSUME NEW k \in 1..Len(u)
        PROVE  SegOp(u[k], base + Fold("count", 0, 0, SubSeq(u, 1, k - 1))) \in Seq(Ops)
    <3>1. PICK v, n : v = SubSeq(u, 1, k - 1) /\ n = Fold("count", 0, 0, v)
      OBVIOUS
    <3>2. v \in Seq(Segs) /\ u[k] \in Segs
      BY <3>1
    <3>3. n \in Nat
      BY <3>1, <3>2, CountIs
    <3>4. base + n \in Nat
      BY <3>3
    <3> QED
      BY <3>1, <3>2, <3>4, SegOpOps
  <2>2. DOMAIN u = 1..Len(u)
    OBVIOUS
  <2>3. SegOps(u, base) \in [1..Len(u) -> Seq(Ops)]
    BY <2>1, <2>2 DEF SegOps
  <2> QED
    BY <2>3
<1>2. PICK n, u, x, r : /\ n = Len(t) /\ u = t \o <<g>> /\ x = SegOp(g, base + Fold("count", 0, 0, t))
                        /\ r = SegOps(t, base) \o <<x>>
  OBVIOUS
<1>3. n \in Nat /\ u \in Seq(Segs) /\ Len(u) = n + 1 /\ u[n + 1] = g /\ \A i \in 1..n : u[i] = t[i]
  BY <1>2
<1>4. x \in Seq(Ops)
  <2>1. PICK i : i = base + Fold("count", 0, 0, t)
    OBVIOUS
  <2>2. i \in Nat
    <3>1. Fold("count", 0, 0, t) \in Nat
      BY CountIs
    <3> QED
      BY <2>1, <3>1
  <2> QED
    BY <1>2, <2>1, <2>2, SegOpOps
<1>5. SegOps(t, base) \in Seq(Seq(Ops)) /\ Len(SegOps(t, base)) = n
  BY <1>1, <1>2
<1>6. SegOps(u, base) \in Seq(Seq(Ops)) /\ Len(SegOps(u, base)) = n + 1
  BY <1>1, <1>3
<1>7. /\ r \in Seq(Seq(Ops)) /\ Len(r) = n + 1 /\ r[n + 1] = x
      /\ \A i \in 1..n : r[i] = SegOps(t, base)[i]
  <2>1. PICK q : q = SegOps(t, base)
    OBVIOUS
  <2>2. q \in Seq(Seq(Ops)) /\ Len(q) = n
    BY <1>5, <2>1
  <2>3. /\ q \o <<x>> \in Seq(Seq(Ops)) /\ Len(q \o <<x>>) = Len(q) + 1 /\ (q \o <<x>>)[Len(q) + 1] = x
        /\ \A i \in 1..Len(q) : (q \o <<x>>)[i] = q[i]
    BY <1>4, <2>2, MoreSeq
  <2> QED
    BY <1>2, <2>1, <2>2, <2>3
<1>8. ASSUME NEW k \in 1..(n + 1)  PROVE SegOps(u, base)[k] = r[k]
  <2>1. DOMAIN u = 1..(n + 1) /\ DOMAIN t = 1..n
    BY <1>2, <1>3
  <2>2. SegOps(u, base)[k] = SegOp(u[k], base + Fold("count", 0, 0, SubSeq(u, 1, k - 1)))
    BY <2>1 DEF SegOps
  <2>3. SubSeq(u, 1, k - 1) = SubSeq(t, 1, k - 1)
    BY <1>2
  <2>4. CASE k = n + 1
    <3>1. SubSeq(t, 1, k - 1) = t
      BY <1>2, <2>4
    <3> QED
      BY <1>2, <1>3, <1>7, <2>2, <2>3, <2>4, <3>1
  <2>5. CASE k # n + 1
    <3>1. k \in 1..n
      BY <1>3, <2>5
    <3>2. SegOps(t, base)[k] = SegOp(t[k], base + Fold("count", 0, 0, SubSeq(t, 1, k - 1)))
      BY <2>1, <3>1 DEF SegOps
    <3> QED
      BY <1>3, <1>7, <2>2, <2>3, <3>1, <3>2
  <2> QED
    BY <2>4, <2>5
<1>9. SegOps(u, base) = r
  BY <1>6, <1>7, <1>8, SeqEqual
<1> QED
  BY <1>2, <1>4, <1>5, <1>9

\* Concatenation associates.
LEMMA CatAssoc ==
  ASSUME NEW x \in Seq(Nat), NEW y \in Seq(Nat), NEW z \in Seq(Nat)
  PROVE  Cat(Cat(x, y), z) = Cat(x, Cat(y, z)) /\ Cat(x, y) \in Seq(Nat)
  BY DEF Cat

\* The length of a concatenation.
LEMMA CatLen ==
  ASSUME NEW x \in Seq(Nat), NEW y \in Seq(Nat)
  PROVE  Len(Cat(x, y)) = Len(x) + Len(y) /\ Len(x) \in Nat /\ Len(y) \in Nat
  BY DEF Cat

\* The operation of one segment replaces its part of the old text by its part of the new.
LEMMA SegApply ==
  ASSUME NEW x \in Seq(Nat), NEW z \in Seq(Nat), NEW g \in Segs
  PROVE  Fold("apply", 0, Cat(Cat(x, PartOf("del", g)), z), SegOp(g, Len(x)))
         = Cat(Cat(x, PartOf("ins", g)), z)
<1>1. g.kind \in {"del", "ins", "eq"} /\ g.s \in Seq(Nat)
  BY DEF Segs
<1>2. PICK t : t = g.s
  OBVIOUS
<1>3. t \in Seq(Nat) /\ x \o <<>> = x
  BY <1>1, <1>2
<1>4. CASE g.kind = "del"
  <2>1. PICK o : o = Delete(Len(x), Len(t))
    OBVIOUS
  <2>2. o.idx = Len(x) /\ o.del = Len(t) /\ o.ins = <<>>
    BY <2>1 DEF Delete
  <2>3. SegOp(g, Len(x)) = <<o>> /\ PartOf("del", g) = t /\ PartOf("ins", g) = <<>>
    BY <1>2, <1>4, <2>1 DEF SegOp, PartOf
  <2>4. Fold("apply", 0, Cat(Cat(x, t), z), <<o>>) = StepOf("apply", 0, Cat(Cat(x, t), z), o)
    BY FoldOne
  <2>5. StepOf("apply", 0, Cat(Cat(x, t), z), o) = Splice(Cat(Cat(x, t), z), o, <<>>)
    BY <2>2 DEF StepOf
  <2>6. Splice(Cat(Cat(x, t), z), o, <<>>) = Cat(x, z)
    BY <1>3, <2>2, SpliceOut
  <2>7. Cat(Cat(x, <<>>), z) = Cat(x, z)
    BY <1>3 DEF Cat
  <2> QED
    BY <2>3, <2>4, <2>5, <2>6, <2>7
<1>5. CASE g.kind = "ins"
  <2>1. PICK o : o = Insert(Len(x), t)
    OBVIOUS
  <2>2. o.idx = Len(x) /\ o.del = 0 /\ o.ins = t
    BY <2>1 DEF Insert
  <2>3. SegOp(g, Len(x)) = <<o>> /\ PartOf("del", g) = <<>> /\ PartOf("ins", g) = t
    BY <1>2, <1>5, <2>1 DEF SegOp, PartOf
  <2>4. Fold("apply", 0, Cat(x, z), <<o>>) = StepOf("apply", 0, Cat(x, z), o)
    BY FoldOne
  <2>5. StepOf("apply", 0, Cat(x, z), o) = Splice(Cat(x, z), o, t)
    BY <2>2 DEF StepOf
  <2>6. Splice(Cat(x, z), o, t) = Cat(Cat(x, t), z)
    BY <1>3, <2>2, SpliceIn
  <2>7. Cat(Cat(x, <<>>), z) = Cat(x, z)
    BY <1>3 DEF Cat
  <2> QED
    BY <2>3, <2>4, <2>5, <2>6, <2>7
<1>6. CASE g.kind = "eq"
  <2>1. SegOp(g, Len(x)) = <<>> /\ PartOf("del", g) = PartOf("ins", g)
    BY <1>6 DEF SegOp, PartOf
  <2> QED
    BY <2>1, FoldEmpty
<1> QED
  BY <1>1, <1>4, <1>5, <1>6

\* ops_from_segs: the operations replace the old text by the new one, wherever they stand.
LEMMA SegsToOps ==
  ASSUME NEW pre \in Seq(Nat), NEW suf \in Seq(Nat), NEW segs \in Seq(Segs)
  PROVE  /\ OpsFromSegs(segs, Len(pre)) \in Seq(Ops)
         /\ Fold("apply", 0, Cat(Cat(pre, Side("del", segs)), suf), OpsFromSegs(segs, Len(pre)))
            = Cat(Cat(pre, Side("ins", segs)), suf)
<1> DEFINE OpsOf(t) == FlattenSeq(SegOps(t, Len(pre)))
           Done(t) == /\ OpsOf(t) \in Seq(Ops)
                      /\ \A z \in Seq(Nat) : Fold("apply", 0, Cat(Cat(pre, Side("del", t)), z), OpsOf(t))
                                             = Cat(Cat(pre, Side("ins", t)), z)
           Good == {t \in Seq(Segs) : Done(t)}
<1>1. <<>> \in Good
  <2>1. SegOps(<<>>, Len(pre)) = <<>> /\ <<>> \in Seq(Ops) /\ <<>> \in Seq(Segs)
    BY DEF SegOps
  <2>2. OpsOf(<<>>) = <<>> /\ Side("del", <<>>) = <<>> /\ Side("ins", <<>>) = <<>>
    BY <2>1, FlatNone, FoldEmpty DEF Side
  <2>3. Done(<<>>)
    <3> HIDE DEF OpsOf
    <3> QED
      BY <2>1, <2>2, FoldEmpty
  <2> HIDE DEF Done
  <2> QED
    BY <2>1, <2>3
<1>2. ASSUME NEW t \in Seq(Segs), NEW g \in Segs, t \in Good  PROVE t \o <<g>> \in Good
  <2>1. PICK u, os, d, i, pd, pi, n, o :
           /\ u = t \o <<g>> /\ os = OpsOf(t) /\ d = Side("del", t) /\ i = Side("ins", t)
           /\ pd = PartOf("del", g) /\ pi = PartOf("ins", g)
           /\ n = Len(pre) + Fold("count", 0, 0, t) /\ o = SegOp(g, n)
    OBVIOUS
  <2>2. /\ u \in Seq(Segs) /\ d \in Seq(Nat) /\ i \in Seq(Nat) /\ pd \in Seq(Nat) /\ pi \in Seq(Nat)
        /\ Side("del", u) = d \o pd /\ Side("ins", u) = i \o pi
    <3>1. u \in Seq(Segs)
      BY <2>1
    <3>2. d \in Seq(Nat) /\ i \in Seq(Nat)
      BY <2>1, SideText
    <3>3. /\ Side("del", t \o <<g>>) = Side("del", t) \o PartOf("del", g) /\ PartOf("del", g) \in Seq(Nat)
          /\ Side("ins", t \o <<g>>) = Side("ins", t) \o PartOf("ins", g) /\ PartOf("ins", g) \in Seq(Nat)
      BY SideMore
    <3> QED
      BY <2>1, <3>1, <3>2, <3>3
  <2>3. os \in Seq(Ops) /\ o \in Seq(Ops) /\ OpsOf(u) = os \o o
    <3>1. Len(pre) \in Nat
      OBVIOUS
    <3>2. /\ SegOps(t, Len(pre)) \in Seq(Seq(Ops)) /\ o \in Seq(Ops)
          /\ SegOps(u, Len(pre)) = SegOps(t, Len(pre)) \o <<o>>
      BY <2>1, <3>1, SegOpsMore
    <3>3. PICK r : r = SegOps(t, Len(pre))
      OBVIOUS
    <3>4. r \in Seq(Seq(Ops)) /\ o \in Seq(Ops)
      BY <3>2, <3>3
    <3>5. FlattenSeq(r) \in Seq(Ops) /\ FlattenSeq(r \o <<o>>) = FlattenSeq(r) \o o
      BY <3>4, FlatMore
    <3> QED
      BY <2>1, <3>2, <3>3, <3>4, <3>5
  <2>4. n = Len(Cat(pre, i)) /\ Cat(pre, i) \in Seq(Nat)
    <3>1. Fold("count", 0, 0, t) = Len(i)
      BY <2>1, CountIs
    <3>2. pre \o i \in Seq(Nat) /\ Len(pre \o i) = Len(pre) + Len(i)
      BY <2>2
    <3> QED
      BY <2>1, <3>1, <3>2 DEF Cat
  <2>5. ASSUME NEW z \in Seq(Nat)
        PROVE  Fold("apply", 0, Cat(Cat(pre, Cat(d, pd)), z), os \o o) = Cat(Cat(pre, Cat(i, pi)), z)
    <3>0. d \in Seq(Nat) /\ i \in Seq(Nat) /\ pd \in Seq(Nat) /\ pi \in Seq(Nat)
      BY <2>2
    <3>1. PICK y : y = Cat(pd, z)
      OBVIOUS
    <3>2. y \in Seq(Nat)
      BY <2>2, <3>1 DEF Cat
    <3>3. Cat(Cat(pre, Cat(d, pd)), z) = Cat(Cat(pre, d), y)
      <4>1. Cat(pre, Cat(d, pd)) = Cat(Cat(pre, d), pd) /\ Cat(pre, d) \in Seq(Nat)
        BY <3>0, CatAssoc
      <4>2. Cat(Cat(Cat(pre, d), pd), z) = Cat(Cat(pre, d), Cat(pd, z))
        BY <3>0, <4>1, CatAssoc
      <4> QED
        BY <3>1, <4>1, <4>2
    <3>4. Fold("apply", 0, Cat(Cat(pre, d), y), os) = Cat(Cat(pre, i), y)
      BY <1>2, <2>1, <3>2
    <3>5. PICK v : v = Cat(pre, i)
      OBVIOUS
    <3>6. v \in Seq(Nat) /\ n = Len(v)
      BY <2>4, <3>5
    <3>7. Cat(v, y) = Cat(Cat(v, pd), z)
      BY <3>0, <3>1, <3>6, CatAssoc
    <3>8. Fold("apply", 0, Cat(Cat(v, pd), z), o) = Cat(Cat(v, pi), z)
      BY <2>1, <3>6, SegApply
    <3>9. Cat(Cat(v, pi), z) = Cat(Cat(pre, Cat(i, pi)), z)
      BY <3>0, <3>5, CatAssoc
    <3>10. PICK b : b = Cat(Cat(pre, d), y)
      OBVIOUS
    <3>11. Fold("apply", 0, b, os \o o) = Fold("apply", 0, Fold("apply", 0, b, os), o)
      BY <2>3, FoldConcat
    <3> QED
      BY <3>3, <3>4, <3>5, <3>7, <3>8, <3>9, <3>10, <3>11
  <2>6. Done(u)
    <3>1. os \o o \in Seq(Ops)
      BY <2>3
    <3> HIDE DEF OpsOf
    <3> QED
      BY <2>2, <2>3, <2>5, <3>1 DEF Cat
  <2> HIDE DEF Done
  <2> QED
    BY <2>1, <2>2, <2>6
<1>3. Good \in SUBSET Seq(Segs)
  OBVIOUS
<1>4. Good = Seq(Segs)
  <2> HIDE DEF Good
  <2> QED
    BY <1>1, <1>2, <1>3, SeqInduct
<1>5. Done(segs)
  <2> HIDE DEF Done
  <2> QED
    BY <1>4
<1>6. OpsFromSegs(segs, Len(pre)) = OpsOf(segs)
  BY SegOpsAre
<1> HIDE DEF OpsOf
<1> QED
  BY <1>5, <1>6

\* Emit replaces a stretch of characters by a text.
LEMMA EmitChars ==
  ASSUME NEW x \in Seq(Nat), NEW y \in Seq(Nat), NEW z \in Seq(Nat), NEW u \in Seq(Nat)
  PROVE  Fold("apply", 0, Cat(Cat(x, y), z), Emit(Len(x), Len(y), u)) = Cat(Cat(x, u), z)
<1>1. PICK n, d, i : /\ n = Len(x) /\ d = Seg("del", y) /\ i = Seg("ins", u)
  OBVIOUS
<1>2. /\ d \in Segs /\ d.kind = "del" /\ d.s = y
      /\ i \in Segs /\ i.kind = "ins" /\ i.s = u
  BY <1>1 DEF Seg, Segs
<1>3. PICK e1, e2 : /\ e1 = IF Len(y) > 0 THEN SegOp(d, n) ELSE <<>>
                    /\ e2 = IF u # <<>> THEN SegOp(i, n) ELSE <<>>
  OBVIOUS
<1>4. Emit(n, Len(y), u) = e1 \o e2
  BY <1>2, <1>3 DEF Emit, SegOp
<1>5. e1 \in Seq(Ops) /\ e2 \in Seq(Ops)
  <2>1. n \in Nat /\ <<>> \in Seq(Ops)
    BY <1>1
  <2>2. SegOp(d, n) \in Seq(Ops) /\ SegOp(i, n) \in Seq(Ops)
    BY <1>2, <2>1, SegOpOps
  <2> QED
    BY <1>3, <2>1, <2>2
<1>6. PICK v : v = Cat(Cat(x, y), z)
  OBVIOUS
<1>7. Fold("apply", 0, v, e1 \o e2) = Fold("apply", 0, Fold("apply", 0, v, e1), e2)
  BY <1>5, FoldConcat
<1>8. /\ PartOf("del", d) = y /\ PartOf("ins", d) = <<>>
      /\ PartOf("del", i) = <<>> /\ PartOf("ins", i) = u
  BY <1>2 DEF PartOf
<1>9. Cat(x, <<>>) = x
  BY DEF Cat
<1>10. Fold("apply", 0, v, e1) = Cat(x, z)
  <2>1. CASE Len(y) > 0
    <3>1. Fold("apply", 0, Cat(Cat(x, PartOf("del", d)), z), SegOp(d, Len(x)))
          = Cat(Cat(x, PartOf("ins", d)), z)
      BY <1>2, SegApply
    <3> QED
      BY <1>1, <1>3, <1>6, <1>8, <1>9, <2>1, <3>1
  <2>2. CASE ~(Len(y) > 0)
    <3>1. y = <<>>
      BY <2>2, EmptySeq
    <3>2. Fold("apply", 0, v, e1) = v
      BY <1>3, <2>2, FoldEmpty
    <3> QED
      BY <1>6, <1>9, <3>1, <3>2
  <2> QED
    BY <2>1, <2>2
<1>11. Fold("apply", 0, Cat(x, z), e2) = Cat(Cat(x, u), z)
  <2>1. CASE u # <<>>
    <3>1. Fold("apply", 0, Cat(Cat(x, PartOf("del", i)), z), SegOp(i, Len(x)))
          = Cat(Cat(x, PartOf("ins", i)), z)
      BY <1>2, SegApply
    <3> QED
      BY <1>1, <1>3, <1>8, <1>9, <2>1, <3>1
  <2>2. CASE u = <<>>
    <3>1. Fold("apply", 0, Cat(x, z), e2) = Cat(x, z)
      BY <1>3, <2>2, FoldEmpty
    <3> QED
      BY <1>9, <2>2, <3>1
  <2> QED
    BY <2>1, <2>2
<1> QED
  BY <1>1, <1>4, <1>6, <1>7, <1>10, <1>11

\* A text is its start, its middle and its end.
LEMMA ThreeParts ==
  ASSUME NEW t \in Seq(Nat), NEW p \in Nat, NEW s \in Nat, p + s <= Len(t)
  PROVE  /\ SubSeq(t, 1, p) \in Seq(Nat) /\ Len(SubSeq(t, 1, p)) = p
         /\ SubSeq(t, p + 1, Len(t) - s) \in Seq(Nat) /\ LastN(t, s) \in Seq(Nat)
         /\ Cat(Cat(SubSeq(t, 1, p), SubSeq(t, p + 1, Len(t) - s)), LastN(t, s)) = t
<1>1. PICK n : n = Len(t) - s
  OBVIOUS
<1>2. n \in p..Len(t) /\ n \in Nat /\ Len(t) - s + 1 = n + 1
  BY <1>1
<1>3. /\ 1 \in 1..(Len(t) + 1) /\ p \in (1 - 1)..Len(t) /\ p + 1 \in 1..(Len(t) + 1)
      /\ n \in ((p + 1) - 1)..Len(t) /\ n \in (1 - 1)..Len(t) /\ n + 1 \in 1..(Len(t) + 1)
      /\ Len(t) \in ((n + 1) - 1)..Len(t) /\ Len(t) \in n..Len(t)
  BY <1>2
<1>4. SubSeq(t, 1, p) \in Seq(Nat) /\ Len(SubSeq(t, 1, p)) = (p - 1) + 1
  BY <1>3, SubIn
<1>5. SubSeq(t, p + 1, n) \in Seq(Nat) /\ SubSeq(t, n + 1, Len(t)) \in Seq(Nat)
  BY <1>3, SubIn
<1>6. SubSeq(t, 1, p) \o SubSeq(t, p + 1, n) = SubSeq(t, 1, n)
  BY <1>2, <1>3, SubMeet
<1>7. SubSeq(t, 1, n) \o SubSeq(t, n + 1, Len(t)) = SubSeq(t, 1, Len(t))
  BY <1>3, SubMeet
<1>8. SubSeq(t, 1, Len(t)) = t
  OBVIOUS
<1>9. LastN(t, s) = SubSeq(t, n + 1, Len(t))
  BY <1>1, <1>2 DEF LastN
<1>10. (p - 1) + 1 = p
  OBVIOUS
<1> QED
  BY <1>1, <1>4, <1>5, <1>6, <1>7, <1>8, <1>9, <1>10 DEF Cat

\* com_diff_char: the operations of the character diff turn the old text into the new one
\* (diff.rs: "f' must equal O_n(..O_1(f))").
THEOREM CharDiff ==
  ASSUME NEW old \in Seq(Nat), NEW new \in Seq(Nat)
  PROVE  ComDiffChar(old, new) \in Seq(Ops) /\ ApplyChars(old, ComDiffChar(old, new)) = new
<1>1. PICK limit : limit = MinOf(Len(old), Len(new))
  OBVIOUS
<1>2. limit \in Nat /\ limit <= Len(old) /\ limit <= Len(new)
  BY <1>1 DEF MinOf
<1>3. PICK S : S = {n \in 0..limit : SubSeq(old, 1, n) = SubSeq(new, 1, n)}
  OBVIOUS
<1>4. PICK p : p = Max(S)
  OBVIOUS
<1>5. p \in 0..limit /\ SubSeq(old, 1, p) = SubSeq(new, 1, p)
  <2>1. S \in SUBSET (0..limit) /\ S # {}
    <3>1. 0 \in 0..limit /\ SubSeq(old, 1, 0) = SubSeq(new, 1, 0)
      BY <1>2
    <3> QED
      BY <1>3, <3>1
  <2>2. p \in S
    BY <1>2, <1>4, <2>1, MaxIn
  <2> QED
    BY <1>3, <2>2
<1>6. PICK T : T = {n \in 0..(limit - p) : LastN(old, n) = LastN(new, n)}
  OBVIOUS
<1>7. PICK s : s = Max(T)
  OBVIOUS
<1>8. s \in 0..(limit - p) /\ LastN(old, s) = LastN(new, s)
  <2>0. limit - p \in Nat
    BY <1>2, <1>5
  <2>1. T \in SUBSET (0..(limit - p)) /\ T # {}
    <3>1. 0 \in 0..(limit - p)
      BY <2>0
    <3>2. LastN(old, 0) = LastN(new, 0)
      BY DEF LastN
    <3> QED
      BY <1>6, <3>1, <3>2
  <2>2. s \in T
    BY <1>7, <2>0, <2>1, MaxIn
  <2> QED
    BY <1>6, <2>2
<1>9. PICK a, b, pre, suf : /\ a = SubSeq(old, p + 1, Len(old) - s) /\ b = SubSeq(new, p + 1, Len(new) - s)
                            /\ pre = SubSeq(old, 1, p) /\ suf = LastN(old, s)
  OBVIOUS
<1>10. /\ pre \in Seq(Nat) /\ Len(pre) = p /\ suf \in Seq(Nat) /\ a \in Seq(Nat) /\ b \in Seq(Nat)
       /\ old = Cat(Cat(pre, a), suf) /\ new = Cat(Cat(pre, b), suf)
  <2>1. p \in Nat /\ s \in Nat /\ p + s <= Len(old) /\ p + s <= Len(new)
    BY <1>2, <1>5, <1>8
  <2>2. /\ SubSeq(old, 1, p) \in Seq(Nat) /\ Len(SubSeq(old, 1, p)) = p
        /\ SubSeq(old, p + 1, Len(old) - s) \in Seq(Nat) /\ LastN(old, s) \in Seq(Nat)
        /\ Cat(Cat(SubSeq(old, 1, p), SubSeq(old, p + 1, Len(old) - s)), LastN(old, s)) = old
    BY <2>1, ThreeParts
  <2>3. /\ SubSeq(new, p + 1, Len(new) - s) \in Seq(Nat)
        /\ Cat(Cat(SubSeq(new, 1, p), SubSeq(new, p + 1, Len(new) - s)), LastN(new, s)) = new
    BY <2>1, ThreeParts
  <2> QED
    BY <1>5, <1>8, <1>9, <2>2, <2>3
<1>11. PICK ops : ops = ComDiffChar(old, new)
  OBVIOUS
<1>12. \/ ops = OpsFromSegs(Cleanup(SegsFromPairs(a, b, LcsPairs(a, b))), p)
       \/ ops = Emit(p, Len(a), b)
  BY <1>1, <1>3, <1>4, <1>6, <1>7, <1>9, <1>11 DEF ComDiffChar
<1>13. ops \in Seq(Ops) /\ Fold("apply", 0, old, ops) = new
  <2>1. CASE ops = OpsFromSegs(Cleanup(SegsFromPairs(a, b, LcsPairs(a, b))), p)
    <3>1. PICK ps, sg, cl : ps = LcsPairs(a, b) /\ sg = SegsFromPairs(a, b, ps) /\ cl = Cleanup(sg)
      OBVIOUS
    <3>2. Matching(a, b, Start, ps)
      BY <1>10, <3>1, LcsMatches
    <3>3. sg \in Seq(Segs) /\ Side("del", sg) = a /\ Side("ins", sg) = b
      BY <1>10, <3>1, <3>2, SegsSides
    <3>4. cl \in Seq(Segs) /\ Side("del", cl) = a /\ Side("ins", cl) = b
      <4>1. sg \in Seq(Segs)
        BY <3>3
      <4>2. /\ Cleanup(sg) \in Seq(Segs) /\ Side("del", Cleanup(sg)) = Side("del", sg)
            /\ Side("ins", Cleanup(sg)) = Side("ins", sg)
        BY <4>1, CleanupSides
      <4> QED
        BY <3>1, <3>3, <4>2
    <3>5. /\ OpsFromSegs(cl, Len(pre)) \in Seq(Ops)
          /\ Fold("apply", 0, Cat(Cat(pre, Side("del", cl)), suf), OpsFromSegs(cl, Len(pre)))
             = Cat(Cat(pre, Side("ins", cl)), suf)
      <4>1. pre \in Seq(Nat) /\ suf \in Seq(Nat) /\ cl \in Seq(Segs)
        BY <1>10, <3>4
      <4> QED
        BY <4>1, SegsToOps
    <3> QED
      BY <1>10, <2>1, <3>1, <3>4, <3>5
  <2>2. CASE ops = Emit(p, Len(a), b)
    <3>1. Fold("apply", 0, Cat(Cat(pre, a), suf), Emit(Len(pre), Len(a), b)) = Cat(Cat(pre, b), suf)
      BY <1>10, EmitChars
    <3>2. Emit(Len(pre), Len(a), b) \in Seq(Ops)
      <4>1. Len(pre) \in Nat /\ Len(a) \in Nat /\ b \in Seq(Nat)
        BY <1>10
      <4> QED
        BY <4>1, EmitOps
    <3> QED
      BY <1>10, <2>2, <3>1, <3>2
  <2> QED
    BY <1>12, <2>1, <2>2
<1> QED
  BY <1>11, <1>13, ApplyIsFold

-----------------------------------------------------------------------------
(* The encoding of numbers *)

\* What holds of each number when it holds of all smaller ones holds of all.
LEMMA LeastStrong ==
  ASSUME NEW Good \in SUBSET Nat, \A n \in Nat : (\A m \in 0..(n - 1) : m \in Good) => n \in Good
  PROVE  Good = Nat
<1> SUFFICES ASSUME Nat \ Good # {} PROVE FALSE
  OBVIOUS
<1>1. PICK S : S = Nat \ Good
  OBVIOUS
<1>2. S # {} /\ \A x \in S : x \in Nat
  BY <1>1
<1>3. PICK n \in S : \A x \in S : n <= x
  BY <1>2, MinIn
<1>4. ASSUME NEW m \in 0..(n - 1)  PROVE m \in Good
  <2>1. m \in Nat /\ ~(n <= m)
    BY <1>1, <1>3, <1>4
  <2> QED
    BY <1>1, <1>3, <2>1
<1> QED
  BY <1>1, <1>3, <1>4

\* Division by the base.
LEMMA Halves ==
  ASSUME NEW v \in Nat
  PROVE  /\ v \div UvarBase \in Nat /\ v % UvarBase \in 0..(UvarBase - 1)
         /\ v = UvarBase * (v \div UvarBase) + (v % UvarBase)
         /\ v > 0 => v \div UvarBase < v
         /\ v < UvarBase => (UvarBase + v) % UvarBase = v
<1>1. PICK B, q, r : B = UvarBase /\ q = v \div UvarBase /\ r = v % UvarBase
  OBVIOUS
<1>2. B \in Nat /\ B > 1
  BY <1>1, SgitDiffAssumption
<1>3. q \in Int /\ r \in 0..(B - 1) /\ v = B * q + r
  BY <1>1, <1>2
<1>4. q \in Nat
  <2>1. CASE q <= -1
    <3>1. B * q <= B * (-1)
      BY <1>2, <1>3, <2>1
    <3> QED
      BY <1>2, <1>3, <3>1
  <2> QED
    BY <1>3, <2>1
<1>5. v > 0 => q < v
  <2>1. CASE q >= v /\ v > 0
    <3>1. B * q >= 2 * q
      BY <1>2, <1>4
    <3> QED
      <4>1. PICK m : m = B * q
        OBVIOUS
      <4>2. m >= 2 * q /\ v = m + r /\ r >= 0 /\ m \in Int
        BY <1>2, <1>3, <3>1, <4>1
      <4> QED
        BY <1>3, <1>4, <2>1, <4>2
  <2> QED
    BY <1>4, <2>1
<1>6. v < B => (B + v) % B = v
  BY <1>2
<1> QED
  BY <1>1, <1>3, <1>4, <1>5, <1>6

\* PutUvar is a recursive function on the numbers up to v.
PutAt(f, n) ==
    IF n < UvarBase THEN <<n>> ELSE <<UvarBase + (n % UvarBase)>> \o f[n \div UvarBase]
IsPut(v, f) == f = [n \in 0..v |-> PutAt(f, n)]
ThePut(v) == CHOOSE f : IsPut(v, f)

\* The function exists.
LEMMA PutExists ==
  ASSUME NEW v \in Nat
  PROVE  IsPut(v, ThePut(v))
<1> DEFINE Good == {k \in Nat : \E f : IsPut(k, f)}
<1>1. 0 \in Good
  <2>1. PICK f : f = [n \in 0..0 |-> <<0>>]
    OBVIOUS
  <2>2. 0 < UvarBase
    BY SgitDiffAssumption
  <2>3. IsPut(0, f)
    BY <2>1, <2>2 DEF IsPut, PutAt
  <2> QED
    BY <2>3
<1>2. ASSUME NEW k \in Nat, k \in Good  PROVE k + 1 \in Good
  <2>1. PICK f : IsPut(k, f)
    BY <1>2
  <2>2. PICK g : g = [n \in 0..(k + 1) |-> PutAt(f, n)]
    OBVIOUS
  <2>3. ASSUME NEW n \in 0..k  PROVE g[n] = f[n]
    BY <2>1, <2>2 DEF IsPut
  <2>4. ASSUME NEW n \in 0..(k + 1)  PROVE PutAt(g, n) = PutAt(f, n)
    <3>1. CASE n < UvarBase
      BY <3>1 DEF PutAt
    <3>2. CASE ~(n < UvarBase)
      <4>1. n > 0
        BY <3>2, SgitDiffAssumption
      <4>2. n \div UvarBase \in 0..k
        BY <4>1, Halves
      <4> QED
        BY <2>3, <4>2 DEF PutAt
    <3> QED
      BY <3>1, <3>2
  <2>5. IsPut(k + 1, g)
    BY <2>2, <2>4 DEF IsPut
  <2> QED
    BY <2>5
<1>3. Good \in SUBSET Nat
  OBVIOUS
<1>4. Good = Nat
  <2> HIDE DEF Good
  <2> QED
    BY <1>1, <1>2, <1>3, Least
<1> QED
  BY <1>4 DEF ThePut

\* What PutUvar gives.
LEMMA PutValue ==
  ASSUME NEW v \in Nat
  PROVE  /\ PutUvar(v) \in Seq(Nat) /\ Len(PutUvar(v)) > 0
         /\ v < UvarBase => PutUvar(v) = <<v>>
         /\ ~(v < UvarBase) => PutUvar(v) = <<UvarBase + (v % UvarBase)>> \o PutUvar(v \div UvarBase)
<1>1. \A n \in Nat : PutUvar(n) = ThePut(n)[n]
  BY DEF PutUvar, ThePut, IsPut, PutAt
<1>2. ASSUME NEW a \in Nat, NEW b \in Nat, NEW n \in Nat, n <= a, n <= b
      PROVE  ThePut(a)[n] = ThePut(b)[n]
  <2> DEFINE Good == {k \in Nat : k <= a /\ k <= b => ThePut(a)[k] = ThePut(b)[k]}
  <2>1. ASSUME NEW k \in Nat, \A m \in 0..(k - 1) : m \in Good  PROVE k \in Good
    <3> SUFFICES ASSUME k <= a, k <= b  PROVE ThePut(a)[k] = ThePut(b)[k]
      OBVIOUS
    <3>1. ThePut(a)[k] = PutAt(ThePut(a), k) /\ ThePut(b)[k] = PutAt(ThePut(b), k)
      <4>1. k \in 0..a /\ k \in 0..b
        OBVIOUS
      <4>2. IsPut(a, ThePut(a)) /\ IsPut(b, ThePut(b))
        BY PutExists
      <4> QED
        BY <4>1, <4>2 DEF IsPut
    <3>2. CASE k < UvarBase
      BY <3>1, <3>2 DEF PutAt
    <3>3. CASE ~(k < UvarBase)
      <4>1. k > 0
        BY <3>3, SgitDiffAssumption
      <4>2. PICK d : d = k \div UvarBase
        OBVIOUS
      <4>3. d \in 0..(k - 1) /\ d <= a /\ d <= b
        BY <4>1, <4>2, Halves
      <4>4. ThePut(a)[d] = ThePut(b)[d]
        BY <2>1, <4>3
      <4> QED
        BY <3>1, <3>3, <4>2, <4>4 DEF PutAt
    <3> QED
      BY <3>2, <3>3
  <2>2. Good \in SUBSET Nat
    OBVIOUS
  <2>3. Good = Nat
    <3> HIDE DEF Good
    <3> QED
      BY <2>1, <2>2, LeastStrong
  <2> QED
    BY <1>2, <2>3
<1>3. ASSUME NEW k \in Nat
      PROVE  /\ k < UvarBase => PutUvar(k) = <<k>>
             /\ ~(k < UvarBase) =>
                  /\ PutUvar(k) = <<UvarBase + (k % UvarBase)>> \o PutUvar(k \div UvarBase)
                  /\ k \div UvarBase \in 0..(k - 1)
  <2>1. ThePut(k)[k] = PutAt(ThePut(k), k)
    <3>1. IsPut(k, ThePut(k)) /\ k \in 0..k
      BY PutExists
    <3> QED
      BY <3>1 DEF IsPut
  <2>2. CASE k < UvarBase
    BY <1>1, <2>1, <2>2 DEF PutAt
  <2>3. CASE ~(k < UvarBase)
    <3>1. k > 0
      BY <2>3, SgitDiffAssumption
    <3>2. PICK d : d = k \div UvarBase
      OBVIOUS
    <3>3. d \in 0..(k - 1) /\ d \in Nat /\ d <= d /\ d <= k
      BY <3>1, <3>2, Halves
    <3>4. ThePut(k)[d] = ThePut(d)[d]
      BY <1>2, <3>3
    <3> QED
      BY <1>1, <2>1, <2>3, <3>2, <3>3, <3>4 DEF PutAt
  <2> QED
    BY <2>2, <2>3
<1> DEFINE Good == {k \in Nat : PutUvar(k) \in Seq(Nat) /\ Len(PutUvar(k)) > 0}
<1>4. ASSUME NEW k \in Nat, \A m \in 0..(k - 1) : m \in Good  PROVE k \in Good
  <2>1. CASE k < UvarBase
    <3>1. <<k>> \in Seq(Nat) /\ Len(<<k>>) > 0
      OBVIOUS
    <3> QED
      BY <1>3, <2>1, <3>1
  <2>2. CASE ~(k < UvarBase)
    <3>1. PICK x, y : x = PutUvar(k \div UvarBase) /\ y = UvarBase + (k % UvarBase)
      OBVIOUS
    <3>2. x \in Seq(Nat) /\ PutUvar(k) = <<y>> \o x
      BY <1>3, <1>4, <2>2, <3>1
    <3>3. y \in Nat
      <4>1. k % UvarBase \in Nat
        BY Halves, SgitDiffAssumption
      <4> QED
        BY <3>1, <4>1, SgitDiffAssumption
    <3>4. <<y>> \o x \in Seq(Nat) /\ Len(<<y>> \o x) = 1 + Len(x)
      BY <3>2, <3>3
    <3> QED
      BY <3>2, <3>4
  <2> QED
    BY <2>1, <2>2
<1>5. Good \in SUBSET Nat
  OBVIOUS
<1>6. Good = Nat
  <2> HIDE DEF Good
  <2> QED
    BY <1>4, <1>5, LeastStrong
<1> QED
  BY <1>3, <1>6

-----------------------------------------------------------------------------
(* Decoding: recursive functions that read a block from its end back *)

\* c stands in b from place i on.
At(b, i, c) ==
    /\ i \in Nat \ {0} /\ i + Len(c) <= Len(b) + 1
    /\ \A k \in 1..Len(c) : b[(i + k) - 1] = c[k]

GetAt(b, f, k) ==
    IF k > Len(b) THEN [v |-> 0, next |-> k]
    ELSE IF b[k] < UvarBase THEN [v |-> b[k], next |-> k + 1]
    ELSE [v |-> (b[k] % UvarBase) + UvarBase * f[k + 1].v, next |-> f[k + 1].next]
FromAt(b, f, i) ==
    LET idx == GetUvar(b, i + 1)
        n == GetUvar(b, idx.next) IN
    IF i > Len(b) THEN <<>>
    ELSE IF b[i] = 0 THEN <<Delete(idx.v, n.v)>> \o f[n.next]
    ELSE IF n.next + n.v > Len(b) + 1 THEN <<>>
    ELSE <<Insert(idx.v, SubSeq(b, n.next, n.next + n.v - 1))>> \o f[n.next + n.v]
BackAt(kind, b, f, k) == IF kind = "get" THEN GetAt(b, f, k) ELSE FromAt(b, f, k)
IsBack(kind, b, f) == f = [k \in 1..(Len(b) + 1) |-> BackAt(kind, b, f, k)]
TheBack(kind, b) == CHOOSE f : IsBack(kind, b, f)
\* The value at a place depends on the places after it only.
Backward(kind, b) ==
    \A f, g : \A k \in 1..(Len(b) + 1) :
        (\A j \in (k + 1)..(Len(b) + 1) : f[j] = g[j]) => BackAt(kind, b, f, k) = BackAt(kind, b, g, k)

\* Such a function exists.
LEMMA BackExists ==
  ASSUME NEW kind, NEW b \in Seq(Nat), Backward(kind, b)
  PROVE  IsBack(kind, b, TheBack(kind, b))
<1>1. PICK n : n = Len(b) + 1
  OBVIOUS
<1>2. n \in Nat /\ n > 0
  BY <1>1
<1> DEFINE Upto(f, j) == \A k \in 1..n : k > n - j => f[k] = BackAt(kind, b, f, k)
           Good == {j \in Nat : j <= n => \E f : Upto(f, j)}
<1>3. 0 \in Good
  <2>1. Upto(<<>>, 0)
    BY <1>2
  <2> HIDE DEF Upto
  <2> QED
    BY <2>1
<1>4. ASSUME NEW j \in Nat, j \in Good  PROVE j + 1 \in Good
  <2>0. j + 1 \in Nat
    OBVIOUS
  <2> SUFFICES ASSUME j + 1 <= n  PROVE \E f : Upto(f, j + 1)
    <3> HIDE DEF Upto
    <3> QED
      BY <2>0
  <2>1. PICK f : Upto(f, j)
    <3>1. j <= n
      BY <1>2
    <3> HIDE DEF Upto
    <3> QED
      BY <1>4, <3>1
  <2>2. PICK g : g = [k \in 1..n |-> IF k = n - j THEN BackAt(kind, b, f, k) ELSE f[k]]
    OBVIOUS
  <2>3. ASSUME NEW k \in 1..n, k > n - (j + 1)  PROVE g[k] = BackAt(kind, b, g, k)
    <3>1. ASSUME NEW i \in (k + 1)..n  PROVE f[i] = g[i]
      <4>1. i \in 1..n /\ i # n - j
        BY <1>2, <2>3
      <4> QED
        BY <2>2, <4>1
    <3>2. BackAt(kind, b, f, k) = BackAt(kind, b, g, k)
      BY <1>1, <3>1 DEF Backward
    <3>3. CASE k = n - j
      BY <2>2, <3>2, <3>3
    <3>4. CASE k # n - j
      <4>1. k > n - j
        BY <1>2, <2>3, <3>4
      <4>2. f[k] = BackAt(kind, b, f, k)
        BY <2>1, <4>1
      <4> QED
        BY <2>2, <3>2, <3>4, <4>2
    <3> QED
      BY <3>3, <3>4
  <2>4. Upto(g, j + 1)
    BY <2>3
  <2> HIDE DEF Upto
  <2> QED
    BY <2>4
<1>5. Good \in SUBSET Nat
  OBVIOUS
<1>6. Good = Nat
  <2> HIDE DEF Good
  <2> QED
    BY <1>3, <1>4, <1>5, Least
<1>7. PICK f : Upto(f, n)
  <2>1. n \in Good /\ n <= n
    <3> HIDE DEF Good
    <3> QED
      BY <1>2, <1>6
  <2> HIDE DEF Upto
  <2> QED
    BY <2>1
<1>8. PICK g : g = [k \in 1..n |-> f[k]]
  OBVIOUS
<1>9. ASSUME NEW k \in 1..n  PROVE f[k] = BackAt(kind, b, g, k)
  <2>1. \A i \in (k + 1)..n : f[i] = g[i]
    <3>1. ASSUME NEW i \in (k + 1)..n  PROVE i \in 1..n
      BY <1>2
    <3> QED
      BY <1>8, <3>1
  <2>2. BackAt(kind, b, f, k) = BackAt(kind, b, g, k)
    BY <1>1, <2>1 DEF Backward
  <2>3. k > n - n
    BY <1>2
  <2> QED
    BY <1>7, <2>2, <2>3
<1>10. IsBack(kind, b, g)
  BY <1>1, <1>8, <1>9 DEF IsBack
<1> QED
  BY <1>10 DEF TheBack

\* Reading a number: the place after it, and its value.
LEMMA GetValue ==
  ASSUME NEW b \in Seq(Nat), NEW i \in 1..(Len(b) + 1)
  PROVE  /\ GetUvar(b, i).v \in Nat /\ GetUvar(b, i).next \in i..(Len(b) + 1)
         /\ i <= Len(b) /\ b[i] < UvarBase => GetUvar(b, i) = [v |-> b[i], next |-> i + 1]
         /\ i <= Len(b) /\ ~(b[i] < UvarBase) =>
              GetUvar(b, i) = [v |-> (b[i] % UvarBase) + UvarBase * GetUvar(b, i + 1).v,
                               next |-> GetUvar(b, i + 1).next]
<1>1. PICK f : f = TheBack("get", b)
  OBVIOUS
<1>2. \A k : GetUvar(b, k) = f[k]
  <2>1. PICK h : h = CHOOSE g : g = [k \in 1..(Len(b) + 1) |-> GetAt(b, g, k)]
    OBVIOUS
  <2>2. h = f
    BY <1>1, <2>1 DEF TheBack, IsBack, BackAt
  <2>3. \A k : GetUvar(b, k) = h[k]
    BY <2>1 DEF GetUvar, GetAt
  <2> QED
    BY <2>2, <2>3
<1>3. Backward("get", b)
  <2> SUFFICES ASSUME NEW g, NEW h, NEW k \in 1..(Len(b) + 1),
                      \A j \in (k + 1)..(Len(b) + 1) : g[j] = h[j]
               PROVE  GetAt(b, g, k) = GetAt(b, h, k)
    BY DEF Backward, BackAt
  <2>1. CASE k > Len(b)
    BY <2>1 DEF GetAt
  <2>2. CASE ~(k > Len(b))
    <3>1. k + 1 \in (k + 1)..(Len(b) + 1)
      BY <2>2
    <3>2. g[k + 1] = h[k + 1]
      BY <3>1
    <3> QED
      BY <3>2 DEF GetAt
  <2> QED
    BY <2>1, <2>2
<1>4. IsBack("get", b, f)
  BY <1>1, <1>3, BackExists
<1>5. \A k \in 1..(Len(b) + 1) : f[k] = GetAt(b, f, k)
  BY <1>4 DEF IsBack, BackAt
<1> DEFINE Good == {j \in Nat : j <= Len(b) =>
                        LET k == (Len(b) + 1) - j IN f[k].v \in Nat /\ f[k].next \in k..(Len(b) + 1)}
<1>6. 0 \in Good
  <2>1. Len(b) + 1 \in 1..(Len(b) + 1) /\ Len(b) + 1 > Len(b) /\ (Len(b) + 1) - 0 = Len(b) + 1
    OBVIOUS
  <2>2. f[Len(b) + 1] = [v |-> 0, next |-> Len(b) + 1]
    BY <1>5, <2>1 DEF GetAt
  <2> QED
    BY <2>1, <2>2
<1>7. ASSUME NEW j \in Nat, j \in Good  PROVE j + 1 \in Good
  <2>0. j + 1 \in Nat
    OBVIOUS
  <2>1. PICK k : k = (Len(b) + 1) - (j + 1)
    OBVIOUS
  <2> SUFFICES ASSUME j + 1 <= Len(b)  PROVE f[k].v \in Nat /\ f[k].next \in k..(Len(b) + 1)
    BY <2>0, <2>1
  <2>2. k \in 1..Len(b) /\ k + 1 = (Len(b) + 1) - j /\ k \in 1..(Len(b) + 1)
    BY <2>1
  <2>3. f[k + 1].v \in Nat /\ f[k + 1].next \in (k + 1)..(Len(b) + 1)
    BY <1>7, <2>2
  <2>4. f[k] = GetAt(b, f, k) /\ b[k] \in Nat
    BY <1>5, <2>2
  <2>5. CASE b[k] < UvarBase
    <3>1. f[k] = [v |-> b[k], next |-> k + 1]
      BY <2>2, <2>4, <2>5 DEF GetAt
    <3> QED
      BY <2>2, <2>4, <3>1
  <2>6. CASE ~(b[k] < UvarBase)
    <3>1. f[k] = [v |-> (b[k] % UvarBase) + UvarBase * f[k + 1].v, next |-> f[k + 1].next]
      BY <2>2, <2>4, <2>6 DEF GetAt
    <3>2. PICK x, y, B : x = b[k] /\ y = f[k + 1].v /\ B = UvarBase
      OBVIOUS
    <3>4. x \in Nat /\ y \in Nat /\ B \in Nat /\ B > 1
      BY <2>3, <2>4, <3>2, SgitDiffAssumption
    <3>5. x % B \in Nat /\ B * y \in Nat
      BY <3>4
    <3>3. (b[k] % UvarBase) + UvarBase * f[k + 1].v \in Nat
      BY <3>2, <3>5
    <3> QED
      BY <2>2, <2>3, <3>1, <3>3
  <2> QED
    BY <2>5, <2>6
<1>8. Good \in SUBSET Nat
  OBVIOUS
<1>9. Good = Nat
  <2> HIDE DEF Good
  <2> QED
    BY <1>6, <1>7, <1>8, Least
<1>10. f[i].v \in Nat /\ f[i].next \in i..(Len(b) + 1)
  <2>1. PICK j : j = (Len(b) + 1) - i
    OBVIOUS
  <2>2. j \in Nat /\ j <= Len(b) /\ (Len(b) + 1) - j = i
    BY <2>1
  <2>3. j \in Good
    <3> HIDE DEF Good
    <3> QED
      BY <1>9, <2>2
  <2> QED
    BY <2>2, <2>3
<1>11. f[i] = GetAt(b, f, i)
  BY <1>5
<1> QED
  BY <1>2, <1>10, <1>11 DEF GetAt

\* What stands in b stands there piece by piece.
LEMMA AtPieces ==
  ASSUME NEW b \in Seq(Nat), NEW i, NEW c \in Seq(Nat), NEW d \in Seq(Nat), At(b, i, Cat(c, d))
  PROVE  At(b, i, c) /\ At(b, i + Len(c), d)
<1>1. PICK m, n, e : m = Len(c) /\ n = Len(d) /\ e = c \o d
  OBVIOUS
<1>2. /\ m \in Nat /\ n \in Nat /\ Len(e) = m + n
      /\ \A k \in 1..m : e[k] = c[k]
      /\ \A k \in 1..n : e[m + k] = d[k]
  BY <1>1
<1>3. i \in Nat \ {0} /\ i + (m + n) <= Len(b) + 1 /\ \A k \in 1..(m + n) : b[(i + k) - 1] = e[k]
  BY <1>1, <1>2 DEF At, Cat
<1>4. ASSUME NEW k \in 1..m  PROVE b[(i + k) - 1] = c[k]
  <2>1. k \in 1..(m + n)
    BY <1>2
  <2>2. b[(i + k) - 1] = e[k]
    BY <1>3, <2>1
  <2> QED
    BY <1>2, <2>2
<1>5. ASSUME NEW k \in 1..n  PROVE b[((i + m) + k) - 1] = d[k]
  <2>1. m + k \in 1..(m + n) /\ (i + (m + k)) - 1 = ((i + m) + k) - 1
    BY <1>2, <1>3
  <2> QED
    BY <1>2, <1>3, <2>1
<1>6. i + m \in Nat \ {0} /\ (i + m) + n <= Len(b) + 1 /\ i + m <= Len(b) + 1
  BY <1>2, <1>3
<1> QED
  BY <1>1, <1>2, <1>3, <1>4, <1>5, <1>6 DEF At, Cat

\* A number is read where it was written.
LEMMA GetPut ==
  ASSUME NEW b \in Seq(Nat), NEW v \in Nat, NEW i, At(b, i, PutUvar(v))
  PROVE  GetUvar(b, i) = [v |-> v, next |-> i + Len(PutUvar(v))]
<1> DEFINE Done(n) == \A j : At(b, j, PutUvar(n)) => GetUvar(b, j) = [v |-> n, next |-> j + Len(PutUvar(n))]
           Good == {n \in Nat : Done(n)}
<1>1. ASSUME NEW n \in Nat, \A m \in 0..(n - 1) : m \in Good  PROVE n \in Good
  <2> SUFFICES ASSUME NEW j, At(b, j, PutUvar(n))
               PROVE  GetUvar(b, j) = [v |-> n, next |-> j + Len(PutUvar(n))]
    OBVIOUS
  <2>1. PutUvar(n) \in Seq(Nat) /\ Len(PutUvar(n)) > 0
    BY PutValue
  <2>2. PICK c : c = PutUvar(n)
    OBVIOUS
  <2>3. j \in Nat \ {0} /\ j + Len(c) <= Len(b) + 1 /\ Len(c) \in Nat /\ Len(c) > 0 /\ b[(j + 1) - 1] = c[1]
    BY <2>1, <2>2 DEF At
  <2>4. j \in 1..(Len(b) + 1) /\ j <= Len(b) /\ b[j] = c[1] /\ b[j] \in Nat
    BY <2>3
  <2>5. CASE n < UvarBase
    <3>1. c = <<n>>
      BY <2>2, <2>5, PutValue
    <3>2. b[j] = n /\ Len(c) = 1
      BY <2>4, <3>1
    <3> QED
      BY <2>2, <2>4, <2>5, <3>2, GetValue
  <2>6. CASE ~(n < UvarBase)
    <3>1. PICK q, r, d, B : q = n \div UvarBase /\ r = n % UvarBase /\ d = PutUvar(q) /\ B = UvarBase
      OBVIOUS
    <3>2. n > 0 /\ B \in Nat /\ B > 1
      BY <2>6, <3>1, SgitDiffAssumption
    <3>3. q \in 0..(n - 1) /\ q \in Nat /\ r \in Nat /\ r < B /\ n = B * q + r
      BY <3>1, <3>2, Halves
    <3>4. d \in Seq(Nat)
      BY <3>1, <3>3, PutValue
    <3>5. c = Cat(<<B + r>>, d) /\ <<B + r>> \in Seq(Nat) /\ Len(<<B + r>>) = 1
      <4>1. PutUvar(n) = <<UvarBase + (n % UvarBase)>> \o PutUvar(n \div UvarBase)
        BY <2>6, PutValue
      <4>2. B + r \in Nat
        BY <3>2, <3>3
      <4> QED
        BY <2>2, <3>1, <4>1, <4>2 DEF Cat
    <3>6. At(b, j, <<B + r>>) /\ At(b, j + 1, d) /\ Len(c) = 1 + Len(d)
      <4>1. PICK e : e = <<B + r>>
        OBVIOUS
      <4>2. e \in Seq(Nat) /\ Len(e) = 1 /\ At(b, j, Cat(e, d))
        BY <2>2, <3>5, <4>1
      <4>3. At(b, j, e) /\ At(b, j + Len(e), d)
        BY <3>4, <4>2, AtPieces
      <4>4. Len(Cat(e, d)) = Len(e) + Len(d)
        BY <3>4, <4>2, CatLen
      <4> QED
        BY <3>5, <4>1, <4>2, <4>3, <4>4
    <3>7. b[j] = B + r
      <4>1. b[(j + 1) - 1] = <<B + r>>[1]
        BY <3>5, <3>6 DEF At
      <4> QED
        BY <2>3, <4>1
    <3>8. b[j] % B = r /\ ~(b[j] < B)
      <4>1. (B + r) % B = r
        BY <3>1, <3>3, Halves
      <4> QED
        BY <3>2, <3>3, <3>7, <4>1
    <3>9. GetUvar(b, j + 1) = [v |-> q, next |-> (j + 1) + Len(d)]
      BY <1>1, <3>1, <3>3, <3>6
    <3>10. GetUvar(b, j) = [v |-> (b[j] % UvarBase) + UvarBase * GetUvar(b, j + 1).v,
                            next |-> GetUvar(b, j + 1).next]
      BY <2>4, <3>1, <3>8, GetValue
    <3>11. GetUvar(b, j + 1).v = q /\ GetUvar(b, j + 1).next = (j + 1) + Len(d)
      BY <3>9
    <3>12. GetUvar(b, j) = [v |-> r + B * q, next |-> (j + 1) + Len(d)]
      BY <3>1, <3>8, <3>10, <3>11
    <3>13. r + B * q = n /\ (j + 1) + Len(d) = j + Len(c)
      <4>1. B * q \in Nat
        BY <3>2, <3>3
      <4> QED
        BY <2>3, <3>3, <3>4, <3>6, <4>1
    <3> QED
      BY <2>2, <3>12, <3>13
  <2> QED
    BY <2>5, <2>6
<1>2. Good \in SUBSET Nat
  OBVIOUS
<1>3. Good = Nat
  <2> HIDE DEF Good
  <2> QED
    BY <1>1, <1>2, LeastStrong
<1>4. Done(v)
  <2> HIDE DEF Done
  <2> QED
    BY <1>3
<1> QED
  BY <1>4

\* What is left to decode from a place on.
LEMMA FromValue ==
  ASSUME NEW b \in Seq(Nat)
  PROVE  \E f : DecodeOps(b) = f[1] /\ \A i \in 1..(Len(b) + 1) : f[i] = FromAt(b, f, i)
<1>1. PICK f : f = TheBack("from", b)
  OBVIOUS
<1>2. DecodeOps(b) = f[1]
  <2>1. PICK h : h = CHOOSE g : g = [k \in 1..(Len(b) + 1) |-> FromAt(b, g, k)]
    OBVIOUS
  <2>2. h = f
    BY <1>1, <2>1 DEF TheBack, IsBack, BackAt
  <2>3. DecodeOps(b) = h[1]
    BY <2>1 DEF DecodeOps, FromAt
  <2> QED
    BY <2>2, <2>3
<1>3. Backward("from", b)
  <2> SUFFICES ASSUME NEW g, NEW h, NEW k \in 1..(Len(b) + 1),
                      \A j \in (k + 1)..(Len(b) + 1) : g[j] = h[j]
               PROVE  FromAt(b, g, k) = FromAt(b, h, k)
    BY DEF Backward, BackAt
  <2>1. CASE k > Len(b)
    BY <2>1 DEF FromAt
  <2>2. CASE ~(k > Len(b))
    <3>1. PICK idx, n : idx = GetUvar(b, k + 1) /\ n = GetUvar(b, idx.next)
      OBVIOUS
    <3>2. k + 1 \in 1..(Len(b) + 1)
      BY <2>2
    <3>3. idx.next \in (k + 1)..(Len(b) + 1)
      BY <3>1, <3>2, GetValue
    <3>4. idx.next \in 1..(Len(b) + 1)
      BY <3>2, <3>3
    <3>5. n.v \in Nat /\ n.next \in idx.next..(Len(b) + 1)
      BY <3>1, <3>4, GetValue
    <3>6. PICK m, v : m = n.next /\ v = n.v
      OBVIOUS
    <3>7. m \in (k + 1)..(Len(b) + 1) /\ v \in Nat
      BY <3>3, <3>5, <3>6
    <3>8. g[m] = h[m]
      BY <3>7
    <3>9. ~(m + v > Len(b) + 1) => g[m + v] = h[m + v]
      BY <3>7
    <3> QED
      BY <3>1, <3>6, <3>8, <3>9 DEF FromAt
  <2> QED
    BY <2>1, <2>2
<1>4. IsBack("from", b, f)
  BY <1>1, <1>3, BackExists
<1>5. \A k \in 1..(Len(b) + 1) : f[k] = FromAt(b, f, k)
  BY <1>4 DEF IsBack, BackAt
<1> QED
  BY <1>2, <1>5

\* The encoding of one operation.
EncOp(o) ==
    IF o.ins = <<>> THEN Cat(<<0>>, Cat(PutUvar(o.idx), PutUvar(o.del)))
    ELSE Cat(<<1>>, Cat(PutUvar(o.idx), Cat(PutUvar(Len(o.ins)), o.ins)))

\* It is a text, and not empty; EncodeOps puts those of all operations together.
LEMMA EncParts ==
  ASSUME NEW ops \in Seq(Ops)
  PROVE  /\ \A o \in Ops : EncOp(o) \in Seq(Nat) /\ Len(EncOp(o)) > 0
         /\ [k \in DOMAIN ops |-> EncOp(ops[k])] \in Seq(Seq(Nat))
         /\ EncodeOps(ops) = FlattenSeq([k \in DOMAIN ops |-> EncOp(ops[k])])
<1>1. ASSUME NEW o \in Ops
      PROVE  /\ EncOp(o) \in Seq(Nat) /\ Len(EncOp(o)) > 0
             /\ EncOp(o) = IF o.ins = <<>>
                           THEN Cat(Cat(<<0>>, PutUvar(o.idx)), PutUvar(o.del))
                           ELSE Cat(Cat(Cat(<<1>>, PutUvar(o.idx)), PutUvar(Len(o.ins))), o.ins)
  <2>1. PICK i, d, m, t : /\ i = PutUvar(o.idx) /\ d = PutUvar(o.del)
                          /\ m = PutUvar(Len(o.ins)) /\ t = o.ins
    OBVIOUS
  <2>2. o.idx \in Nat /\ o.del \in Nat /\ t \in Seq(Nat) /\ Len(o.ins) \in Nat
    BY <2>1 DEF Ops
  <2>3. i \in Seq(Nat) /\ d \in Seq(Nat) /\ m \in Seq(Nat)
    BY <2>1, <2>2, PutValue
  <2>4. PICK z, y : z = <<0>> /\ y = <<1>>
    OBVIOUS
  <2>5. z \in Seq(Nat) /\ y \in Seq(Nat) /\ Len(z) = 1 /\ Len(y) = 1
    BY <2>4
  <2>6. CASE o.ins = <<>>
    <3>1. EncOp(o) = Cat(z, Cat(i, d))
      BY <2>1, <2>4, <2>6 DEF EncOp
    <3>2. Cat(i, d) \in Seq(Nat)
      BY <2>3, CatAssoc
    <3>3. Cat(z, Cat(i, d)) \in Seq(Nat) /\ Cat(Cat(z, i), d) = Cat(z, Cat(i, d))
      BY <2>3, <2>5, <3>2, CatAssoc
    <3>4. Len(Cat(z, Cat(i, d))) = Len(z) + Len(Cat(i, d)) /\ Len(Cat(i, d)) \in Nat
      BY <2>5, <3>2, CatLen
    <3> QED
      BY <2>1, <2>4, <2>5, <2>6, <3>1, <3>3, <3>4
  <2>7. CASE o.ins # <<>>
    <3>1. EncOp(o) = Cat(y, Cat(i, Cat(m, t)))
      BY <2>1, <2>4, <2>7 DEF EncOp
    <3>2. Cat(m, t) \in Seq(Nat) /\ Cat(y, i) \in Seq(Nat)
      BY <2>2, <2>3, <2>5, CatAssoc
    <3>3. Cat(i, Cat(m, t)) \in Seq(Nat)
      BY <2>3, <3>2, CatAssoc
    <3>4. Cat(y, Cat(i, Cat(m, t))) \in Seq(Nat)
      BY <2>5, <3>3, CatAssoc
    <3>5. Cat(Cat(Cat(y, i), m), t) = Cat(Cat(y, i), Cat(m, t))
      BY <2>2, <2>3, <3>2, CatAssoc
    <3>6. Cat(Cat(y, i), Cat(m, t)) = Cat(y, Cat(i, Cat(m, t)))
      BY <2>3, <2>5, <3>2, CatAssoc
    <3>7. Len(Cat(y, Cat(i, Cat(m, t)))) = Len(y) + Len(Cat(i, Cat(m, t))) /\ Len(Cat(i, Cat(m, t))) \in Nat
      BY <2>5, <3>3, CatLen
    <3>8. EncOp(o) = Cat(Cat(Cat(y, i), m), t)
      BY <3>1, <3>5, <3>6
    <3> QED
      BY <2>1, <2>4, <2>5, <2>7, <3>1, <3>4, <3>7, <3>8
  <2> QED
    BY <2>6, <2>7
<1>2. \A k \in DOMAIN ops : ops[k] \in Ops
  OBVIOUS
<1>3. EncodeOps(ops) = FlattenSeq([k \in DOMAIN ops |-> EncOp(ops[k])])
  <2>1. [k \in DOMAIN ops |->
           IF ops[k].ins = <<>>
           THEN <<0>> \o PutUvar(ops[k].idx) \o PutUvar(ops[k].del)
           ELSE <<1>> \o PutUvar(ops[k].idx) \o PutUvar(Len(ops[k].ins)) \o ops[k].ins]
        = [k \in DOMAIN ops |-> EncOp(ops[k])]
    BY <1>1, <1>2 DEF Cat
  <2> QED
    BY <2>1 DEF EncodeOps
<1>4. [k \in DOMAIN ops |-> EncOp(ops[k])] \in Seq(Seq(Nat))
  <2>1. DOMAIN ops = 1..Len(ops)
    OBVIOUS
  <2>2. [k \in DOMAIN ops |-> EncOp(ops[k])] \in [1..Len(ops) -> Seq(Nat)]
    BY <1>1, <1>2, <2>1
  <2> QED
    BY <2>2
<1> QED
  BY <1>1, <1>3, <1>4

\* One operation is decoded where it stands, and what follows after it.
LEMMA OneDecoded ==
  ASSUME NEW b \in Seq(Nat), NEW f, \A i \in 1..(Len(b) + 1) : f[i] = FromAt(b, f, i),
         NEW o \in Ops, NEW j, At(b, j, EncOp(o))
  PROVE  f[j] = <<o>> \o f[j + Len(EncOp(o))]
<1>1. PICK i, d, m, t, c, z : /\ i = PutUvar(o.idx) /\ d = PutUvar(o.del) /\ m = PutUvar(Len(o.ins))
                              /\ t = o.ins /\ c = EncOp(o) /\ z = IF t = <<>> THEN <<0>> ELSE <<1>>
  OBVIOUS
<1>2. o.idx \in Nat /\ o.del \in Nat /\ t \in Seq(Nat) /\ Len(o.ins) \in Nat
  BY <1>1 DEF Ops
<1>3. o = [idx |-> o.idx, del |-> o.del, ins |-> o.ins] /\ (o.del = 0 \/ o.ins = <<>>)
  BY DEF Ops
<1>4. i \in Seq(Nat) /\ d \in Seq(Nat) /\ m \in Seq(Nat)
  BY <1>1, <1>2, PutValue
<1>5. PICK r : r = IF t = <<>> THEN d ELSE Cat(m, t)
  OBVIOUS
<1>6. z \in Seq(Nat) /\ Len(z) = 1 /\ r \in Seq(Nat) /\ Cat(i, r) \in Seq(Nat)
  <2>1. Cat(m, t) \in Seq(Nat)
    BY <1>2, <1>4, CatAssoc
  <2>2. z \in Seq(Nat) /\ Len(z) = 1
    BY <1>1
  <2>3. r \in Seq(Nat)
    BY <1>4, <1>5, <2>1
  <2> QED
    BY <1>4, <2>2, <2>3, CatAssoc
<1>7. c = Cat(z, Cat(i, r))
  BY <1>1, <1>5 DEF EncOp
<1>8. At(b, j, z) /\ At(b, j + 1, Cat(i, r)) /\ Len(c) = 1 + Len(Cat(i, r))
  <2>1. At(b, j, Cat(z, Cat(i, r)))
    BY <1>1, <1>7
  <2>2. At(b, j, z) /\ At(b, j + Len(z), Cat(i, r))
    BY <1>6, <2>1, AtPieces
  <2>3. Len(Cat(z, Cat(i, r))) = Len(z) + Len(Cat(i, r))
    BY <1>6, CatLen
  <2> QED
    BY <1>6, <1>7, <2>2, <2>3
<1>9. /\ At(b, j + 1, i) /\ At(b, (j + 1) + Len(i), r) /\ Len(Cat(i, r)) = Len(i) + Len(r)
  <2>1. At(b, j + 1, i) /\ At(b, (j + 1) + Len(i), r)
    BY <1>4, <1>6, <1>8, AtPieces
  <2>2. Len(Cat(i, r)) = Len(i) + Len(r)
    BY <1>4, <1>6, CatLen
  <2> QED
    BY <2>1, <2>2
<1>10. PICK k : k = (j + 1) + Len(i)
  OBVIOUS
<1>11. j \in 1..Len(b) /\ b[j] = z[1] /\ j \in 1..(Len(b) + 1) /\ k \in Nat
  <2>1. j \in Nat \ {0} /\ j + Len(z) <= Len(b) + 1 /\ \A n \in 1..Len(z) : b[(j + n) - 1] = z[n]
    BY <1>8 DEF At
  <2>2. b[(j + 1) - 1] = z[1] /\ (j + 1) - 1 = j
    BY <1>6, <2>1
  <2>3. k \in Nat
    BY <1>9, <1>10 DEF At
  <2> QED
    BY <1>6, <2>1, <2>2, <2>3
<1>12. GetUvar(b, j + 1) = [v |-> o.idx, next |-> k]
  BY <1>1, <1>2, <1>9, <1>10, GetPut
<1>13. GetUvar(b, j + 1).v = o.idx /\ GetUvar(b, j + 1).next = k
  BY <1>12
<1>14. f[j] = FromAt(b, f, j) /\ ~(j > Len(b))
  BY <1>11
<1>15. CASE t = <<>>
  <2>1. b[j] = 0 /\ At(b, k, d) /\ Len(c) = 1 + (Len(i) + Len(d))
    BY <1>1, <1>5, <1>8, <1>9, <1>10, <1>11, <1>15
  <2>2. GetUvar(b, k) = [v |-> o.del, next |-> k + Len(d)]
    BY <1>1, <1>2, <2>1, GetPut
  <2>3. GetUvar(b, k).v = o.del /\ GetUvar(b, k).next = k + Len(d)
    BY <2>2
  <2>4. f[j] = <<Delete(o.idx, o.del)>> \o f[k + Len(d)]
    BY <1>13, <1>14, <2>1, <2>3 DEF FromAt
  <2>5. Delete(o.idx, o.del) = o
    BY <1>1, <1>3, <1>15 DEF Delete
  <2>6. k + Len(d) = j + Len(c)
    <3>1. Len(i) \in Nat /\ Len(d) \in Nat
      BY <1>4
    <3> QED
      BY <1>10, <1>11, <2>1, <3>1
  <2> QED
    BY <1>1, <2>4, <2>5, <2>6
<1>16. CASE t # <<>>
  <2>1. b[j] = 1 /\ At(b, k, Cat(m, t)) /\ Len(c) = 1 + (Len(i) + Len(Cat(m, t)))
    BY <1>1, <1>5, <1>8, <1>9, <1>10, <1>11, <1>16
  <2>2. At(b, k, m) /\ At(b, k + Len(m), t) /\ Len(Cat(m, t)) = Len(m) + Len(t)
    <3>1. At(b, k, m) /\ At(b, k + Len(m), t)
      BY <1>2, <1>4, <2>1, AtPieces
    <3>2. Len(Cat(m, t)) = Len(m) + Len(t)
      BY <1>2, <1>4, CatLen
    <3> QED
      BY <3>1, <3>2
  <2>3. PICK n : n = k + Len(m)
    OBVIOUS
  <2>4. GetUvar(b, k) = [v |-> Len(t), next |-> n]
    BY <1>1, <1>2, <2>2, <2>3, GetPut
  <2>5. GetUvar(b, k).v = Len(t) /\ GetUvar(b, k).next = n
    BY <2>4
  <2>6. n \in Nat \ {0} /\ n + Len(t) <= Len(b) + 1 /\ \A l \in 1..Len(t) : b[(n + l) - 1] = t[l]
    BY <2>2, <2>3 DEF At
  <2>7. SubSeq(b, n, n + Len(t) - 1) = t
    <3>1. PICK e, q : e = SubSeq(b, n, q) /\ q = n + Len(t) - 1
      OBVIOUS
    <3>5. n \in 1..(Len(b) + 1) /\ q \in (n - 1)..Len(b) /\ (q - n) + 1 = Len(t) /\ Len(t) \in Nat
      BY <1>2, <2>6, <3>1
    <3>6. e \in Seq(Nat) /\ Len(e) = (q - n) + 1
      BY <3>1, <3>5, SubIn
    <3>7. ASSUME NEW l \in 1..((q - n) + 1)  PROVE e[l] = b[(n + l) - 1]
      <4>1. e = [x \in 1..((q - n) + 1) |-> b[(n + x) - 1]]
        BY <3>1, <3>5
      <4> QED
        BY <4>1
    <3>2. e \in Seq(Nat) /\ Len(e) = Len(t) /\ \A l \in 1..Len(t) : e[l] = b[(n + l) - 1]
      BY <3>5, <3>6, <3>7
    <3>3. \A l \in 1..Len(t) : e[l] = t[l]
      BY <2>6, <3>2
    <3>4. e = t
      BY <1>2, <3>2, <3>3, SeqEqual
    <3> QED
      BY <3>1, <3>4
  <2>8. ~(n + Len(t) > Len(b) + 1)
    BY <1>2, <2>6
  <2>9. f[j] = <<Insert(o.idx, t)>> \o f[n + Len(t)]
    <3>1. f[j] = <<Insert(o.idx, SubSeq(b, n, n + Len(t) - 1))>> \o f[n + Len(t)]
      <4>1. b[j] # 0
        BY <2>1
      <4> QED
        BY <1>13, <1>14, <2>5, <2>8, <4>1 DEF FromAt
    <3> QED
      BY <2>7, <3>1
  <2>10. Insert(o.idx, t) = o
    BY <1>1, <1>3, <1>16 DEF Insert
  <2>11. n + Len(t) = j + Len(c)
    <3>1. Len(i) \in Nat /\ Len(m) \in Nat /\ Len(t) \in Nat
      BY <1>2, <1>4
    <3> QED
      BY <1>10, <1>11, <2>1, <2>2, <2>3, <3>1
  <2> QED
    BY <1>1, <2>9, <2>10, <2>11
<1> QED
  BY <1>15, <1>16

\* The encoding of one operation more.
LEMMA EncMore ==
  ASSUME NEW ops \in Seq(Ops), NEW o \in Ops
  PROVE  /\ EncodeOps(ops) \in Seq(Nat) /\ EncOp(o) \in Seq(Nat)
         /\ EncodeOps(ops \o <<o>>) = Cat(EncodeOps(ops), EncOp(o))
<1>1. PICK u, ss, tt, n, x : /\ u = ops \o <<o>> /\ n = Len(ops) /\ x = EncOp(o)
                             /\ ss = [k \in DOMAIN ops |-> EncOp(ops[k])]
                             /\ tt = [k \in DOMAIN u |-> EncOp(u[k])]
  OBVIOUS
<1>2. n \in Nat /\ u \in Seq(Ops) /\ Len(u) = n + 1 /\ u[n + 1] = o /\ \A k \in 1..n : u[k] = ops[k]
  BY <1>1
<1>3. x \in Seq(Nat) /\ ss \in Seq(Seq(Nat)) /\ EncodeOps(ops) = FlattenSeq(ss)
  BY <1>1, EncParts
<1>4. tt \in Seq(Seq(Nat)) /\ EncodeOps(u) = FlattenSeq(tt)
  BY <1>1, <1>2, EncParts
<1>5. DOMAIN ops = 1..n /\ DOMAIN u = 1..(n + 1)
  BY <1>1, <1>2
<1>6. Len(ss) = n /\ Len(tt) = n + 1
  <2>1. DOMAIN ss = 1..n /\ DOMAIN tt = 1..(n + 1)
    BY <1>1, <1>5
  <2> QED
    BY <1>2, <1>3, <1>4, <2>1
<1>7. /\ ss \o <<x>> \in Seq(Seq(Nat)) /\ Len(ss \o <<x>>) = Len(ss) + 1 /\ (ss \o <<x>>)[Len(ss) + 1] = x
      /\ \A k \in 1..Len(ss) : (ss \o <<x>>)[k] = ss[k]
  <2>1. ss \in Seq(Seq(Nat)) /\ x \in Seq(Nat)
    BY <1>3
  <2> QED
    BY <2>1, MoreSeq
<1>8. PICK r : r = ss \o <<x>>
  OBVIOUS
<1>9. ASSUME NEW k \in 1..(n + 1)  PROVE tt[k] = r[k]
  <2>1. CASE k = n + 1
    BY <1>1, <1>2, <1>5, <1>6, <1>7, <1>8, <2>1
  <2>2. CASE k # n + 1
    <3>1. k \in 1..n
      BY <1>2, <2>2
    <3>2. ss[k] = EncOp(ops[k]) /\ tt[k] = EncOp(u[k])
      BY <1>1, <1>5, <3>1
    <3> QED
      BY <1>2, <1>6, <1>7, <1>8, <3>1, <3>2
  <2> QED
    BY <2>1, <2>2
<1>10. tt = r
  BY <1>4, <1>6, <1>7, <1>8, <1>9, SeqEqual
<1>11. FlattenSeq(ss) \in Seq(Nat) /\ FlattenSeq(ss \o <<x>>) = FlattenSeq(ss) \o x
  <2>1. ss \in Seq(Seq(Nat)) /\ x \in Seq(Nat)
    BY <1>3
  <2> QED
    BY <2>1, FlatMore
<1> QED
  BY <1>1, <1>3, <1>4, <1>8, <1>10, <1>11 DEF Cat

\* One instruction between two runs of them belongs to either.
LEMMA OpsRegroup ==
  ASSUME NEW t \in Seq(Ops), NEW o \in Ops, NEW rest \in Seq(Ops)
  PROVE  Cat(t, Cat(<<o>>, rest)) = Cat(Cat(t, <<o>>), rest)
<1>1. PICK s : s = <<o>>
  OBVIOUS
<1>2. s \in Seq(Ops)
  BY <1>1
<1>3. Cat(Cat(t, s), rest) = Cat(t, Cat(s, rest))
  BY <1>2, CatRegroup
<1> QED
  BY <1>1, <1>3

\* All operations are decoded where they stand, and what follows after them.
LEMMA AllDecoded ==
  ASSUME NEW b \in Seq(Nat), NEW f, \A i \in 1..(Len(b) + 1) : f[i] = FromAt(b, f, i),
         NEW ops \in Seq(Ops), At(b, 1, EncodeOps(ops)), f[1 + Len(EncodeOps(ops))] = <<>>
  PROVE  f[1] = ops
<1> DEFINE Done(t) == \A rest \in Seq(Ops) :
              At(b, 1, EncodeOps(t)) /\ f[1 + Len(EncodeOps(t))] = rest => f[1] = Cat(t, rest)
           Good == {t \in Seq(Ops) : Done(t)}
<1>1. <<>> \in Good
  <2>1. EncodeOps(<<>>) = <<>>
    BY FlatNone DEF EncodeOps
  <2>2. <<>> \in Seq(Ops) /\ 1 + Len(<<>>) = 1
    OBVIOUS
  <2>3. ASSUME NEW rest \in Seq(Ops)  PROVE Cat(<<>>, rest) = rest
    BY DEF Cat
  <2>4. Done(<<>>)
    BY <2>1, <2>2, <2>3
  <2> HIDE DEF Done
  <2> QED
    BY <2>2, <2>4
<1>2. ASSUME NEW t \in Seq(Ops), NEW o \in Ops, t \in Good  PROVE t \o <<o>> \in Good
  <2>1. ASSUME NEW rest \in Seq(Ops), At(b, 1, EncodeOps(t \o <<o>>)),
               f[1 + Len(EncodeOps(t \o <<o>>))] = rest
        PROVE  f[1] = Cat(t \o <<o>>, rest)
    <3>1. PICK c, d : c = EncodeOps(t) /\ d = EncOp(o)
      OBVIOUS
    <3>2. c \in Seq(Nat) /\ d \in Seq(Nat) /\ EncodeOps(t \o <<o>>) = Cat(c, d)
      BY <3>1, EncMore
    <3>3. At(b, 1, Cat(c, d))
      BY <2>1, <3>2
    <3>4. At(b, 1, c) /\ At(b, 1 + Len(c), d)
      BY <3>2, <3>3, AtPieces
    <3>5. Len(Cat(c, d)) = Len(c) + Len(d) /\ Len(c) \in Nat /\ Len(d) \in Nat
      BY <3>2, CatLen
    <3>6. PICK j : j = 1 + Len(c)
      OBVIOUS
    <3>7. f[j] = <<o>> \o f[j + Len(EncOp(o))]
      <4>1. At(b, j, EncOp(o))
        BY <3>1, <3>4, <3>6
      <4> QED
        BY <4>1, OneDecoded
    <3>8. j + Len(d) = 1 + Len(Cat(c, d))
      BY <3>5, <3>6
    <3>9. f[j] = <<o>> \o rest
      BY <2>1, <3>1, <3>2, <3>7, <3>8
    <3>10. PICK r : r = <<o>> \o rest
      OBVIOUS
    <3>11. r \in Seq(Ops)
      BY <3>10
    <3>12. f[1] = Cat(t, r)
      BY <1>2, <3>1, <3>4, <3>6, <3>9, <3>10, <3>11
    <3>13. Cat(t, Cat(<<o>>, rest)) = Cat(Cat(t, <<o>>), rest)
      BY OpsRegroup
    <3> QED
      BY <3>10, <3>12, <3>13 DEF Cat
  <2>2. t \o <<o>> \in Seq(Ops)
    OBVIOUS
  <2>3. Done(t \o <<o>>)
    BY <2>1
  <2> HIDE DEF Done
  <2> QED
    BY <2>2, <2>3
<1>3. Good \in SUBSET Seq(Ops)
  OBVIOUS
<1>4. Good = Seq(Ops)
  <2> HIDE DEF Good
  <2> QED
    BY <1>1, <1>2, <1>3, SeqInduct
<1>5. Done(ops)
  <2> HIDE DEF Done
  <2> QED
    BY <1>4
<1>6. <<>> \in Seq(Ops) /\ Cat(ops, <<>>) = ops
  BY DEF Cat
<1> QED
  BY <1>5, <1>6

\* encode_ops and decode_ops: a block of operations decodes to the operations it was made
\* of, whatever the base of the variable-length numbers.
THEOREM RoundTrip ==
  ASSUME NEW ops \in Seq(Ops)
  PROVE  EncodeOps(ops) \in Seq(Nat) /\ DecodeOps(EncodeOps(ops)) = ops
<1>1. PICK b : b = EncodeOps(ops)
  OBVIOUS
<1>2. b \in Seq(Nat)
  <2>1. PICK ss : ss = [k \in DOMAIN ops |-> EncOp(ops[k])]
    OBVIOUS
  <2>2. ss \in Seq(Seq(Nat)) /\ b = FlattenSeq(ss)
    BY <1>1, <2>1, EncParts
  <2>3. <<>> \in Seq(Nat)
    OBVIOUS
  <2> QED
    BY <2>2, <2>3, FlatMore
<1>3. PICK f : DecodeOps(b) = f[1] /\ \A i \in 1..(Len(b) + 1) : f[i] = FromAt(b, f, i)
  BY <1>2, FromValue
<1>4. At(b, 1, EncodeOps(ops))
  <2>1. 1 \in Nat \ {0} /\ 1 + Len(b) <= Len(b) + 1 /\ \A k \in 1..Len(b) : (1 + k) - 1 = k
    BY <1>2
  <2> QED
    BY <1>1, <2>1 DEF At
<1>5. f[1 + Len(EncodeOps(ops))] = <<>>
  <2>1. 1 + Len(b) \in 1..(Len(b) + 1) /\ 1 + Len(b) > Len(b)
    BY <1>2
  <2>2. f[1 + Len(b)] = <<>>
    BY <1>3, <2>1 DEF FromAt
  <2> QED
    BY <1>1, <2>2
<1>6. f[1] = ops
  BY <1>2, <1>3, <1>4, <1>5, AllDecoded
<1> QED
  BY <1>1, <1>2, <1>3, <1>6

-----------------------------------------------------------------------------
(* Types of texts *)

\* Operations on a text give a text.
LEMMA ApplyTyped ==
  ASSUME NEW t \in Seq(Nat), NEW ops \in Seq(Ops)
  PROVE  ApplyChars(t, ops) \in Seq(Nat)
<1> DEFINE Good == {os \in Seq(Ops) : Fold("apply", 0, t, os) \in Seq(Nat)}
<1>1. <<>> \in Good
  <2>1. Fold("apply", 0, t, <<>>) = t /\ <<>> \in Seq(Ops)
    BY FoldEmpty
  <2> QED
    BY <2>1
<1>2. ASSUME NEW os \in Seq(Ops), NEW o \in Ops, os \in Good  PROVE os \o <<o>> \in Good
  <2>1. Fold("apply", 0, t, os \o <<o>>) = StepOf("apply", 0, Fold("apply", 0, t, os), o)
    BY FoldMore
  <2>2. PICK x, u : x = Fold("apply", 0, t, os) /\ u = o.ins
    OBVIOUS
  <2>3. x \in Seq(Nat) /\ u \in Seq(Nat) /\ o.idx \in Nat /\ o.del \in Nat
    BY <1>2, <2>2 DEF Ops
  <2>4. StepOf("apply", 0, x, o) = Splice(x, o, u)
    BY <2>2 DEF StepOf
  <2>5. PICK s, e : s = MinOf(o.idx, Len(x)) /\ e = MinOf(s + o.del, Len(x))
    OBVIOUS
  <2>6. s \in 0..Len(x) /\ e \in 0..Len(x)
    BY <2>3, <2>5 DEF MinOf
  <2>7. SubSeq(x, 1, s) \in Seq(Nat) /\ SubSeq(x, e + 1, Len(x)) \in Seq(Nat)
    <3>1. x \in Seq(Nat)
      BY <2>3
    <3>2. SubSeq(x, 1, s) \in Seq(Nat)
      BY <2>6, <3>1, HeadTyped
    <3>3. SubSeq(x, e + 1, Len(x)) \in Seq(Nat)
      BY <2>6, <3>1, TailTyped
    <3> QED
      BY <3>2, <3>3
  <2>8. Splice(x, o, u) = SubSeq(x, 1, s) \o u \o SubSeq(x, e + 1, Len(x))
    BY <2>5 DEF Splice
  <2>9. Splice(x, o, u) \in Seq(Nat)
    <3>1. PICK p, r : p = SubSeq(x, 1, s) /\ r = SubSeq(x, e + 1, Len(x))
      OBVIOUS
    <3>2. p \in Seq(Nat) /\ r \in Seq(Nat)
      BY <2>7, <3>1
    <3>3. p \o u \in Seq(Nat)
      BY <2>3, <3>2
    <3>4. (p \o u) \o r \in Seq(Nat)
      BY <3>2, <3>3
    <3> QED
      BY <2>8, <3>1, <3>4
  <2>10. os \o <<o>> \in Seq(Ops)
    OBVIOUS
  <2> QED
    BY <2>1, <2>2, <2>4, <2>9, <2>10
<1>3. Good \in SUBSET Seq(Ops)
  OBVIOUS
<1>4. Good = Seq(Ops)
  <2> HIDE DEF Good
  <2> QED
    BY <1>1, <1>2, <1>3, SeqInduct
<1> QED
  BY <1>4, ApplyIsFold

\* Whatever a block holds, it decodes to operations.
LEMMA DecodeTyped ==
  ASSUME NEW b \in Seq(Nat)
  PROVE  DecodeOps(b) \in Seq(Ops)
<1>1. PICK f : DecodeOps(b) = f[1] /\ \A i \in 1..(Len(b) + 1) : f[i] = FromAt(b, f, i)
  BY FromValue
<1>2. PICK n : n = Len(b) + 1
  OBVIOUS
<1>3. n \in Nat /\ n > 0
  BY <1>2
<1>4. <<>> \in Seq(Ops)
  OBVIOUS
<1> DEFINE Done(j) == j < n => f[n - j] \in Seq(Ops)
           Good == {j \in Nat : Done(j)}
<1>5. ASSUME NEW j \in Nat, \A m \in 0..(j - 1) : m \in Good  PROVE j \in Good
  <2> SUFFICES ASSUME j < n  PROVE f[n - j] \in Seq(Ops)
    OBVIOUS
  <2>1. PICK i : i = n - j
    OBVIOUS
  <2>2. i \in 1..n /\ i \in 1..(Len(b) + 1)
    BY <1>2, <1>3, <2>1
  <2>3. f[i] = FromAt(b, f, i)
    BY <1>1, <2>2
  <2>4. ASSUME NEW k \in (i + 1)..n  PROVE f[k] \in Seq(Ops)
    <3>1. n - k \in 0..(j - 1) /\ n - (n - k) = k /\ n - k < n
      BY <1>3, <2>1, <2>2
    <3> QED
      BY <1>5, <3>1
  <2>5. CASE i > Len(b)
    BY <1>4, <2>1, <2>3, <2>5 DEF FromAt
  <2>6. CASE ~(i > Len(b))
    <3>1. PICK idx, r : idx = GetUvar(b, i + 1) /\ r = GetUvar(b, idx.next)
      OBVIOUS
    <3>2. i + 1 \in 1..(Len(b) + 1)
      BY <2>2, <2>6
    <3>3. idx.v \in Nat /\ idx.next \in (i + 1)..(Len(b) + 1)
      BY <3>1, <3>2, GetValue
    <3>4. idx.next \in 1..(Len(b) + 1)
      BY <3>2, <3>3
    <3>5. r.v \in Nat /\ r.next \in idx.next..(Len(b) + 1)
      BY <3>1, <3>4, GetValue
    <3>6. PICK a, m, v, u : a = idx.v /\ m = r.next /\ v = r.v /\ u = SubSeq(b, m, m + v - 1)
      OBVIOUS
    <3>7. m \in (i + 1)..n /\ v \in Nat /\ a \in Nat
      <4>1. PICK k : k = idx.next
        OBVIOUS
      <4>2. k \in (i + 1)..(Len(b) + 1) /\ r.next \in k..(Len(b) + 1)
        BY <3>3, <3>5, <4>1
      <4>3. m \in k..(Len(b) + 1)
        BY <3>6, <4>2
      <4>4. m \in (i + 1)..n
        <5>1. \A z \in (i + 1)..n : \A y \in z..n : y \in (i + 1)..n
          BY <1>3, <2>2
        <5> QED
          BY <1>2, <4>2, <4>3, <5>1
      <4> QED
        BY <3>3, <3>5, <3>6, <4>4
    <3>8. CASE b[i] = 0
      <4>1. f[i] = <<Delete(a, v)>> \o f[m]
        BY <2>3, <2>6, <3>1, <3>6, <3>8 DEF FromAt
      <4>2. Delete(a, v) \in Ops
        BY <3>7 DEF Delete, Ops
      <4>3. PICK x, y : x = Delete(a, v) /\ y = f[m]
        OBVIOUS
      <4>4. x \in Ops /\ y \in Seq(Ops)
        BY <2>4, <3>7, <4>2, <4>3
      <4>5. <<x>> \o y \in Seq(Ops)
        BY <4>4
      <4> QED
        BY <2>1, <4>1, <4>3, <4>5
    <3>9. CASE b[i] # 0 /\ m + v > Len(b) + 1
      <4>1. f[i] = <<>>
        BY <2>3, <2>6, <3>1, <3>6, <3>9 DEF FromAt
      <4> QED
        BY <1>4, <2>1, <4>1
    <3>10. CASE b[i] # 0 /\ ~(m + v > Len(b) + 1)
      <4>1. f[i] = <<Insert(a, u)>> \o f[m + v]
        BY <2>3, <2>6, <3>1, <3>6, <3>10 DEF FromAt
      <4>2. PICK q : q = m + v - 1
        OBVIOUS
      <4>3. m \in 1..(Len(b) + 1) /\ q \in (m - 1)..Len(b)
        BY <1>2, <2>2, <3>7, <3>10, <4>2
      <4>4. SubSeq(b, m, q) \in Seq(Nat)
        BY <4>3, SubIn
      <4>5. Insert(a, u) \in Ops
        BY <3>6, <3>7, <4>2, <4>4 DEF Insert, Ops
      <4>6. PICK x, y : x = Insert(a, u) /\ y = f[m + v]
        OBVIOUS
      <4>7. m + v \in (i + 1)..n
        BY <1>2, <2>2, <3>7, <3>10
      <4>8. x \in Ops /\ y \in Seq(Ops)
        BY <2>4, <4>5, <4>6, <4>7
      <4>9. <<x>> \o y \in Seq(Ops)
        BY <4>8
      <4> QED
        BY <2>1, <4>1, <4>6, <4>9
    <3> QED
      BY <3>8, <3>9, <3>10
  <2> QED
    BY <2>5, <2>6
<1>6. Good \in SUBSET Nat
  OBVIOUS
<1>7. Good = Nat
  <2> HIDE DEF Good
  <2> QED
    BY <1>5, <1>6, LeastStrong
<1>8. Done(n - 1)
  <2>1. n - 1 \in Nat
    BY <1>3
  <2> HIDE DEF Done
  <2> QED
    BY <1>7, <2>1
<1>9. n - 1 < n /\ n - (n - 1) = 1
  BY <1>3
<1> QED
  BY <1>1, <1>8, <1>9

-----------------------------------------------------------------------------
(* Files of ciphertext *)

\* What is encrypted with one key, the texts of some blocks, and encrypting and
\* decrypting a file with the variant as a parameter.
KeyBlocks(k) == [key : {k}, pt : Seq(Nat)]
TextsOf(blocks) == [i \in DOMAIN blocks |-> blocks[i].pt]
SealFile(v, k, text) == IF v = "char" THEN <<Enc(k, text)>> ELSE LineBlocks(k, text)
OpenFile(v, k, blocks) ==
    IF v = "char" THEN Fold("blocks", k, Dec(k, Head(blocks)), Tail(blocks))
    ELSE FlattenSeq([i \in DOMAIN blocks |-> Dec(k, blocks[i])])

\* The model encrypts and decrypts that way.
LEMMA OpenIs ==
  ASSUME NEW k, NEW blocks, NEW text
  PROVE  DecryptFile(k, blocks) = OpenFile(variant, k, blocks)
         /\ EncryptText(k, text) = SealFile(variant, k, text)
<1>1. DecryptFile(k, blocks) = OpenFile(variant, k, blocks)
  BY BlocksAreFold DEF DecryptFile, OpenFile
<1>2. EncryptText(k, text) = SealFile(variant, k, text)
  BY DEF EncryptText, SealFile, LineBlocks
<1> QED
  BY <1>1, <1>2

\* The blocks of a text, line by line.
LEMMA LinesSealed ==
  ASSUME NEW k, NEW text \in Seq(Nat)
  PROVE  LineBlocks(k, text) \in Seq(KeyBlocks(k)) /\ TextsOf(LineBlocks(k, text)) = SplitLines(text)
<1>1. PICK ls : ls = SplitLines(text)
  OBVIOUS
<1>2. ls \in Seq(Seq(Nat))
  BY <1>1, SplitFlat DEF LinesLike
<1>3. LineBlocks(k, text) = [i \in DOMAIN ls |-> Enc(k, ls[i])]
  BY <1>1 DEF LineBlocks
<1>4. \A i \in DOMAIN ls : Enc(k, ls[i]) \in KeyBlocks(k) /\ Enc(k, ls[i]).pt = ls[i]
  BY <1>2 DEF Enc, KeyBlocks
<1>5. DOMAIN ls = 1..Len(ls) /\ Len(ls) \in Nat
  BY <1>2
<1>6. LineBlocks(k, text) \in Seq(KeyBlocks(k))
  BY <1>3, <1>4, <1>5
<1>7. TextsOf(LineBlocks(k, text)) = [i \in DOMAIN ls |-> ls[i]]
  BY <1>3, <1>4 DEF TextsOf
<1>8. [i \in DOMAIN ls |-> ls[i]] = ls
  BY <1>2
<1> QED
  BY <1>1, <1>6, <1>7, <1>8

\* Blocks of one key decrypt to their texts.
LEMMA TextsOpen ==
  ASSUME NEW k, NEW blocks \in Seq(KeyBlocks(k))
  PROVE  /\ TextsOf(blocks) \in Seq(Seq(Nat))
         /\ OpenFile("line", k, blocks) = FlattenSeq(TextsOf(blocks))
<1>1. \A i \in DOMAIN blocks : blocks[i] \in KeyBlocks(k)
  OBVIOUS
<1>2. \A i \in DOMAIN blocks : Dec(k, blocks[i]) = blocks[i].pt /\ blocks[i].pt \in Seq(Nat)
  BY <1>1 DEF Dec, KeyBlocks
<1>3. [i \in DOMAIN blocks |-> Dec(k, blocks[i])] = TextsOf(blocks)
  BY <1>2 DEF TextsOf
<1>4. DOMAIN blocks = 1..Len(blocks) /\ Len(blocks) \in Nat
  OBVIOUS
<1>5. TextsOf(blocks) \in Seq(Seq(Nat))
  BY <1>2, <1>4 DEF TextsOf
<1> QED
  BY <1>3, <1>5 DEF OpenFile

\* The deltas of one key turn a text into a text.
LEMMA BlocksTyped ==
  ASSUME NEW k, NEW base \in Seq(Nat), NEW blocks \in Seq(KeyBlocks(k))
  PROVE  Fold("blocks", k, base, blocks) \in Seq(Nat)
<1> DEFINE Good == {s \in Seq(KeyBlocks(k)) : Fold("blocks", k, base, s) \in Seq(Nat)}
<1>1. <<>> \in Good
  <2>1. Fold("blocks", k, base, <<>>) = base /\ <<>> \in Seq(KeyBlocks(k))
    BY FoldEmpty
  <2> QED
    BY <2>1
<1>2. ASSUME NEW s \in Seq(KeyBlocks(k)), NEW c \in KeyBlocks(k), s \in Good  PROVE s \o <<c>> \in Good
  <2>1. Fold("blocks", k, base, s \o <<c>>) = StepOf("blocks", k, Fold("blocks", k, base, s), c)
    BY FoldMore
  <2>2. PICK t, b : t = Fold("blocks", k, base, s) /\ b = Dec(k, c)
    OBVIOUS
  <2>3. t \in Seq(Nat) /\ b \in Seq(Nat)
    BY <1>2, <2>2 DEF Dec, KeyBlocks
  <2>4. DecodeOps(b) \in Seq(Ops)
    BY <2>3, DecodeTyped
  <2>5. ApplyChars(t, DecodeOps(b)) \in Seq(Nat)
    BY <2>3, <2>4, ApplyTyped
  <2>6. StepOf("blocks", k, t, c) = ApplyChars(t, DecodeOps(b))
    BY <2>2 DEF StepOf
  <2>7. s \o <<c>> \in Seq(KeyBlocks(k))
    OBVIOUS
  <2> QED
    BY <2>1, <2>2, <2>5, <2>6, <2>7
<1>3. Good \in SUBSET Seq(KeyBlocks(k))
  OBVIOUS
<1>4. Good = Seq(KeyBlocks(k))
  <2> HIDE DEF Good
  <2> QED
    BY <1>1, <1>2, <1>3, SeqInduct
<1> QED
  BY <1>4

\* A file of one key decrypts to a text.
LEMMA OpenTyped ==
  ASSUME NEW v \in {"char", "line"}, NEW k, NEW blocks \in Seq(KeyBlocks(k)),
         v = "char" => blocks # <<>>
  PROVE  OpenFile(v, k, blocks) \in Seq(Nat)
<1>1. CASE v = "char"
  <2>1. PICK h, t : h = Head(blocks) /\ t = Tail(blocks)
    OBVIOUS
  <2>2. h \in KeyBlocks(k) /\ t \in Seq(KeyBlocks(k))
    BY <1>1, <2>1
  <2>3. Dec(k, h) \in Seq(Nat)
    BY <2>2 DEF Dec, KeyBlocks
  <2>4. Fold("blocks", k, Dec(k, h), t) \in Seq(Nat)
    BY <2>2, <2>3, BlocksTyped
  <2> QED
    BY <1>1, <2>1, <2>4 DEF OpenFile
<1>2. CASE v = "line"
  <2>1. TextsOf(blocks) \in Seq(Seq(Nat)) /\ OpenFile("line", k, blocks) = FlattenSeq(TextsOf(blocks))
    BY TextsOpen
  <2>2. <<>> \in Seq(Nat)
    OBVIOUS
  <2>3. FlattenSeq(TextsOf(blocks)) \in Seq(Nat)
    BY <2>1, <2>2, FlatMore
  <2> QED
    BY <1>2, <2>1, <2>3
<1> QED
  BY <1>1, <1>2

\* A text encrypted anew decrypts to itself.
LEMMA OpenSealed ==
  ASSUME NEW v \in {"char", "line"}, NEW k, NEW text \in Seq(Nat)
  PROVE  /\ SealFile(v, k, text) \in Seq(KeyBlocks(k))
         /\ v = "char" => SealFile(v, k, text) # <<>>
         /\ OpenFile(v, k, SealFile(v, k, text)) = text
<1>1. CASE v = "char"
  <2>1. PICK c : c = Enc(k, text)
    OBVIOUS
  <2>2. c \in KeyBlocks(k) /\ Dec(k, c) = text
    BY <2>1 DEF Enc, Dec, KeyBlocks
  <2>3. SealFile(v, k, text) = <<c>>
    BY <1>1, <2>1 DEF SealFile
  <2>4. <<c>> \in Seq(KeyBlocks(k)) /\ <<c>> # <<>> /\ Head(<<c>>) = c /\ Tail(<<c>>) = <<>>
    BY <2>2
  <2>5. OpenFile(v, k, <<c>>) = Fold("blocks", k, text, <<>>)
    BY <1>1, <2>2, <2>4 DEF OpenFile
  <2> QED
    BY <2>3, <2>4, <2>5, FoldEmpty
<1>2. CASE v = "line"
  <2>1. PICK blocks : blocks = LineBlocks(k, text)
    OBVIOUS
  <2>2. blocks \in Seq(KeyBlocks(k)) /\ TextsOf(blocks) = SplitLines(text)
    BY <2>1, LinesSealed
  <2>3. OpenFile("line", k, blocks) = FlattenSeq(TextsOf(blocks))
    BY <2>2, TextsOpen
  <2>4. FlattenSeq(SplitLines(text)) = text
    BY SplitFlat
  <2>5. SealFile(v, k, text) = blocks
    BY <1>2, <2>1 DEF SealFile
  <2> QED
    BY <1>2, <2>2, <2>3, <2>4, <2>5
<1> QED
  BY <1>1, <1>2

\* A delta is a block of its key, and decrypts and decodes to the operations of the diff.
LEMMA DeltaOps ==
  ASSUME NEW k, NEW old \in Seq(Nat), NEW new \in Seq(Nat)
  PROVE  /\ Delta(k, old, new) \in KeyBlocks(k)
         /\ ApplyChars(old, DecodeOps(Dec(k, Delta(k, old, new)))) = new
<1>1. PICK ops : ops = ComDiffChar(old, new)
  OBVIOUS
<1>2. ops \in Seq(Ops) /\ ApplyChars(old, ops) = new
  BY <1>1, CharDiff
<1>3. EncodeOps(ops) \in Seq(Nat) /\ DecodeOps(EncodeOps(ops)) = ops
  BY <1>2, RoundTrip
<1>4. Delta(k, old, new) = [key |-> k, pt |-> EncodeOps(ops)]
  BY <1>1 DEF Delta, Enc
<1>5. Dec(k, Delta(k, old, new)) = EncodeOps(ops)
  BY <1>4 DEF Dec
<1>6. Delta(k, old, new) \in KeyBlocks(k)
  BY <1>3, <1>4 DEF KeyBlocks
<1> QED
  BY <1>2, <1>3, <1>5, <1>6

\* The first element and the others, with one element more.
LEMMA AppendTail ==
  ASSUME NEW S, NEW s \in Seq(S), s # <<>>, NEW c \in S
  PROVE  /\ Append(s, c) \in Seq(S) /\ Append(s, c) # <<>>
         /\ Head(s) \in S /\ Tail(s) \in Seq(S)
         /\ Head(Append(s, c)) = Head(s) /\ Tail(Append(s, c)) = Tail(s) \o <<c>>
<1>1. Head(s) \in S /\ Tail(s) \in Seq(S) /\ Append(s, c) \in Seq(S) /\ Append(s, c) # <<>>
  OBVIOUS
<1>2. Head(Append(s, c)) = Head(s)
  OBVIOUS
<1>3. Tail(Append(s, c)) = Tail(s) \o <<c>>
  OBVIOUS
<1> QED
  BY <1>1, <1>2, <1>3

\* A file that decrypts to a text decrypts with the delta to another to that other.
LEMMA OpenDelta ==
  ASSUME NEW k, NEW blocks \in Seq(KeyBlocks(k)), blocks # <<>>,
         NEW old, OpenFile("char", k, blocks) = old, NEW new \in Seq(Nat)
  PROVE  /\ Append(blocks, Delta(k, old, new)) \in Seq(KeyBlocks(k))
         /\ Append(blocks, Delta(k, old, new)) # <<>>
         /\ OpenFile("char", k, Append(blocks, Delta(k, old, new))) = new
<1>1. old \in Seq(Nat)
  BY OpenTyped
<1>2. PICK c, h, t : c = Delta(k, old, new) /\ h = Head(blocks) /\ t = Tail(blocks)
  OBVIOUS
<1>3. c \in KeyBlocks(k) /\ ApplyChars(old, DecodeOps(Dec(k, c))) = new
  BY <1>1, <1>2, DeltaOps
<1>4. h \in KeyBlocks(k) /\ t \in Seq(KeyBlocks(k))
  BY <1>2
<1>5. old = Fold("blocks", k, Dec(k, h), t)
  BY <1>2 DEF OpenFile
<1>6. PICK bs : bs = Append(blocks, c)
  OBVIOUS
<1>7. bs \in Seq(KeyBlocks(k)) /\ bs # <<>> /\ Head(bs) = h /\ Tail(bs) = t \o <<c>>
  <2>1. c \in KeyBlocks(k) /\ blocks \in Seq(KeyBlocks(k)) /\ blocks # <<>>
    BY <1>3
  <2>2. /\ Append(blocks, c) \in Seq(KeyBlocks(k)) /\ Append(blocks, c) # <<>>
        /\ Head(Append(blocks, c)) = Head(blocks) /\ Tail(Append(blocks, c)) = Tail(blocks) \o <<c>>
    BY <2>1, AppendTail
  <2> QED
    BY <1>2, <1>6, <2>2
<1>8. OpenFile("char", k, bs) = Fold("blocks", k, Dec(k, h), t \o <<c>>)
  BY <1>7 DEF OpenFile
<1>9. Fold("blocks", k, Dec(k, h), t \o <<c>>) = StepOf("blocks", k, old, c)
  <2>1. PICK base : base = Dec(k, h)
    OBVIOUS
  <2>2. c \in KeyBlocks(k) /\ t \in Seq(KeyBlocks(k))
    BY <1>3, <1>4
  <2>3. Fold("blocks", k, base, t \o <<c>>) = StepOf("blocks", k, Fold("blocks", k, base, t), c)
    BY <2>2, FoldMore
  <2> QED
    BY <1>5, <2>1, <2>3
<1>10. StepOf("blocks", k, old, c) = new
  BY <1>3 DEF StepOf
<1> QED
  BY <1>2, <1>6, <1>7, <1>8, <1>9, <1>10

-----------------------------------------------------------------------------
(* The library: the line replacement *)

MemberBlocks == [key : {Owner, Other}, pt : Seq(Nat)]

\* The elements of two sequences one after the other.
LEMMA ConcatIs ==
  ASSUME NEW S, NEW x \in Seq(S), NEW y \in Seq(S)
  PROVE  /\ x \o y \in Seq(S) /\ Len(x \o y) = Len(x) + Len(y)
         /\ \A i \in 1..Len(x \o y) : (x \o y)[i] = IF i <= Len(x) THEN x[i] ELSE y[i - Len(x)]
  OBVIOUS

\* The elements of a stretch.
LEMMA SubIs ==
  ASSUME NEW S, NEW s \in Seq(S), NEW i \in 1..(Len(s) + 1), NEW j \in (i - 1)..Len(s)
  PROVE  \A k \in 1..Len(SubSeq(s, i, j)) : SubSeq(s, i, j)[k] = s[(i + k) - 1]
  OBVIOUS

\* The texts of some blocks, and of a stretch of them.
LEMMA TextsAre ==
  ASSUME NEW s \in Seq(MemberBlocks)
  PROVE  /\ TextsOf(s) \in Seq(Seq(Nat)) /\ Len(TextsOf(s)) = Len(s)
         /\ \A i \in 1..Len(s) : TextsOf(s)[i] = s[i].pt
<1>1. \A i \in 1..Len(s) : s[i].pt \in Seq(Nat)
  <2>1. \A i \in 1..Len(s) : s[i] \in MemberBlocks
    OBVIOUS
  <2> QED
    BY <2>1 DEF MemberBlocks
<1>2. Len(s) \in Nat /\ DOMAIN s = 1..Len(s)
  OBVIOUS
<1> QED
  BY <1>1, <1>2 DEF TextsOf

\* The texts of two stretches of blocks.
LEMMA TextsConcat ==
  ASSUME NEW s \in Seq(MemberBlocks), NEW t \in Seq(MemberBlocks)
  PROVE  TextsOf(s \o t) = TextsOf(s) \o TextsOf(t)
<1>1. PICK u, x, y : u = s \o t /\ x = TextsOf(s) /\ y = TextsOf(t)
  OBVIOUS
<1>2. /\ u \in Seq(MemberBlocks) /\ Len(u) = Len(s) + Len(t) /\ Len(s) \in Nat /\ Len(t) \in Nat
      /\ \A i \in 1..Len(u) : u[i] = IF i <= Len(s) THEN s[i] ELSE t[i - Len(s)]
  BY <1>1
<1>3. /\ x \in Seq(Seq(Nat)) /\ Len(x) = Len(s) /\ \A i \in 1..Len(s) : x[i] = s[i].pt
      /\ y \in Seq(Seq(Nat)) /\ Len(y) = Len(t) /\ \A i \in 1..Len(t) : y[i] = t[i].pt
  BY <1>1, TextsAre
<1>4. PICK z : z = TextsOf(u)
  OBVIOUS
<1>5. z \in Seq(Seq(Nat)) /\ Len(z) = Len(u) /\ \A i \in 1..Len(u) : z[i] = u[i].pt
  BY <1>2, <1>4, TextsAre
<1>6. PICK w : w = x \o y
  OBVIOUS
<1>7. /\ w \in Seq(Seq(Nat)) /\ Len(w) = Len(x) + Len(y)
      /\ \A i \in 1..Len(w) : w[i] = IF i <= Len(x) THEN x[i] ELSE y[i - Len(x)]
  <2>1. x \in Seq(Seq(Nat)) /\ y \in Seq(Seq(Nat))
    BY <1>3
  <2>2. /\ x \o y \in Seq(Seq(Nat)) /\ Len(x \o y) = Len(x) + Len(y)
        /\ \A i \in 1..Len(x \o y) : (x \o y)[i] = IF i <= Len(x) THEN x[i] ELSE y[i - Len(x)]
    BY <2>1, ConcatIs
  <2> QED
    BY <1>6, <2>2
<1>8. \A i \in 1..Len(z) : z[i] = w[i]
  <2> TAKE i \in 1..Len(z)
  <2>1. i \in 1..Len(u) /\ i \in 1..Len(w)
    BY <1>2, <1>3, <1>5, <1>7
  <2>2. CASE i <= Len(s)
    <3>1. i \in 1..Len(s)
      BY <1>2, <2>1, <2>2
    <3>2. z[i] = s[i].pt /\ w[i] = x[i]
      BY <1>2, <1>3, <1>5, <1>7, <2>1, <2>2
    <3> QED
      BY <1>3, <3>1, <3>2
  <2>3. CASE ~(i <= Len(s))
    <3>1. PICK j : j = i - Len(s)
      OBVIOUS
    <3>2. j \in 1..Len(t)
      BY <1>2, <2>1, <2>3, <3>1
    <3>3. z[i] = t[j].pt /\ w[i] = y[j]
      BY <1>2, <1>3, <1>5, <1>7, <2>1, <2>3, <3>1
    <3> QED
      BY <1>3, <3>2, <3>3
  <2> QED
    BY <2>2, <2>3
<1>9. Len(z) = Len(w)
  BY <1>2, <1>3, <1>5, <1>7
<1>10. z = w
  BY <1>5, <1>7, <1>8, <1>9, SeqEqual
<1> QED
  BY <1>1, <1>4, <1>6, <1>10

\* The texts of a stretch of blocks.
LEMMA TextsSub ==
  ASSUME NEW s \in Seq(MemberBlocks), NEW i \in 1..(Len(s) + 1), NEW j \in (i - 1)..Len(s)
  PROVE  /\ SubSeq(s, i, j) \in Seq(MemberBlocks)
         /\ TextsOf(SubSeq(s, i, j)) = SubSeq(TextsOf(s), i, j)
<1>1. PICK u, x, z, w : /\ u = SubSeq(s, i, j) /\ x = TextsOf(s)
                        /\ z = TextsOf(u) /\ w = SubSeq(x, i, j)
  OBVIOUS
<1>2. /\ u \in Seq(MemberBlocks) /\ Len(u) = (j - i) + 1 /\ Len(s) \in Nat
      /\ \A k \in 1..Len(u) : u[k] = s[(i + k) - 1]
  BY <1>1
<1>3. x \in Seq(Seq(Nat)) /\ Len(x) = Len(s) /\ \A k \in 1..Len(s) : x[k] = s[k].pt
  BY <1>1, TextsAre
<1>4. z \in Seq(Seq(Nat)) /\ Len(z) = Len(u) /\ \A k \in 1..Len(u) : z[k] = u[k].pt
  BY <1>1, <1>2, TextsAre
<1>5. /\ w \in Seq(Seq(Nat)) /\ Len(w) = (j - i) + 1
      /\ \A k \in 1..Len(w) : w[k] = x[(i + k) - 1]
  <2>1. i \in 1..(Len(x) + 1) /\ j \in (i - 1)..Len(x)
    BY <1>3
  <2>2. x \in Seq(Seq(Nat))
    BY <1>3
  <2>3. SubSeq(x, i, j) \in Seq(Seq(Nat)) /\ Len(SubSeq(x, i, j)) = (j - i) + 1
    BY <2>1, <2>2, SubIn
  <2>4. \A k \in 1..Len(SubSeq(x, i, j)) : SubSeq(x, i, j)[k] = x[(i + k) - 1]
    BY <2>1, <2>2, SubIs
  <2> QED
    BY <1>1, <2>3, <2>4
<1>6. \A k \in 1..Len(z) : z[k] = w[k]
  <2> TAKE k \in 1..Len(z)
  <2>1. PICK l : l = (i + k) - 1
    OBVIOUS
  <2>2. k \in 1..Len(u) /\ k \in 1..Len(w) /\ l \in 1..Len(s)
    BY <1>2, <1>4, <1>5, <2>1
  <2>3. z[k] = s[l].pt /\ w[k] = x[l]
    BY <1>2, <1>4, <1>5, <2>1, <2>2
  <2> QED
    BY <1>3, <2>2, <2>3
<1>7. z = w
  <2>1. Len(z) = Len(w) /\ z \in Seq(Seq(Nat)) /\ w \in Seq(Seq(Nat))
    BY <1>2, <1>4, <1>5
  <2> QED
    BY <1>6, <2>1, SeqEqual
<1> QED
  BY <1>1, <1>2, <1>7

\* One operation of the line diff on the blocks is that operation on their lines.
LEMMA SpliceTexts ==
  ASSUME NEW s \in Seq(MemberBlocks), NEW u \in Seq(MemberBlocks), NEW o \in Ops
  PROVE  /\ Splice(s, o, u) \in Seq(MemberBlocks)
         /\ TextsOf(Splice(s, o, u)) = Splice(TextsOf(s), o, TextsOf(u))
<1>1. PICK n, m, x : n = MinOf(o.idx, Len(s)) /\ m = MinOf(n + o.del, Len(s)) /\ x = TextsOf(s)
  OBVIOUS
<1>2. o.idx \in Nat /\ o.del \in Nat /\ Len(s) \in Nat
  BY DEF Ops
<1>3. n \in 0..Len(s) /\ m \in n..Len(s)
  BY <1>1, <1>2 DEF MinOf
<1>4. x \in Seq(Seq(Nat)) /\ Len(x) = Len(s)
  BY <1>1, TextsAre
<1>5. PICK p, r : p = SubSeq(s, 1, n) /\ r = SubSeq(s, m + 1, Len(s))
  OBVIOUS
<1>6. p \in Seq(MemberBlocks) /\ TextsOf(p) = SubSeq(x, 1, n)
  <2>1. 1 \in 1..(Len(s) + 1) /\ n \in (1 - 1)..Len(s)
    BY <1>2, <1>3
  <2> QED
    BY <1>1, <1>5, <2>1, TextsSub
<1>7. r \in Seq(MemberBlocks) /\ TextsOf(r) = SubSeq(x, m + 1, Len(s))
  <2>1. m + 1 \in 1..(Len(s) + 1) /\ Len(s) \in ((m + 1) - 1)..Len(s)
    BY <1>2, <1>3
  <2> QED
    BY <1>1, <1>5, <2>1, TextsSub
<1>8. Splice(s, o, u) = p \o u \o r
  BY <1>1, <1>5 DEF Splice
<1>9. Splice(x, o, TextsOf(u)) = TextsOf(p) \o TextsOf(u) \o TextsOf(r)
  BY <1>1, <1>4, <1>6, <1>7 DEF Splice
<1>10. PICK q : q = p \o u
  OBVIOUS
<1>11. q \in Seq(MemberBlocks) /\ TextsOf(q) = TextsOf(p) \o TextsOf(u)
  <2>1. p \in Seq(MemberBlocks) /\ u \in Seq(MemberBlocks)
    BY <1>6
  <2>2. p \o u \in Seq(MemberBlocks) /\ TextsOf(p \o u) = TextsOf(p) \o TextsOf(u)
    BY <2>1, TextsConcat, Assoc
  <2> QED
    BY <1>10, <2>2
<1>12. q \o r \in Seq(MemberBlocks) /\ TextsOf(q \o r) = TextsOf(q) \o TextsOf(r)
  <2>1. q \in Seq(MemberBlocks) /\ r \in Seq(MemberBlocks)
    BY <1>7, <1>11
  <2> QED
    BY <2>1, TextsConcat, Assoc
<1> QED
  BY <1>1, <1>8, <1>9, <1>10, <1>11, <1>12

\* The operations of the line diff on the blocks are those operations on their lines.
LEMMA PatchTexts ==
  ASSUME NEW k \in {Owner, Other}, NEW s \in Seq(MemberBlocks), NEW ops \in Seq(Ops)
  PROVE  /\ Fold("patch", k, s, ops) \in Seq(MemberBlocks)
         /\ TextsOf(Fold("patch", k, s, ops)) = Fold("units", 0, TextsOf(s), ops)
<1> DEFINE Good == {os \in Seq(Ops) :
                      /\ Fold("patch", k, s, os) \in Seq(MemberBlocks)
                      /\ TextsOf(Fold("patch", k, s, os)) = Fold("units", 0, TextsOf(s), os)}
<1>1. <<>> \in Good
  <2>1. <<>> \in Seq(Ops)
    OBVIOUS
  <2> QED
    BY <2>1, FoldEmpty
<1>2. ASSUME NEW os \in Seq(Ops), NEW o \in Ops, os \in Good  PROVE os \o <<o>> \in Good
  <2>1. PICK v, x, u, y : /\ v = Fold("patch", k, s, os) /\ x = Fold("units", 0, TextsOf(s), os)
                          /\ u = LineBlocks(k, o.ins) /\ y = SplitLines(o.ins)
    OBVIOUS
  <2>2. v \in Seq(MemberBlocks) /\ TextsOf(v) = x
    BY <1>2, <2>1
  <2>3. u \in Seq(MemberBlocks) /\ TextsOf(u) = y
    <3>1. o.ins \in Seq(Nat)
      BY DEF Ops
    <3>2. u \in Seq(KeyBlocks(k)) /\ TextsOf(u) = y
      BY <2>1, <3>1, LinesSealed
    <3>3. KeyBlocks(k) \subseteq MemberBlocks
      BY DEF KeyBlocks, MemberBlocks
    <3> QED
      BY <3>2, <3>3
  <2>4. Splice(v, o, u) \in Seq(MemberBlocks) /\ TextsOf(Splice(v, o, u)) = Splice(x, o, y)
    BY <2>2, <2>3, SpliceTexts
  <2>5. Fold("patch", k, s, os \o <<o>>) = StepOf("patch", k, v, o)
    BY <2>1, FoldMore
  <2>6. StepOf("patch", k, v, o) = Splice(v, o, u)
    BY <2>1 DEF StepOf
  <2>7. Fold("units", 0, TextsOf(s), os \o <<o>>) = StepOf("units", 0, x, o)
    BY <2>1, FoldMore
  <2>8. StepOf("units", 0, x, o) = Splice(x, o, y)
    BY <2>1 DEF StepOf
  <2>9. os \o <<o>> \in Seq(Ops)
    OBVIOUS
  <2> QED
    BY <2>4, <2>5, <2>6, <2>7, <2>8, <2>9
<1>3. Good \in SUBSET Seq(Ops)
  OBVIOUS
<1>4. Good = Seq(Ops)
  <2> HIDE DEF Good
  <2> QED
    BY <1>1, <1>2, <1>3, SeqInduct
<1> QED
  BY <1>4

\* Two functions that fold one sequence agree.
LEMMA TwoFolds ==
  ASSUME NEW kind, NEW par, NEW base, NEW n \in Nat, NEW s, DOMAIN s = 1..n,
         NEW f, IsFold(kind, par, base, s, f), NEW g, IsFold(kind, par, base, s, g)
  PROVE  f[1..n] = g[1..n]
<1> DEFINE Good == {k \in Nat : k <= n => f[1..k] = g[1..k]}
<1>1. 0 \in Good
  <2>1. 1..0 = {} /\ {} \in SUBSET DOMAIN s
    OBVIOUS
  <2>2. f[{}] = base /\ g[{}] = base
    BY <2>1 DEF IsFold
  <2> QED
    BY <2>1, <2>2
<1>2. ASSUME NEW k \in Nat, k \in Good  PROVE k + 1 \in Good
  <2> SUFFICES ASSUME k + 1 <= n  PROVE f[1..(k + 1)] = g[1..(k + 1)]
    OBVIOUS
  <2>1. PICK T : T = 1..(k + 1)
    OBVIOUS
  <2>2. Max(T) = k + 1 /\ T \ {Max(T)} = 1..k /\ T # {}
    <3>1. k + 1 \in Nat /\ k + 1 > 0 /\ (k + 1) - 1 = k
      OBVIOUS
    <3> QED
      BY <2>1, <3>1, MaxUpto
  <2>3. T \in SUBSET DOMAIN s
    BY <2>1
  <2>4. /\ f[T] = StepOf(kind, par, f[T \ {Max(T)}], s[Max(T)])
        /\ g[T] = StepOf(kind, par, g[T \ {Max(T)}], s[Max(T)])
    BY <2>2, <2>3 DEF IsFold
  <2>5. f[1..k] = g[1..k]
    BY <1>2
  <2> QED
    BY <2>1, <2>2, <2>4, <2>5
<1>3. Good \in SUBSET Nat
  OBVIOUS
<1> HIDE DEF Good
<1>4. Good = Nat
  BY <1>1, <1>2, <1>3, Least
<1>5. n \in Good
  BY <1>4
<1> QED
  BY <1>5 DEF Good

\* It is the value of every function that folds.
LEMMA FoldUnique ==
  ASSUME NEW kind, NEW par, NEW base, NEW n \in Nat, NEW s, DOMAIN s = 1..n,
         NEW f, IsFold(kind, par, base, s, f)
  PROVE  f[1..n] = Fold(kind, par, base, s)
<1>1. PICK g : g = CHOOSE h : IsFold(kind, par, base, s, h)
  OBVIOUS
<1>2. IsFold(kind, par, base, s, g)
  BY <1>1
<1>3. f[1..n] = g[1..n]
  BY <1>2, TwoFolds
<1> QED
  BY <1>1, <1>3 DEF Fold

\* PatchLines folds such replacements, since there is such a fold.
LEMMA PatchFolds ==
  ASSUME NEW k, NEW blocks, NEW n \in Nat, NEW ops, DOMAIN ops = 1..n, variant = "line",
         \E g : IsFold("patch", k, blocks, ops, g)
  PROVE  PatchLines(k, blocks, ops) = Fold("patch", k, blocks, ops)
<1> DEFINE Patch(f) == f = [T \in SUBSET DOMAIN ops |->
                              IF T = {} THEN blocks
                              ELSE Splice(f[T \ {Max(T)}], ops[Max(T)], EncryptText(k, ops[Max(T)].ins))]
<1>1. PatchLines(k, blocks, ops) = (CHOOSE f : Patch(f))[DOMAIN ops]
  BY DEF PatchLines, FoldLeft, MapThenFoldSet
<1>2. \A t : EncryptText(k, t) = LineBlocks(k, t)
  BY DEF EncryptText, LineBlocks
<1>3. ASSUME NEW f  PROVE Patch(f) <=> IsFold("patch", k, blocks, ops, f)
  <2>1. \A T \in SUBSET DOMAIN ops :
           Splice(f[T \ {Max(T)}], ops[Max(T)], EncryptText(k, ops[Max(T)].ins))
           = StepOf("patch", k, f[T \ {Max(T)}], ops[Max(T)])
    BY <1>2 DEF StepOf
  <2> QED
    BY <2>1 DEF IsFold
<1>4. PICK f : f = CHOOSE g : Patch(g)
  OBVIOUS
<1>5. Patch(f)
  <2>1. \E g : Patch(g)
    BY <1>3
  <2> HIDE DEF Patch
  <2> QED
    BY <1>4, <2>1
<1>6. f[1..n] = Fold("patch", k, blocks, ops)
  <2>1. IsFold("patch", k, blocks, ops, f)
    BY <1>3, <1>5
  <2> QED
    BY <2>1, FoldUnique
<1> QED
  BY <1>1, <1>4, <1>6

\* PatchLines folds such replacements.
LEMMA PatchIsFold ==
  ASSUME NEW k, NEW blocks, NEW S, NEW ops \in Seq(S), variant = "line"
  PROVE  PatchLines(k, blocks, ops) = Fold("patch", k, blocks, ops)
<1>1. Len(ops) \in Nat /\ DOMAIN ops = 1..Len(ops)
  OBVIOUS
<1>2. \E g : IsFold("patch", k, blocks, ops, g)
  BY FoldExists
<1> QED
  BY <1>1, <1>2, PatchFolds

-----------------------------------------------------------------------------
(* The library: what its one file gives *)

\* The blocks of the file against the text of the version: with SGitChar, blocks of the
\* owner alone decrypt to the text; with SGitLine, every line has its block.
FileOf(v, blocks, text) ==
    /\ blocks \in Seq(MemberBlocks)
    /\ v = "char" => /\ blocks # <<>>
                     /\ blocks \in Seq(KeyBlocks(Owner)) => OpenFile("char", Owner, blocks) = text
    /\ v = "line" => TextsOf(blocks) = SplitLines(text)

\* The blocks of a member.
LEMMA OfMembers ==
  ASSUME NEW m \in {Owner, Other}
  PROVE  Seq(KeyBlocks(m)) \subseteq Seq(MemberBlocks) /\ KeyBlocks(m) \subseteq MemberBlocks
<1>1. KeyBlocks(m) \subseteq MemberBlocks
  BY DEF KeyBlocks, MemberBlocks
<1> QED
  BY <1>1

\* So has the file that init makes.
LEMMA FileSealed ==
  ASSUME NEW v \in {"char", "line"}, NEW text \in Seq(Nat)
  PROVE  FileOf(v, SealFile(v, Owner, text), text)
<1>1. PICK blocks : blocks = SealFile(v, Owner, text)
  OBVIOUS
<1>2. /\ blocks \in Seq(KeyBlocks(Owner)) /\ OpenFile(v, Owner, blocks) = text
      /\ v = "char" => blocks # <<>>
  BY <1>1, OpenSealed
<1>3. blocks \in Seq(MemberBlocks)
  BY <1>2, OfMembers
<1>4. v = "line" => TextsOf(blocks) = SplitLines(text)
  <2>1. v = "line" => blocks = LineBlocks(Owner, text)
    BY <1>1 DEF SealFile
  <2> QED
    BY <2>1, LinesSealed
<1> QED
  BY <1>1, <1>2, <1>3, <1>4 DEF FileOf

\* So has the file that update makes, whoever updates.
LEMMA FileUpdated ==
  ASSUME NEW m \in {Owner, Other}, NEW blocks, NEW old \in Seq(Nat), NEW new \in Seq(Nat),
         variant \in {"char", "line"}, FileOf(variant, blocks, old)
  PROVE  FileOf(variant, UpdateBlocks(m, blocks, old, new), new)
<1>1. PICK bs : bs = UpdateBlocks(m, blocks, old, new)
  OBVIOUS
<1>2. blocks \in Seq(MemberBlocks)
  BY DEF FileOf
<1>3. CASE old = new
  BY <1>3 DEF UpdateBlocks
<1>4. CASE old # new /\ variant = "char"
  <2>1. PICK c : c = Delta(m, old, new)
    OBVIOUS
  <2>2. c \in KeyBlocks(m) /\ c \in MemberBlocks
    BY <2>1, DeltaOps, OfMembers
  <2>3. bs = Append(blocks, c)
    BY <1>1, <1>4, <2>1 DEF UpdateBlocks
  <2>4. bs \in Seq(MemberBlocks) /\ bs # <<>>
    BY <1>2, <2>2, <2>3, AppendTail
  <2>5. ASSUME bs \in Seq(KeyBlocks(Owner))  PROVE OpenFile("char", Owner, bs) = new
    <3>1. /\ Len(bs) = Len(blocks) + 1 /\ bs[Len(blocks) + 1] = c /\ Len(blocks) \in Nat
          /\ \A i \in 1..Len(blocks) : bs[i] = blocks[i]
      BY <1>2, <2>2, <2>3
    <3>2. \A i \in 1..Len(bs) : bs[i] \in KeyBlocks(Owner)
      BY <2>5
    <3>3. c.key = Owner /\ c.key = m
      <4>1. c \in KeyBlocks(Owner)
        BY <3>1, <3>2
      <4> QED
        BY <2>2, <4>1 DEF KeyBlocks
    <3>4. \A i \in 1..Len(blocks) : blocks[i] \in KeyBlocks(Owner)
      BY <3>1, <3>2
    <3>5. blocks \in Seq(KeyBlocks(Owner))
      BY <1>2, <3>4
    <3>6. blocks # <<>> /\ OpenFile("char", Owner, blocks) = old
      BY <1>4, <3>5 DEF FileOf
    <3>7. OpenFile("char", Owner, Append(blocks, Delta(Owner, old, new))) = new
      BY <3>5, <3>6, OpenDelta
    <3> QED
      BY <2>1, <2>3, <3>3, <3>7
  <2> QED
    BY <1>1, <1>4, <2>4, <2>5 DEF FileOf
<1>5. CASE old # new /\ variant = "line"
  <2>1. PICK ops : ops = ComDiffLine(old, new)
    OBVIOUS
  <2>2. ops \in Seq(Ops) /\ Fold("units", 0, SplitLines(old), ops) = SplitLines(new)
    BY <2>1, LineDiff
  <2>3. bs = Fold("patch", m, blocks, ops)
    <3>1. bs = PatchLines(m, blocks, ops)
      BY <1>1, <1>5, <2>1 DEF UpdateBlocks
    <3> QED
      BY <1>5, <2>2, <3>1, PatchIsFold
  <2>4. /\ Fold("patch", m, blocks, ops) \in Seq(MemberBlocks)
        /\ TextsOf(Fold("patch", m, blocks, ops)) = Fold("units", 0, TextsOf(blocks), ops)
    BY <1>2, <2>2, PatchTexts
  <2>5. TextsOf(blocks) = SplitLines(old)
    BY <1>5 DEF FileOf
  <2> QED
    BY <1>1, <1>5, <2>2, <2>3, <2>4, <2>5 DEF FileOf
<1> QED
  BY <1>3, <1>4, <1>5

\* The owner's pull of a file whose blocks are all the owner's gives the text.
LEMMA FilePulled ==
  ASSUME NEW v \in {"char", "line"}, NEW blocks, NEW text \in Seq(Nat), FileOf(v, blocks, text),
         \A i \in DOMAIN blocks : blocks[i].key = Owner
  PROVE  (IF blocks = <<>> THEN <<>> ELSE OpenFile(v, Owner, blocks)) = text
<1>1. blocks \in Seq(MemberBlocks)
  BY DEF FileOf
<1>2. blocks \in Seq(KeyBlocks(Owner))
  <2>1. \A i \in DOMAIN blocks : blocks[i] \in MemberBlocks
    BY <1>1
  <2>2. \A i \in DOMAIN blocks : blocks[i] \in KeyBlocks(Owner)
    BY <2>1 DEF MemberBlocks, KeyBlocks
  <2>3. DOMAIN blocks = 1..Len(blocks) /\ Len(blocks) \in Nat
    BY <1>1
  <2> QED
    BY <1>1, <2>2, <2>3
<1>3. CASE v = "char"
  BY <1>2, <1>3 DEF FileOf
<1>4. CASE v = "line"
  <2>1. OpenFile("line", Owner, blocks) = FlattenSeq(TextsOf(blocks))
    BY <1>2, TextsOpen
  <2>2. TextsOf(blocks) = SplitLines(text)
    BY <1>4 DEF FileOf
  <2>3. OpenFile("line", Owner, blocks) = text
    BY <2>1, <2>2, SplitFlat
  <2>4. ASSUME blocks = <<>>  PROVE text = <<>>
    <3>1. TextsOf(blocks) = <<>>
      BY <2>4 DEF TextsOf
    <3> QED
      BY <2>1, <2>3, <3>1, FlatNone
  <2> QED
    BY <1>4, <2>3, <2>4
<1> QED
  BY <1>3, <1>4

-----------------------------------------------------------------------------
(* The library: its versions *)

Members == {Owner, Other}
Access == [write : SUBSET Members, by : {Owner}, signed : SUBSET Members]
Tags == [uid : Members, by : Members, root : Seq(MemberBlocks) \X {Owner} \X SUBSET Members]
LibStates == [plain : Seq(Nat), blocks : Seq(MemberBlocks), acs : Access, tag : Tags,
              n : Nat, touched : BOOLEAN]

\* What the author's signatures cover.
Covered(l) == <<l.blocks, l.acs.by, l.acs.signed>>

\* A version that the host left alone is signed and gives its text; one it altered no
\* longer has the signatures it needs.
LibOK ==
    /\ variant \in {"char", "line"}
    /\ lib \in LibStates
    /\ IF lib.touched
       THEN lib.acs.signed # lib.acs.write \/ lib.tag.root # Covered(lib)
       ELSE /\ lib.acs.signed = lib.acs.write /\ Owner \in lib.acs.write
            /\ lib.tag.uid = lib.tag.by /\ lib.tag.uid \in lib.acs.write
            /\ lib.tag.root = Covered(lib)
            /\ FileOf(variant, lib.blocks, lib.plain)

\* It begins so.
LEMMA LibStarts == Init => LibOK
<1> SUFFICES ASSUME Init  PROVE LibOK
  OBVIOUS
<1>1. variant \in {"char", "line"}
  BY DEF Init
<1>2. PICK t : t \in Seq(Nat) /\ lib = LibInit(t)
  <2>1. LibTexts \subseteq Seq(Nat) /\ <<>> \in Seq(Nat)
    BY SgitAssumption
  <2> QED
    BY <2>1 DEF Init
<1>3. PICK bs : bs = SealFile(variant, Owner, t)
  OBVIOUS
<1>4. EncryptText(Owner, t) = bs
  BY <1>3, OpenIs
<1>5. FileOf(variant, bs, t)
  BY <1>1, <1>2, <1>3, FileSealed
<1>6. bs \in Seq(MemberBlocks)
  BY <1>5 DEF FileOf
<1>7. PICK acs : acs = [write |-> {Owner}, by |-> Owner, signed |-> {Owner}]
  OBVIOUS
<1>8. acs \in Access
  BY <1>7 DEF Access, Members
<1>9. lib = [plain |-> t, blocks |-> bs, acs |-> acs,
             tag |-> [uid |-> Owner, by |-> Owner, root |-> <<bs, Owner, {Owner}>>],
             n |-> 0, touched |-> FALSE]
  BY <1>2, <1>4, <1>7 DEF LibInit, SignRoot
<1>10. lib \in LibStates
  <2>1. lib.tag \in Tags
    BY <1>6, <1>9 DEF Tags, Members
  <2> QED
    BY <1>2, <1>6, <1>8, <1>9, <2>1 DEF LibStates
<1> QED
  BY <1>1, <1>5, <1>7, <1>9, <1>10 DEF LibOK, Covered

\* update keeps it.
LEMMA LibUpdates ==
  ASSUME LibOK, NEW m \in Members, Update(m), variant' = variant
  PROVE  LibOK'
<1>1. ~lib.touched /\ m \in lib.acs.write
  BY DEF Update
<1>2. PICK text \in LibTexts :
        LET blocks == UpdateBlocks(m, lib.blocks, lib.plain, text) IN
        lib' = [lib EXCEPT !.plain = text, !.blocks = blocks, !.n = @ + 1,
                           !.tag = SignRoot(m, blocks, lib.acs)]
  BY DEF Update
<1>3. PICK bs, acs : bs = UpdateBlocks(m, lib.blocks, lib.plain, text) /\ acs = lib.acs
  OBVIOUS
<1>4. lib \in LibStates
  BY DEF LibOK
<1>5. text \in Seq(Nat) /\ lib.plain \in Seq(Nat) /\ lib.n \in Nat /\ acs \in Access
  BY <1>3, <1>4, SgitAssumption DEF LibStates
<1>6. FileOf(variant, bs, text)
  <2>1. FileOf(variant, lib.blocks, lib.plain) /\ variant \in {"char", "line"}
    BY <1>1 DEF LibOK
  <2> QED
    BY <1>3, <1>5, <2>1, FileUpdated DEF Members
<1>7. bs \in Seq(MemberBlocks)
  BY <1>6 DEF FileOf
<1>8. lib' = [plain |-> text, blocks |-> bs, acs |-> acs,
              tag |-> [uid |-> m, by |-> m, root |-> <<bs, acs.by, acs.signed>>],
              n |-> lib.n + 1, touched |-> FALSE]
  BY <1>1, <1>2, <1>3, <1>4 DEF LibStates, SignRoot
<1>9. acs.signed = acs.write /\ m \in acs.write /\ Owner \in acs.write
  BY <1>1, <1>3 DEF LibOK
<1>10. lib' \in LibStates
  <2>1. lib'.tag \in Tags
    BY <1>5, <1>7, <1>8 DEF Tags, Access
  <2> QED
    BY <1>5, <1>7, <1>8, <2>1 DEF LibStates
<1> QED
  BY <1>6, <1>8, <1>9, <1>10 DEF LibOK, Covered

\* share keeps it.
LEMMA LibShares ==
  ASSUME LibOK, NEW w \in BOOLEAN, Share(w), variant' = variant
  PROVE  LibOK'
<1>1. PICK set, acs : /\ set = IF w THEN lib.acs.write \cup {Other} ELSE lib.acs.write
                      /\ acs = [write |-> set, by |-> Owner, signed |-> set]
  OBVIOUS
<1>2. /\ ~lib.touched
      /\ lib' = [lib EXCEPT !.acs = acs, !.tag = SignRoot(Owner, lib.blocks, acs), !.n = @ + 1]
  BY <1>1 DEF Share
<1>3. lib \in LibStates
  BY DEF LibOK
<1>4. lib.acs.write \in SUBSET Members /\ lib.blocks \in Seq(MemberBlocks) /\ lib.n \in Nat
  BY <1>3 DEF LibStates, Access
<1>5. set \in SUBSET Members
  BY <1>1, <1>4 DEF Members
<1>6. acs \in Access
  BY <1>1, <1>5 DEF Access
<1>7. lib' = [plain |-> lib.plain, blocks |-> lib.blocks, acs |-> acs,
              tag |-> [uid |-> Owner, by |-> Owner, root |-> <<lib.blocks, Owner, set>>],
              n |-> lib.n + 1, touched |-> FALSE]
  BY <1>1, <1>2, <1>3 DEF LibStates, SignRoot
<1>8. Owner \in set
  BY <1>1, <1>2 DEF LibOK
<1>9. lib' \in LibStates
  <2>1. lib'.tag \in Tags
    BY <1>4, <1>5, <1>7 DEF Tags, Members
  <2> QED
    BY <1>3, <1>4, <1>6, <1>7, <2>1 DEF LibStates
<1>10. FileOf(variant, lib.blocks, lib.plain) /\ variant \in {"char", "line"}
  BY <1>2 DEF LibOK
<1> QED
  BY <1>1, <1>7, <1>8, <1>9, <1>10 DEF LibOK, Covered

\* A sequence without one of its elements is shorter.
LEMMA Dropped ==
  ASSUME NEW S, NEW s \in Seq(S), NEW i \in DOMAIN s
  PROVE  /\ SubSeq(s, 1, i - 1) \o SubSeq(s, i + 1, Len(s)) \in Seq(S)
         /\ SubSeq(s, 1, i - 1) \o SubSeq(s, i + 1, Len(s)) # s
<1>1. PICK p, r : p = SubSeq(s, 1, i - 1) /\ r = SubSeq(s, i + 1, Len(s))
  OBVIOUS
<1>2. i \in 1..Len(s) /\ Len(s) \in Nat
  OBVIOUS
<1>3. p \in Seq(S) /\ Len(p) = i - 1
  BY <1>1, <1>2
<1>4. r \in Seq(S) /\ Len(r) = Len(s) - i
  BY <1>1, <1>2
<1>5. p \o r \in Seq(S) /\ Len(p \o r) = Len(p) + Len(r)
  BY <1>3, <1>4, ConcatIs
<1>6. Len(p \o r) # Len(s)
  BY <1>2, <1>3, <1>4, <1>5
<1> QED
  BY <1>1, <1>5, <1>6

\* The host's change breaks a signature.
LEMMA LibAltered ==
  ASSUME LibOK, HostAlters, variant' = variant
  PROVE  LibOK'
<1>1. ~lib.touched
  BY DEF HostAlters
<1>2. lib \in LibStates /\ variant \in {"char", "line"}
  BY DEF LibOK
<1>3. lib.blocks \in Seq(MemberBlocks) /\ lib.acs \in Access
  BY <1>2 DEF LibStates
<1>4. lib.acs.signed = lib.acs.write /\ lib.tag.root = Covered(lib)
  BY <1>1 DEF LibOK
<1>5. ASSUME NEW i \in DOMAIN lib.blocks,
             lib' = [lib EXCEPT !.blocks = SubSeq(@, 1, i - 1) \o SubSeq(@, i + 1, Len(@)),
                                !.touched = TRUE]
      PROVE  LibOK'
  <2>1. PICK bs : bs = SubSeq(lib.blocks, 1, i - 1) \o SubSeq(lib.blocks, i + 1, Len(lib.blocks))
    OBVIOUS
  <2>2. bs \in Seq(MemberBlocks) /\ bs # lib.blocks
    BY <1>3, <2>1, Dropped
  <2>3. lib' = [lib EXCEPT !.blocks = bs, !.touched = TRUE]
    BY <1>5, <2>1
  <2>4. lib' \in LibStates
    BY <1>2, <2>2, <2>3 DEF LibStates
  <2>5. /\ lib'.blocks = bs /\ lib'.acs = lib.acs /\ lib'.tag = lib.tag /\ lib'.touched = TRUE
    BY <1>2, <2>3 DEF LibStates
  <2>6. lib'.tag.root # <<bs, lib.acs.by, lib.acs.signed>>
    BY <1>4, <2>2, <2>5 DEF Covered
  <2> QED
    BY <1>2, <2>4, <2>5, <2>6 DEF LibOK, Covered
<1>6. ASSUME Other \notin lib.acs.write,
             lib' = [lib EXCEPT !.acs.write = @ \cup {Other}, !.touched = TRUE]
      PROVE  LibOK'
  <2>1. PICK acs : acs = [lib.acs EXCEPT !.write = @ \cup {Other}]
    OBVIOUS
  <2>2. acs \in Access /\ acs.signed = lib.acs.signed /\ acs.write = lib.acs.write \cup {Other}
    BY <1>3, <2>1 DEF Access, Members
  <2>3. lib' = [lib EXCEPT !.acs = acs, !.touched = TRUE]
    BY <1>2, <1>6, <2>1 DEF LibStates
  <2>4. lib' \in LibStates
    BY <1>2, <2>2, <2>3 DEF LibStates
  <2>5. lib'.acs = acs /\ lib'.touched = TRUE
    BY <1>2, <2>3 DEF LibStates
  <2>6. acs.signed # acs.write
    BY <1>4, <1>6, <2>2
  <2> QED
    BY <1>2, <2>4, <2>5, <2>6 DEF LibOK
<1> QED
  BY <1>5, <1>6 DEF HostAlters

\* Every version of the library is as LibOK says.
THEOREM LibraryOK == Spec => []LibOK
<1>1. LibOK /\ [Next]_vars => LibOK'
  <2> SUFFICES ASSUME LibOK, [Next]_vars  PROVE LibOK'
    OBVIOUS
  <2>1. CASE UNCHANGED vars
    BY <2>1 DEF vars, LibOK, Covered, FileOf
  <2>2. CASE Next
    <3>1. ASSUME NEW d \in Devices, ToolStep(d)  PROVE lib' = lib /\ variant' = variant
      BY <3>1 DEF ToolStep, PushStart, WriteTag, WriteSnapshot, Commit, GitPush, Cut, Pull, Edit,
                  WriteFile, mode
    <3>2. ASSUME lib' = lib, variant' = variant  PROVE LibOK'
      BY <3>2 DEF LibOK, Covered, FileOf
    <3>3. CASE \E d \in Devices : ToolStep(d)
      BY <3>1, <3>2, <3>3
    <3>4. CASE LibStep
      <4>1. CASE HostAlters
        BY <4>1, LibAltered DEF HostAlters, mode
      <4>2. ASSUME NEW w \in BOOLEAN, Share(w)  PROVE LibOK'
        BY <4>2, LibShares DEF Share, mode
      <4>3. ASSUME NEW m \in Members, Update(m)  PROVE LibOK'
        BY <4>3, LibUpdates DEF Update, mode
      <4>4. Owner \in Members /\ Other \in Members
        BY DEF Members
      <4> QED
        BY <3>4, <4>1, <4>2, <4>3, <4>4 DEF LibStep
    <3> QED
      BY <2>2, <3>3, <3>4 DEF Next
  <2> QED
    BY <2>1, <2>2
<1> QED
  BY <1>1, LibStarts, PTL DEF Spec

\* While the owner alone writes, its pull gives the text of the last version or refuses, and
\* it accepts what the host left alone.
THEOREM PullsFaithful == Spec => []PullFaithful
<1>1. LibOK => PullFaithful
  <2> SUFFICES ASSUME LibOK, \A i \in DOMAIN lib.blocks : lib.blocks[i].key = Owner
               PROVE  /\ LibPull(Owner, Owner) \in {lib.plain, Refused}
                      /\ ~lib.touched /\ lib.tag.by = Owner => LibPull(Owner, Owner) = lib.plain
    BY DEF PullFaithful
  <2>1. DecryptFile(Owner, lib.blocks) = OpenFile(variant, Owner, lib.blocks)
    BY OpenIs
  <2>2. CASE lib.touched
    <3>1. lib.acs.signed # lib.acs.write \/ lib.tag.root # <<lib.blocks, lib.acs.by, lib.acs.signed>>
      BY <2>2 DEF LibOK, Covered
    <3>2. LibPull(Owner, Owner) = Refused
      BY <3>1 DEF LibPull
    <3> QED
      BY <2>2, <3>2
  <2>3. CASE ~lib.touched
    <3>1. /\ FileOf(variant, lib.blocks, lib.plain) /\ variant \in {"char", "line"}
          /\ lib.plain \in Seq(Nat) /\ lib.acs.by = Owner
      BY <2>3 DEF LibOK, LibStates, Access
    <3>2. (IF lib.blocks = <<>> THEN <<>> ELSE DecryptFile(Owner, lib.blocks)) = lib.plain
      BY <2>1, <3>1, FilePulled
    <3>3. /\ lib.acs.signed = lib.acs.write /\ lib.tag.uid \in lib.acs.write
          /\ lib.tag.root = <<lib.blocks, lib.acs.by, lib.acs.signed>>
      BY <2>3 DEF LibOK, Covered
    <3>4. LibPull(Owner, Owner) = IF lib.tag.by = Owner THEN lib.plain ELSE Refused
      BY <3>1, <3>2, <3>3 DEF LibPull
    <3> QED
      BY <3>4
  <2> QED
    BY <2>2, <2>3
<1> QED
  BY <1>1, LibraryOK, PTL

-----------------------------------------------------------------------------
(* The tool: the trees and the commits *)

\* The ciphertext of a file of the tool, and of a tree, in each variant.
Ciphers(v) == {b \in Seq(KeyBlocks(RepoKey)) : v = "char" => b # <<>>} \cup {Absent}
SealedTrees(v) == [Files -> Ciphers(v)]
\* The commits whose tag signs their files.
Versions(v) == {c \in [files : SealedTrees(v), tag : SealedTrees(v),
                       plain : PlainTrees, torn : BOOLEAN] : c.tag = c.files}
Trees(v) == [files : SealedTrees(v), tag : SealedTrees(v)]
Pushes == [pc : {"idle", "write", "tag", "snapshot", "commit", "push"},
           new : PlainTrees, todo : SUBSET Files]

\* What a file decrypts to, and a tree.
FileText(v, b) == IF b = Absent THEN Absent ELSE IF b = <<>> THEN <<>> ELSE OpenFile(v, RepoKey, b)
OpenTree(v, files) == [f \in Files |-> FileText(v, files[f])]

\* Decrypted is that.
LEMMA DecryptedIs ==
  ASSUME NEW files
  PROVE  Decrypted(files) = OpenTree(variant, files)
<1>1. \A k, b : DecryptFile(k, b) = OpenFile(variant, k, b)
  BY OpenIs
<1> QED
  BY <1>1 DEF Decrypted, OpenTree, FileText

\* A file that is absent is neither a text nor blocks.
LEMMA AbsentIs ==
  /\ Absent \notin Seq(Nat) /\ Absent \notin Seq(KeyBlocks(RepoKey)) /\ Absent # <<>>
  /\ NoFiles \in PlainTrees /\ \A v : NoFiles \in SealedTrees(v)
<1>1. Seq(KeyBlocks(RepoKey)) \subseteq Seq(Blocks)
  <2>1. KeyBlocks(RepoKey) \subseteq Blocks
    BY DEF KeyBlocks, Blocks
  <2> QED
    BY <2>1
<1>2. Absent \notin Seq(Nat) /\ Absent \notin Seq(Blocks)
  BY SgitAssumption
<1>3. <<>> \in Seq(Nat)
  OBVIOUS
<1>4. NoFiles \in PlainTrees
  BY DEF NoFiles, PlainTrees
<1>5. \A v : NoFiles \in SealedTrees(v)
  BY DEF NoFiles, SealedTrees, Ciphers
<1> QED
  BY <1>1, <1>2, <1>3, <1>4, <1>5

\* Versions are commits, and no repository is not one of any.
LEMMA VersionsAre ==
  ASSUME NEW v
  PROVE  NoRepo \notin Seq(Versions(v))
<1>1. KeyBlocks(RepoKey) \subseteq Blocks
  BY DEF KeyBlocks, Blocks
<1>2. Seq(KeyBlocks(RepoKey)) \subseteq Seq(Blocks)
  BY <1>1
<1>3. Ciphers(v) \subseteq Seq(Blocks) \cup {Absent}
  BY <1>2 DEF Ciphers
<1>4. SealedTrees(v) \subseteq CipherTrees
  BY <1>3 DEF SealedTrees, CipherTrees
<1>5. Versions(v) \subseteq Commits
  BY <1>4 DEF Versions, Commits
<1>6. Seq(Versions(v)) \subseteq Seq(Commits)
  BY <1>5
<1> QED
  BY <1>6, SgitAssumption

\* A file encrypted anew is ciphertext and decrypts to its text.
LEMMA SealedText ==
  ASSUME NEW v \in {"char", "line"}, NEW t \in Seq(Nat)
  PROVE  SealFile(v, RepoKey, t) \in Ciphers(v) /\ FileText(v, SealFile(v, RepoKey, t)) = t
<1>1. PICK b : b = SealFile(v, RepoKey, t)
  OBVIOUS
<1>2. /\ b \in Seq(KeyBlocks(RepoKey)) /\ OpenFile(v, RepoKey, b) = t
      /\ v = "char" => b # <<>>
  BY <1>1, OpenSealed
<1>3. b # Absent
  BY <1>2, AbsentIs
<1>4. ASSUME b = <<>>  PROVE t = <<>>
  <2>1. v = "line"
    BY <1>2, <1>4
  <2>2. OpenFile("line", RepoKey, b) = FlattenSeq(TextsOf(b))
    BY <1>2, TextsOpen
  <2>3. TextsOf(b) = <<>>
    BY <1>4 DEF TextsOf
  <2> QED
    BY <1>2, <2>1, <2>2, <2>3, FlatNone
<1> QED
  BY <1>1, <1>2, <1>3, <1>4 DEF Ciphers, FileText

\* What ciphertext decrypts to.
LEMMA FileTyped ==
  ASSUME NEW v \in {"char", "line"}, NEW b \in Ciphers(v), b # Absent
  PROVE  OpenFile(v, RepoKey, b) \in Seq(Nat) /\ b \in Seq(KeyBlocks(RepoKey))
<1>1. b \in Seq(KeyBlocks(RepoKey)) /\ (v = "char" => b # <<>>)
  BY DEF Ciphers
<1> QED
  BY <1>1, OpenTyped

\* The blocks that a push gives a file are ciphertext; they decrypt to the new text when
\* the old blocks decrypt to the snapshot.
LEMMA NextIs ==
  ASSUME NEW d, NEW f, variant \in {"char", "line"}, ~CannotAppend(d, f),
         push[d].new[f] \in Seq(Nat) \cup {Absent}, snapshot[d][f] \in Seq(Nat) \cup {Absent},
         ct[d].files[f] \in Ciphers(variant)
  PROVE  /\ NextBlocks(d, f) \in Ciphers(variant)
         /\ FileText(variant, ct[d].files[f]) = snapshot[d][f] =>
              FileText(variant, NextBlocks(d, f)) = push[d].new[f]
<1>1. PICK new, old, b : new = push[d].new[f] /\ old = snapshot[d][f] /\ b = ct[d].files[f]
  OBVIOUS
<1>2. CASE new = Absent
  BY <1>1, <1>2 DEF NextBlocks, Ciphers, FileText
<1>3. CASE new # Absent /\ old # Absent /\ variant = "char"
  <2>1. PICK c : c = Delta(RepoKey, old, new)
    OBVIOUS
  <2>2. NextBlocks(d, f) = Append(b, c)
    BY <1>1, <1>3, <2>1 DEF NextBlocks
  <2>3. old \in Seq(Nat) /\ new \in Seq(Nat)
    BY <1>1, <1>3
  <2>4. c \in KeyBlocks(RepoKey)
    BY <2>1, <2>3, DeltaOps
  <2>5. b # Absent
    BY <1>1, <1>3 DEF CannotAppend
  <2>6. b \in Seq(KeyBlocks(RepoKey)) /\ b # <<>>
    BY <1>1, <1>3, <2>5 DEF Ciphers
  <2>7. Append(b, c) \in Seq(KeyBlocks(RepoKey)) /\ Append(b, c) # <<>>
    BY <2>4, <2>6, AppendTail
  <2>8. ASSUME FileText(variant, b) = old  PROVE FileText(variant, Append(b, c)) = new
    <3>1. OpenFile("char", RepoKey, b) = old
      BY <1>3, <2>5, <2>6, <2>8 DEF FileText
    <3>2. OpenFile("char", RepoKey, Append(b, c)) = new
      BY <2>1, <2>3, <2>6, <3>1, OpenDelta
    <3>3. Append(b, c) # Absent
      BY <2>7, AbsentIs
    <3> QED
      BY <1>3, <2>7, <3>2, <3>3 DEF FileText
  <2> QED
    BY <1>1, <2>2, <2>7, <2>8 DEF Ciphers
<1>4. CASE new # Absent /\ ~(old # Absent /\ variant = "char")
  <2>1. NextBlocks(d, f) = SealFile(variant, RepoKey, new)
    BY <1>1, <1>4, OpenIs DEF NextBlocks
  <2>2. new \in Seq(Nat)
    BY <1>1, <1>4
  <2> QED
    BY <1>1, <2>1, <2>2, SealedText
<1> QED
  BY <1>2, <1>3, <1>4

-----------------------------------------------------------------------------
(* The tool: its state *)

\* The state of one device: a push has a repository, and between the tag and the commit
\* the tag signs the files of the working tree.
DeviceOK(v, h, c, p, s, t, w) ==
    /\ h \in Seq(Versions(v)) \cup {NoRepo} /\ c \in Trees(v) /\ p \in Pushes
    /\ s \in PlainTrees /\ t \in PlainTrees /\ w \in BOOLEAN
    /\ p.pc # "idle" => h # NoRepo
    /\ p.pc \in {"snapshot", "commit"} => c.tag = c.files
Here(d) == DeviceOK(variant, hist[d], ct[d], push[d], snapshot[d], plain[d], torn[d])

OnDevices == /\ DOMAIN hist = Devices /\ DOMAIN ct = Devices /\ DOMAIN push = Devices
             /\ DOMAIN snapshot = Devices /\ DOMAIN plain = Devices /\ DOMAIN torn = Devices

TypesOK ==
    /\ variant \in {"char", "line"}
    /\ OnDevices
    /\ remote \in Seq(Versions(variant))
    /\ \A d \in Devices : Here(d)

\* A step of one device leaves the others and the variant alone.
OthersKept(d) ==
    /\ variant' = variant /\ OnDevices'
    /\ \A e \in Devices \ {d} : /\ hist'[e] = hist[e] /\ ct'[e] = ct[e] /\ push'[e] = push[e]
                                /\ snapshot'[e] = snapshot[e] /\ plain'[e] = plain[e]
                                /\ torn'[e] = torn[e]

\* Every step of the tool does.
LEMMA ToolFrame ==
  ASSUME OnDevices, NEW d \in Devices, ToolStep(d)
  PROVE  OthersKept(d)
<1>1. CASE PushStart(d)
  BY <1>1 DEF PushStart, OthersKept, OnDevices, mode
<1>2. CASE WriteTag(d)
  BY <1>2 DEF WriteTag, OthersKept, OnDevices, mode
<1>3. CASE WriteSnapshot(d)
  BY <1>3 DEF WriteSnapshot, OthersKept, OnDevices, mode
<1>4. CASE Commit(d)
  BY <1>4 DEF Commit, OthersKept, OnDevices, mode
<1>5. CASE GitPush(d)
  BY <1>5 DEF GitPush, OthersKept, OnDevices, mode
<1>6. CASE Cut(d)
  BY <1>6 DEF Cut, OthersKept, OnDevices, mode
<1>7. CASE Pull(d)
  BY <1>7 DEF Pull, OthersKept, OnDevices, mode
<1>8. ASSUME NEW f \in Files, Edit(d, f)  PROVE OthersKept(d)
  BY <1>8 DEF Edit, OthersKept, OnDevices, mode
<1>9. ASSUME NEW f \in Files, WriteFile(d, f)  PROVE OthersKept(d)
  BY <1>9 DEF WriteFile, OthersKept, OnDevices, mode
<1> QED
  BY <1>1, <1>2, <1>3, <1>4, <1>5, <1>6, <1>7, <1>8, <1>9 DEF ToolStep

\* So it is enough to look at the device and at the server.
LEMMA OneDevice ==
  ASSUME TypesOK, NEW d \in Devices, OthersKept(d), Here(d)', remote' \in Seq(Versions(variant))
  PROVE  TypesOK'
<1>1. variant' = variant
  BY DEF OthersKept
<1>2. ASSUME NEW e \in Devices, e # d  PROVE Here(e)'
  <2>1. Here(e)
    BY DEF TypesOK
  <2> QED
    BY <1>2, <2>1 DEF OthersKept, Here
<1> QED
  BY <1>1, <1>2 DEF TypesOK, OthersKept

\* `sgit init` leaves such a state.
LEMMA ToolStarts == Init => TypesOK
<1> SUFFICES ASSUME Init  PROVE TypesOK
  OBVIOUS
<1>1. variant \in {"char", "line"} /\ ToolInit
  BY DEF Init
<1>2. NoFiles \in PlainTrees /\ NoFiles \in SealedTrees(variant)
  BY AbsentIs
<1>3. PICK c : c = [files |-> NoFiles, tag |-> NoFiles, plain |-> NoFiles, torn |-> FALSE]
  OBVIOUS
<1>4. c \in Versions(variant) /\ <<c>> \in Seq(Versions(variant)) /\ <<>> \in Seq(Versions(variant))
  BY <1>2, <1>3 DEF Versions
<1>5. IdlePush \in Pushes /\ IdlePush.pc = "idle"
  BY <1>2 DEF IdlePush, Pushes
<1>6. Signed(NoFiles) \in Trees(variant)
  BY <1>2 DEF Signed, Trees
<1>7. ASSUME NEW d \in Devices  PROVE Here(d)
  <2>1. hist[d] \in Seq(Versions(variant)) \cup {NoRepo}
    BY <1>1, <1>3, <1>4 DEF ToolInit
  <2>2. /\ ct[d] = Signed(NoFiles) /\ push[d] = IdlePush /\ snapshot[d] = NoFiles
        /\ plain[d] = NoFiles /\ torn[d] = FALSE
    BY <1>1 DEF ToolInit
  <2> QED
    BY <1>2, <1>5, <1>6, <2>1, <2>2 DEF Here, DeviceOK
<1> QED
  BY <1>1, <1>4, <1>7 DEF TypesOK, ToolInit, OnDevices

\* Each step leaves the device and the server so.
LEMMA EditTypes ==
  ASSUME TypesOK, NEW d \in Devices, NEW f \in Files, Edit(d, f), OthersKept(d)
  PROVE  Here(d)' /\ remote' \in Seq(Versions(variant))
<1>1. Here(d) /\ remote \in Seq(Versions(variant)) /\ OnDevices
  BY DEF TypesOK
<1>2. PICK t \in Texts \cup {Absent} : plain' = [plain EXCEPT ![d][f] = t]
  BY DEF Edit
<1>3. t \in Seq(Nat) \cup {Absent}
  BY SgitAssumption
<1>4. plain'[d] = [plain[d] EXCEPT ![f] = t]
  BY <1>1, <1>2 DEF OnDevices
<1>5. plain'[d] \in PlainTrees
  BY <1>1, <1>3, <1>4 DEF Here, DeviceOK, PlainTrees
<1>6. UNCHANGED <<variant, ct, hist, snapshot, push, remote, torn>>
  BY DEF Edit, mode
<1> QED
  BY <1>1, <1>5, <1>6 DEF Here, DeviceOK

\* PushStart.
LEMMA StartTypes ==
  ASSUME TypesOK, NEW d \in Devices, PushStart(d), OthersKept(d)
  PROVE  Here(d)' /\ remote' \in Seq(Versions(variant))
<1>1. Here(d) /\ remote \in Seq(Versions(variant)) /\ OnDevices
  BY DEF TypesOK
<1>2. PICK todo : todo = {f \in Files : plain[d][f] # snapshot[d][f]}
  OBVIOUS
<1>3. push'[d] = [pc |-> IF todo = {} THEN "push" ELSE "write", new |-> plain[d], todo |-> todo]
  BY <1>1, <1>2 DEF PushStart, OnDevices
<1>4. push'[d] \in Pushes /\ push'[d].pc \notin {"snapshot", "commit"}
  BY <1>1, <1>2, <1>3 DEF Pushes, Here, DeviceOK
<1>5. UNCHANGED <<variant, plain, ct, hist, snapshot, remote, torn>> /\ hist[d] # NoRepo
  BY DEF PushStart, mode
<1> QED
  BY <1>1, <1>4, <1>5 DEF Here, DeviceOK

\* WriteFile.
LEMMA WriteTypes ==
  ASSUME TypesOK, NEW d \in Devices, NEW f \in Files, WriteFile(d, f), OthersKept(d)
  PROVE  Here(d)' /\ remote' \in Seq(Versions(variant))
<1>1. Here(d) /\ remote \in Seq(Versions(variant)) /\ OnDevices /\ variant \in {"char", "line"}
  BY DEF TypesOK
<1>2. PICK b : b = NextBlocks(d, f)
  OBVIOUS
<1>3. push[d] \in Pushes /\ ct[d] \in Trees(variant) /\ snapshot[d] \in PlainTrees
  BY <1>1 DEF Here, DeviceOK
<1>4. b \in Ciphers(variant)
  <2>1. /\ push[d].new[f] \in Seq(Nat) \cup {Absent} /\ snapshot[d][f] \in Seq(Nat) \cup {Absent}
        /\ ct[d].files[f] \in Ciphers(variant)
    BY <1>3 DEF Pushes, PlainTrees, Trees, SealedTrees
  <2>2. ~CannotAppend(d, f)
    BY DEF WriteFile
  <2> QED
    BY <1>1, <1>2, <2>1, <2>2, NextIs
<1>5. ct'[d] = [ct[d] EXCEPT !.files = [ct[d].files EXCEPT ![f] = b]]
  BY <1>1, <1>2, <1>3 DEF WriteFile, OnDevices, Trees
<1>6. ct'[d] \in Trees(variant)
  <2>1. [ct[d].files EXCEPT ![f] = b] \in SealedTrees(variant)
    BY <1>3, <1>4 DEF Trees, SealedTrees
  <2> QED
    BY <1>3, <1>5, <2>1 DEF Trees
<1>7. push'[d] = [push[d] EXCEPT !.todo = @ \ {f},
                                 !.pc = IF push[d].todo = {f} THEN "tag" ELSE "write"]
  BY <1>1 DEF WriteFile, OnDevices
<1>8. push'[d] \in Pushes /\ push'[d].pc \in {"tag", "write"}
  BY <1>3, <1>7 DEF Pushes
<1>9. UNCHANGED <<variant, plain, hist, snapshot, remote, torn>> /\ push[d].pc = "write"
  BY DEF WriteFile, mode
<1> QED
  BY <1>1, <1>6, <1>8, <1>9 DEF Here, DeviceOK

\* WriteTag.
LEMMA TagTypes ==
  ASSUME TypesOK, NEW d \in Devices, WriteTag(d), OthersKept(d)
  PROVE  Here(d)' /\ remote' \in Seq(Versions(variant))
<1>1. Here(d) /\ remote \in Seq(Versions(variant)) /\ OnDevices
  BY DEF TypesOK
<1>2. push[d] \in Pushes /\ ct[d] \in Trees(variant)
  BY <1>1 DEF Here, DeviceOK
<1>3. ct'[d] = Signed(ct[d].files) /\ push'[d] = [push[d] EXCEPT !.pc = "snapshot"]
  BY <1>1 DEF WriteTag, OnDevices
<1>4. ct'[d] \in Trees(variant) /\ ct'[d].tag = ct'[d].files /\ push'[d] \in Pushes
  BY <1>2, <1>3 DEF Trees, Pushes, Signed
<1>5. UNCHANGED <<variant, plain, hist, snapshot, remote, torn>> /\ push[d].pc = "tag"
  BY DEF WriteTag, mode
<1> QED
  BY <1>1, <1>4, <1>5 DEF Here, DeviceOK

\* WriteSnapshot.
LEMMA SnapshotTypes ==
  ASSUME TypesOK, NEW d \in Devices, WriteSnapshot(d), OthersKept(d)
  PROVE  Here(d)' /\ remote' \in Seq(Versions(variant))
<1>1. Here(d) /\ remote \in Seq(Versions(variant)) /\ OnDevices
  BY DEF TypesOK
<1>2. push[d] \in Pushes
  BY <1>1 DEF Here, DeviceOK
<1>3. snapshot'[d] = push[d].new /\ push'[d] = [push[d] EXCEPT !.pc = "commit"]
  BY <1>1 DEF WriteSnapshot, OnDevices
<1>4. snapshot'[d] \in PlainTrees /\ push'[d] \in Pushes
  BY <1>2, <1>3 DEF Pushes
<1>5. UNCHANGED <<variant, plain, ct, hist, remote, torn>> /\ push[d].pc = "snapshot"
  BY DEF WriteSnapshot, mode
<1> QED
  BY <1>1, <1>4, <1>5 DEF Here, DeviceOK

\* Commit: the tag signs what is committed.
LEMMA CommitTypes ==
  ASSUME TypesOK, NEW d \in Devices, Commit(d), OthersKept(d)
  PROVE  Here(d)' /\ remote' \in Seq(Versions(variant))
<1>1. Here(d) /\ remote \in Seq(Versions(variant)) /\ OnDevices
  BY DEF TypesOK
<1>2. push[d] \in Pushes /\ ct[d] \in Trees(variant) /\ torn[d] \in BOOLEAN
  BY <1>1 DEF Here, DeviceOK
<1>3. push[d].pc = "commit"
  BY DEF Commit
<1>4. ct[d].tag = ct[d].files /\ hist[d] \in Seq(Versions(variant))
  BY <1>1, <1>3 DEF Here, DeviceOK
<1>5. PICK c : c = [files |-> ct[d].files, tag |-> ct[d].tag, plain |-> push[d].new, torn |-> torn[d]]
  OBVIOUS
<1>6. c \in Versions(variant)
  BY <1>2, <1>4, <1>5 DEF Versions, Trees, Pushes
<1>7. hist'[d] = Append(hist[d], c) /\ push'[d] = [push[d] EXCEPT !.pc = "push"]
  BY <1>1, <1>5 DEF Commit, OnDevices
<1>8. hist'[d] \in Seq(Versions(variant)) /\ push'[d] \in Pushes /\ push'[d].pc = "push"
  <2>1. Append(hist[d], c) \in Seq(Versions(variant))
    BY <1>4, <1>6
  <2> QED
    BY <1>2, <1>7, <2>1 DEF Pushes
<1>9. hist'[d] # NoRepo
  BY <1>8, VersionsAre
<1>10. UNCHANGED <<variant, plain, ct, snapshot, remote, torn>>
  BY DEF Commit, mode
<1> QED
  BY <1>1, <1>8, <1>9, <1>10 DEF Here, DeviceOK

\* GitPush.
LEMMA GitTypes ==
  ASSUME TypesOK, NEW d \in Devices, GitPush(d), OthersKept(d)
  PROVE  Here(d)' /\ remote' \in Seq(Versions(variant))
<1>1. Here(d) /\ remote \in Seq(Versions(variant)) /\ OnDevices
  BY DEF TypesOK
<1>2. push'[d] = IdlePush
  BY <1>1 DEF GitPush, OnDevices
<1>3. IdlePush \in Pushes /\ IdlePush.pc = "idle"
  BY AbsentIs DEF IdlePush, Pushes
<1>4. hist[d] \in Seq(Versions(variant))
  BY <1>1 DEF GitPush, Here, DeviceOK
<1>5. UNCHANGED <<variant, plain, ct, hist, snapshot, torn>> /\ remote' \in {hist[d], remote}
  BY DEF GitPush, mode
<1> QED
  BY <1>1, <1>2, <1>3, <1>4, <1>5 DEF Here, DeviceOK

\* Cut.
LEMMA CutTypes ==
  ASSUME TypesOK, NEW d \in Devices, Cut(d), OthersKept(d)
  PROVE  Here(d)' /\ remote' \in Seq(Versions(variant))
<1>1. Here(d) /\ remote \in Seq(Versions(variant)) /\ OnDevices
  BY DEF TypesOK
<1>2. push'[d] = IdlePush
  BY <1>1 DEF Cut, OnDevices
<1>3. IdlePush \in Pushes /\ IdlePush.pc = "idle"
  BY AbsentIs DEF IdlePush, Pushes
<1>4. torn'[d] \in BOOLEAN
  <2>1. PICK w : w = (/\ push[d].pc \in {"write", "tag", "snapshot"}
                      /\ \E f \in Files : push[d].new[f] # snapshot[d][f] /\ f \notin push[d].todo)
    OBVIOUS
  <2>2. torn'[d] = (torn[d] \/ w)
    BY <1>1, <2>1 DEF Cut, OnDevices
  <2>3. w \in BOOLEAN /\ torn[d] \in BOOLEAN
    BY <1>1, <2>1 DEF Here, DeviceOK
  <2> QED
    BY <2>2, <2>3
<1>5. UNCHANGED <<variant, plain, ct, hist, snapshot, remote>>
  BY DEF Cut, mode
<1> QED
  BY <1>1, <1>2, <1>3, <1>4, <1>5 DEF Here, DeviceOK

\* Pull: what the server has decrypts to texts.
LEMMA PullTypes ==
  ASSUME TypesOK, NEW d \in Devices, Pull(d), OthersKept(d)
  PROVE  Here(d)' /\ remote' \in Seq(Versions(variant))
<1>1. Here(d) /\ remote \in Seq(Versions(variant)) /\ OnDevices /\ variant \in {"char", "line"}
  BY DEF TypesOK
<1>2. PICK tip : tip = Last(remote)
  OBVIOUS
<1>3. tip \in Versions(variant)
  BY <1>1, <1>2 DEF Pull, Last
<1>4. tip.files \in SealedTrees(variant) /\ tip.tag \in SealedTrees(variant)
  BY <1>3 DEF Versions
<1>5. hist'[d] = remote /\ ct'[d] = [files |-> tip.files, tag |-> tip.tag]
  BY <1>1, <1>2 DEF Pull, OnDevices
<1>6. ct'[d] \in Trees(variant)
  BY <1>4, <1>5 DEF Trees
<1>7. plain'[d] \in PlainTrees
  <2>1. plain[d] \in PlainTrees
    BY <1>1 DEF Here, DeviceOK
  <2>2. PICK t : t = [f \in Files |-> IF tip.files[f] = Absent THEN plain[d][f]
                                      ELSE DecryptFile(RepoKey, tip.files[f])]
    OBVIOUS
  <2>3. plain'[d] = plain[d] \/ plain'[d] = t
    BY <1>1, <1>2, <2>2 DEF Pull, OnDevices
  <2>4. ASSUME NEW f \in Files  PROVE t[f] \in Seq(Nat) \cup {Absent}
    <3>1. tip.files[f] \in Ciphers(variant) /\ plain[d][f] \in Seq(Nat) \cup {Absent}
      BY <1>4, <2>1 DEF SealedTrees, PlainTrees
    <3>2. DecryptFile(RepoKey, tip.files[f]) = OpenFile(variant, RepoKey, tip.files[f])
      BY OpenIs
    <3> QED
      BY <1>1, <2>2, <3>1, <3>2, FileTyped
  <2>5. t \in PlainTrees
    BY <2>2, <2>4 DEF PlainTrees
  <2> QED
    BY <2>1, <2>3, <2>5
<1>8. UNCHANGED <<variant, snapshot, push, remote, torn>> /\ push[d].pc = "idle"
  BY DEF Pull, mode
<1> QED
  BY <1>1, <1>5, <1>6, <1>7, <1>8 DEF Here, DeviceOK

\* Trees, commits and pushes are what they should be, and every commit's tag signs its files.
THEOREM ToolTypes == Spec => []TypesOK
<1>1. TypesOK /\ [Next]_vars => TypesOK'
  <2> SUFFICES ASSUME TypesOK, [Next]_vars  PROVE TypesOK'
    OBVIOUS
  <2>1. CASE UNCHANGED vars
    BY <2>1 DEF vars, TypesOK, OnDevices, Here
  <2>2. CASE LibStep
    <3>1. UNCHANGED <<mode, toolVars>>
      BY <2>2 DEF LibStep, Update, Share, HostAlters
    <3> QED
      BY <3>1 DEF mode, toolVars, TypesOK, OnDevices, Here
  <2>3. ASSUME NEW d \in Devices, ToolStep(d)  PROVE TypesOK'
    <3>1. OthersKept(d)
      BY <2>3, ToolFrame DEF TypesOK
    <3>2. Here(d)' /\ remote' \in Seq(Versions(variant))
      BY <2>3, <3>1, EditTypes, StartTypes, WriteTypes, TagTypes, SnapshotTypes, CommitTypes,
         GitTypes, CutTypes, PullTypes DEF ToolStep
    <3> QED
      BY <3>1, <3>2, OneDevice
  <2> QED
    BY <2>1, <2>2, <2>3 DEF Next
<1> QED
  BY <1>1, ToolStarts, PTL DEF Spec

\* Every version on the server verifies against its own signed root, wherever pushes were
\* cut off, with any number of writers.
THEOREM ServedVerifies == Spec => []RemoteVerifies
<1>1. TypesOK => RemoteVerifies
  <2> SUFFICES ASSUME TypesOK, NEW i \in 1..Len(remote)  PROVE remote[i].tag = remote[i].files
    BY DEF RemoteVerifies, Verifies
  <2>1. remote[i] \in Versions(variant)
    BY DEF TypesOK
  <2> QED
    BY <2>1 DEF Versions
<1> QED
  BY <1>1, ToolTypes, PTL

-----------------------------------------------------------------------------
(* The tool with one writer *)

\* A sequence is a prefix of itself.
LEMMA PrefixOf ==
  ASSUME NEW S, NEW s \in Seq(S)
  PROVE  IsPrefix(s, s)
  BY DEF IsPrefix

\* A prefix is one of what goes on.
LEMMA PrefixMore ==
  ASSUME NEW S, NEW r \in Seq(S), NEW s \in Seq(S), NEW x \in S, IsPrefix(r, s)
  PROVE  IsPrefix(r, Append(s, x))
<1>1. Len(r) <= Len(s) /\ SubSeq(r, 1, Len(r)) = SubSeq(s, 1, Len(r))
  BY DEF IsPrefix
<1>2. SubSeq(Append(s, x), 1, Len(r)) = SubSeq(s, 1, Len(r))
  BY <1>1
<1>3. Len(Append(s, x)) = Len(s) + 1
  OBVIOUS
<1> QED
  BY <1>1, <1>2, <1>3 DEF IsPrefix

\* What the elements of a prefix are.
LEMMA PrefixIs ==
  ASSUME NEW S, NEW r \in Seq(S), NEW s \in Seq(S), IsPrefix(r, s)
  PROVE  Len(r) <= Len(s) /\ (\A i \in 1..Len(r) : r[i] = s[i]) /\ (IsPrefix(s, r) => r = s)
<1>1. Len(r) <= Len(s) /\ SubSeq(r, 1, Len(r)) = SubSeq(s, 1, Len(r))
  BY DEF IsPrefix
<1>2. \A i \in 1..Len(r) : SubSeq(r, 1, Len(r))[i] = r[i] /\ SubSeq(s, 1, Len(r))[i] = s[i]
  BY <1>1
<1>3. \A i \in 1..Len(r) : r[i] = s[i]
  BY <1>1, <1>2
<1>4. ASSUME IsPrefix(s, r)  PROVE r = s
  <2>1. Len(s) <= Len(r)
    BY <1>4 DEF IsPrefix
  <2>2. Len(s) = Len(r)
    BY <1>1, <2>1
  <2> QED
    BY <1>3, <2>2, SeqEqual
<1> QED
  BY <1>1, <1>3, <1>4

\* While no push of the device was torn, its ciphertext decrypts to its snapshot, and during
\* a push to the snapshot where it has still to write and to the new tree elsewhere.
Agrees(v, p, c, s) ==
    IF p.pc \in {"idle", "push", "commit"}
    THEN OpenTree(v, c.files) = s /\ (p.pc = "commit" => p.new = s)
    ELSE /\ \A f \in Files : FileText(v, c.files[f]) = IF f \in p.todo THEN s[f] ELSE p.new[f]
         /\ p.pc # "write" => p.todo = {}

Decodes(v, h) == \A i \in 1..Len(h) : h[i].torn \/ OpenTree(v, h[i].files) = h[i].plain

\* Only the first device pushes: what the server has is what it committed.
OneWriter ==
    /\ TypesOK
    /\ \A d \in Devices \ {First} : push[d].pc = "idle"
    /\ hist[First] # NoRepo /\ IsPrefix(remote, hist[First])
    /\ Decodes(variant, hist[First])
    /\ torn[First] \/ Agrees(variant, push[First], ct[First], snapshot[First])

\* What the invariant says of the first device.
LEMMA FirstIs ==
  ASSUME OneWriter
  PROVE  /\ First \in Devices /\ variant \in {"char", "line"} /\ OnDevices
         /\ hist[First] \in Seq(Versions(variant)) /\ remote \in Seq(Versions(variant))
         /\ ct[First] \in Trees(variant) /\ push[First] \in Pushes /\ torn[First] \in BOOLEAN
         /\ snapshot[First] \in PlainTrees /\ plain[First] \in PlainTrees
<1>1. First \in Devices
  BY SgitAssumption
<1>2. Here(First)
  BY <1>1 DEF OneWriter, TypesOK
<1> QED
  BY <1>1, <1>2 DEF OneWriter, TypesOK, Here, DeviceOK

\* A tree whose files decrypt to the texts of a plaintext tree decrypts to it.
LEMMA TreeIs ==
  ASSUME NEW v, NEW files, NEW t \in PlainTrees, \A f \in Files : FileText(v, files[f]) = t[f]
  PROVE  OpenTree(v, files) = t
  BY DEF OpenTree, PlainTrees

\* It begins so.
LEMMA OneStarts == Init => OneWriter
<1> SUFFICES ASSUME Init  PROVE OneWriter
  OBVIOUS
<1>1. TypesOK /\ ToolInit /\ First \in Devices
  BY ToolStarts, SgitAssumption DEF Init
<1>2. PICK c : c = [files |-> NoFiles, tag |-> NoFiles, plain |-> NoFiles, torn |-> FALSE]
  OBVIOUS
<1>3. hist[First] = <<c>> /\ remote = <<>>
  BY <1>1, <1>2 DEF ToolInit
<1>4. Here(First)
  BY <1>1 DEF TypesOK
<1>5. <<c>> # NoRepo
  <2>1. NoFiles \in PlainTrees /\ NoFiles \in SealedTrees(variant)
    BY AbsentIs
  <2>2. c \in Versions(variant)
    BY <1>2, <2>1 DEF Versions
  <2>3. <<c>> \in Seq(Versions(variant))
    BY <2>2
  <2> QED
    BY <2>3, VersionsAre
<1>6. OpenTree(variant, NoFiles) = NoFiles
  BY DEF OpenTree, NoFiles, FileText
<1>7. Decodes(variant, <<c>>)
  BY <1>2, <1>6 DEF Decodes
<1>8. IsPrefix(<<>>, <<c>>)
  BY DEF IsPrefix
<1>9. push[First] = IdlePush /\ ct[First].files = NoFiles /\ snapshot[First] = NoFiles
  BY <1>1 DEF ToolInit, Signed
<1>10. Agrees(variant, push[First], ct[First], snapshot[First])
  BY <1>6, <1>9 DEF Agrees, IdlePush
<1>11. \A d \in Devices : push[d].pc = "idle"
  BY <1>1 DEF ToolInit, IdlePush
<1> QED
  BY <1>1, <1>3, <1>5, <1>7, <1>8, <1>10, <1>11 DEF OneWriter

\* A step that leaves the repository of the first device and the server alone.
LEMMA OneKept ==
  ASSUME OneWriter, TypesOK', OthersKept(First), hist'[First] = hist[First], remote' = remote,
         torn'[First] \/ Agrees(variant, push'[First], ct'[First], snapshot'[First])
  PROVE  OneWriter'
<1>1. \A d \in Devices \ {First} : push'[d].pc = "idle"
  BY DEF OneWriter, OthersKept
<1>2. variant' = variant
  BY DEF OthersKept
<1>3. /\ hist[First] # NoRepo /\ IsPrefix(remote, hist[First])
      /\ Decodes(variant, hist[First])
  BY DEF OneWriter
<1> QED
  BY <1>1, <1>2, <1>3 DEF OneWriter

\* The steps of a push of the first device before its commit.
LEMMA OneStart ==
  ASSUME OneWriter, PushStart(First)
  PROVE  torn'[First] \/ Agrees(variant, push'[First], ct'[First], snapshot'[First])
<1>1. OnDevices /\ First \in Devices /\ plain[First] \in PlainTrees /\ snapshot[First] \in PlainTrees
  BY FirstIs
<1>2. PICK todo : todo = {f \in Files : plain[First][f] # snapshot[First][f]}
  OBVIOUS
<1>3. push'[First] = [pc |-> IF todo = {} THEN "push" ELSE "write", new |-> plain[First], todo |-> todo]
  BY <1>1, <1>2 DEF PushStart, OnDevices
<1>4. UNCHANGED <<ct, snapshot, torn>> /\ push[First].pc = "idle"
  BY DEF PushStart
<1>5. ASSUME ~torn[First]  PROVE Agrees(variant, push'[First], ct[First], snapshot[First])
  <2>1. OpenTree(variant, ct[First].files) = snapshot[First]
    BY <1>4, <1>5 DEF OneWriter, Agrees
  <2>2. \A f \in Files : FileText(variant, ct[First].files[f]) = snapshot[First][f]
    BY <2>1 DEF OpenTree
  <2>3. CASE todo = {}
    BY <1>3, <2>1, <2>3 DEF Agrees
  <2>4. CASE todo # {}
    <3>1. push'[First].pc = "write" /\ push'[First].new = plain[First] /\ push'[First].todo = todo
      BY <1>3, <2>4
    <3>2. \A f \in Files : f \notin todo => plain[First][f] = snapshot[First][f]
      BY <1>2
    <3> QED
      BY <2>2, <3>1, <3>2 DEF Agrees
  <2> QED
    BY <2>3, <2>4
<1> QED
  BY <1>4, <1>5

\* WriteFile.
LEMMA OneWrite ==
  ASSUME OneWriter, NEW f \in Files, WriteFile(First, f)
  PROVE  torn'[First] \/ Agrees(variant, push'[First], ct'[First], snapshot'[First])
<1>1. /\ OnDevices /\ First \in Devices /\ variant \in {"char", "line"}
      /\ push[First] \in Pushes /\ ct[First] \in Trees(variant) /\ snapshot[First] \in PlainTrees
  BY FirstIs
<1>2. PICK b, p : b = NextBlocks(First, f) /\ p = push[First]
  OBVIOUS
<1>3. p.pc = "write" /\ f \in p.todo /\ ~CannotAppend(First, f)
  BY <1>2 DEF WriteFile
<1>4. push'[First] = [p EXCEPT !.todo = @ \ {f}, !.pc = IF p.todo = {f} THEN "tag" ELSE "write"]
  BY <1>1, <1>2 DEF WriteFile, OnDevices
<1>5. ct'[First] = [ct[First] EXCEPT !.files = [ct[First].files EXCEPT ![f] = b]]
  BY <1>1, <1>2 DEF WriteFile, OnDevices, Trees
<1>6. UNCHANGED <<snapshot, torn>>
  BY DEF WriteFile
<1>7. ASSUME ~torn[First]  PROVE Agrees(variant, push'[First], ct'[First], snapshot[First])
  <2>1. \A g \in Files : FileText(variant, ct[First].files[g])
                         = IF g \in p.todo THEN snapshot[First][g] ELSE p.new[g]
    BY <1>2, <1>3, <1>7 DEF OneWriter, Agrees
  <2>2. FileText(variant, b) = p.new[f]
    <3>1. /\ push[First].new[f] \in Seq(Nat) \cup {Absent}
          /\ snapshot[First][f] \in Seq(Nat) \cup {Absent}
          /\ ct[First].files[f] \in Ciphers(variant)
      BY <1>1 DEF Pushes, PlainTrees, Trees, SealedTrees
    <3>2. FileText(variant, ct[First].files[f]) = snapshot[First][f]
      BY <1>3, <2>1
    <3> QED
      BY <1>1, <1>2, <1>3, <3>1, <3>2, NextIs
  <2>3. /\ push'[First].todo = p.todo \ {f} /\ push'[First].new = p.new
        /\ push'[First].pc = IF p.todo = {f} THEN "tag" ELSE "write"
    BY <1>1, <1>2, <1>4 DEF Pushes
  <2>4. \A g \in Files : ct'[First].files[g] = IF g = f THEN b ELSE ct[First].files[g]
    BY <1>1, <1>5 DEF Trees, SealedTrees
  <2>5. \A g \in Files : FileText(variant, ct'[First].files[g])
                         = IF g \in p.todo \ {f} THEN snapshot[First][g] ELSE p.new[g]
    BY <2>1, <2>2, <2>4
  <2>6. push'[First].pc \notin {"idle", "push", "commit"}
        /\ (push'[First].pc # "write" => push'[First].todo = {})
    BY <2>3
  <2> QED
    BY <2>3, <2>5, <2>6 DEF Agrees
<1> QED
  BY <1>6, <1>7

\* WriteTag.
LEMMA OneTag ==
  ASSUME OneWriter, WriteTag(First)
  PROVE  torn'[First] \/ Agrees(variant, push'[First], ct'[First], snapshot'[First])
<1>1. OnDevices /\ First \in Devices /\ push[First] \in Pushes /\ ct[First] \in Trees(variant)
  BY FirstIs
<1>2. ct'[First].files = ct[First].files /\ push'[First] = [push[First] EXCEPT !.pc = "snapshot"]
  BY <1>1 DEF WriteTag, OnDevices, Signed
<1>3. push'[First].pc = "snapshot" /\ push'[First].new = push[First].new
      /\ push'[First].todo = push[First].todo
  BY <1>1, <1>2 DEF Pushes
<1>4. UNCHANGED <<snapshot, torn>> /\ push[First].pc = "tag"
  BY DEF WriteTag
<1>5. torn[First] \/ Agrees(variant, push[First], ct[First], snapshot[First])
  BY DEF OneWriter
<1> QED
  BY <1>2, <1>3, <1>4, <1>5 DEF Agrees

\* WriteSnapshot.
LEMMA OneSnapshot ==
  ASSUME OneWriter, WriteSnapshot(First)
  PROVE  torn'[First] \/ Agrees(variant, push'[First], ct'[First], snapshot'[First])
<1>1. OnDevices /\ First \in Devices /\ push[First] \in Pushes
  BY FirstIs
<1>2. snapshot'[First] = push[First].new /\ push'[First] = [push[First] EXCEPT !.pc = "commit"]
  BY <1>1 DEF WriteSnapshot, OnDevices
<1>3. push'[First].pc = "commit" /\ push'[First].new = push[First].new
  BY <1>1, <1>2 DEF Pushes
<1>4. UNCHANGED <<ct, torn>> /\ push[First].pc = "snapshot"
  BY DEF WriteSnapshot
<1>5. ASSUME ~torn[First]  PROVE OpenTree(variant, ct[First].files) = push[First].new
  <2>1. \A f \in Files : FileText(variant, ct[First].files[f]) = push[First].new[f]
    BY <1>4, <1>5 DEF OneWriter, Agrees
  <2>2. push[First].new \in PlainTrees
    BY <1>1 DEF Pushes
  <2> QED
    BY <2>1, <2>2, TreeIs
<1> QED
  BY <1>2, <1>3, <1>4, <1>5 DEF Agrees

\* Cut: a push that is cut off is torn, or has changed nothing.
LEMMA OneCut ==
  ASSUME OneWriter, Cut(First)
  PROVE  torn'[First] \/ Agrees(variant, push'[First], ct'[First], snapshot'[First])
<1>1. OnDevices /\ First \in Devices /\ push[First] \in Pushes /\ snapshot[First] \in PlainTrees
  BY FirstIs
<1>2. push'[First] = IdlePush /\ UNCHANGED <<ct, snapshot>>
  BY <1>1 DEF Cut, OnDevices
<1>3. torn'[First] = \/ torn[First]
                     \/ /\ push[First].pc \in {"write", "tag", "snapshot"}
                        /\ \E f \in Files : /\ push[First].new[f] # snapshot[First][f]
                                            /\ f \notin push[First].todo
  BY <1>1 DEF Cut, OnDevices
<1>4. ASSUME ~torn'[First]  PROVE OpenTree(variant, ct[First].files) = snapshot[First]
  <2>1. Agrees(variant, push[First], ct[First], snapshot[First])
    BY <1>3, <1>4 DEF OneWriter
  <2>2. CASE push[First].pc \in {"idle", "push", "commit"}
    BY <2>1, <2>2 DEF Agrees
  <2>3. CASE push[First].pc \in {"write", "tag", "snapshot"}
    <3>1. \A f \in Files : f \notin push[First].todo => push[First].new[f] = snapshot[First][f]
      BY <1>3, <1>4, <2>3
    <3>2. \A f \in Files : FileText(variant, ct[First].files[f])
                           = IF f \in push[First].todo THEN snapshot[First][f] ELSE push[First].new[f]
      BY <2>1, <2>3 DEF Agrees
    <3>3. \A f \in Files : FileText(variant, ct[First].files[f]) = snapshot[First][f]
      BY <3>1, <3>2
    <3> QED
      BY <1>1, <3>3, TreeIs
  <2> QED
    BY <1>1, <2>2, <2>3 DEF Pushes
<1> QED
  BY <1>2, <1>4 DEF Agrees, IdlePush

\* Commit: what is committed decrypts to the tree that was pushed.
LEMMA OneCommit ==
  ASSUME OneWriter, TypesOK', Commit(First), OthersKept(First)
  PROVE  OneWriter'
<1>1. /\ OnDevices /\ First \in Devices /\ push[First] \in Pushes /\ ct[First] \in Trees(variant)
      /\ hist[First] \in Seq(Versions(variant)) /\ remote \in Seq(Versions(variant))
      /\ torn[First] \in BOOLEAN
  BY FirstIs
<1>2. PICK c : c = [files |-> ct[First].files, tag |-> ct[First].tag, plain |-> push[First].new,
                    torn |-> torn[First]]
  OBVIOUS
<1>3. hist'[First] = Append(hist[First], c) /\ push'[First] = [push[First] EXCEPT !.pc = "push"]
  BY <1>1, <1>2 DEF Commit, OnDevices
<1>4. UNCHANGED <<variant, ct, snapshot, remote, torn>> /\ push[First].pc = "commit"
  BY DEF Commit, mode
<1>5. push'[First].pc = "push"
  BY <1>1, <1>3 DEF Pushes
<1>6. torn[First] \/ (/\ OpenTree(variant, ct[First].files) = snapshot[First]
                      /\ push[First].new = snapshot[First])
  BY <1>4 DEF OneWriter, Agrees
<1>7. torn'[First] \/ Agrees(variant, push'[First], ct'[First], snapshot'[First])
  BY <1>4, <1>5, <1>6 DEF Agrees
<1>8. c.torn \/ OpenTree(variant, c.files) = c.plain
  BY <1>2, <1>6
<1>9. c \in Versions(variant)
  <2>1. Here(First)
    BY <1>1 DEF OneWriter, TypesOK
  <2>2. ct[First].tag = ct[First].files
    BY <1>4, <2>1 DEF Here, DeviceOK
  <2> QED
    BY <1>1, <1>2, <2>2 DEF Versions, Trees, Pushes
<1>10. Append(hist[First], c) \in Seq(Versions(variant)) /\ Append(hist[First], c) # NoRepo
  <2>1. Append(hist[First], c) \in Seq(Versions(variant))
    BY <1>1, <1>9
  <2> QED
    BY <2>1, VersionsAre
<1>11. Decodes(variant, Append(hist[First], c))
  <2>1. PICK h, k : h = hist[First] /\ k = Append(h, c)
    OBVIOUS
  <2>2. Len(k) = Len(h) + 1 /\ Len(h) \in Nat /\ k[Len(h) + 1] = c /\ \A i \in 1..Len(h) : k[i] = h[i]
    BY <1>1, <1>9, <2>1
  <2>3. Decodes(variant, h)
    BY <2>1 DEF OneWriter
  <2>4. ASSUME NEW i \in 1..Len(k)  PROVE k[i].torn \/ OpenTree(variant, k[i].files) = k[i].plain
    <3>1. CASE i = Len(h) + 1
      BY <1>8, <2>2, <3>1
    <3>2. CASE i # Len(h) + 1
      <4>1. i \in 1..Len(h)
        BY <2>2, <3>2
      <4> QED
        BY <2>2, <2>3, <4>1 DEF Decodes
    <3> QED
      BY <3>1, <3>2
  <2> QED
    BY <2>1, <2>4 DEF Decodes
<1>12. IsPrefix(remote, Append(hist[First], c))
  <2>1. IsPrefix(remote, hist[First])
    BY DEF OneWriter
  <2> QED
    BY <1>1, <1>9, <2>1, PrefixMore
<1>13. \A d \in Devices \ {First} : push'[d].pc = "idle"
  BY DEF OneWriter, OthersKept
<1> QED
  BY <1>3, <1>4, <1>7, <1>10, <1>11, <1>12, <1>13 DEF OneWriter

\* GitPush: the server takes what the device has, or keeps what it had.
LEMMA OneGitPush ==
  ASSUME OneWriter, TypesOK', GitPush(First), OthersKept(First)
  PROVE  OneWriter'
<1>1. /\ OnDevices /\ First \in Devices
      /\ hist[First] \in Seq(Versions(variant)) /\ remote \in Seq(Versions(variant))
  BY FirstIs
<1>2. UNCHANGED <<variant, ct, hist, snapshot, torn>> /\ push[First].pc = "push"
      /\ remote' \in {hist[First], remote}
  BY DEF GitPush, mode
<1>3. push'[First] = IdlePush
  BY <1>1 DEF GitPush, OnDevices
<1>4. torn'[First] \/ Agrees(variant, push'[First], ct'[First], snapshot'[First])
  BY <1>2, <1>3 DEF OneWriter, Agrees, IdlePush
<1>5. IsPrefix(remote', hist[First])
  <2>1. IsPrefix(hist[First], hist[First])
    BY <1>1, PrefixOf
  <2> QED
    BY <1>2, <2>1 DEF OneWriter
<1>6. \A d \in Devices \ {First} : push'[d].pc = "idle"
  BY DEF OneWriter, OthersKept
<1> QED
  BY <1>2, <1>4, <1>5, <1>6 DEF OneWriter

\* Pull of the writer: it has all that the server has, and its working tree is clean.
LEMMA OnePull ==
  ASSUME OneWriter, TypesOK', Pull(First), OthersKept(First)
  PROVE  OneWriter'
<1>1. /\ OnDevices /\ First \in Devices /\ ct[First] \in Trees(variant)
      /\ hist[First] \in Seq(Versions(variant)) /\ remote \in Seq(Versions(variant))
  BY FirstIs
<1>2. hist[First] # NoRepo /\ IsPrefix(remote, hist[First])
  BY DEF OneWriter
<1>3. IsPrefix(hist[First], remote) /\ Clean(First)
  BY <1>2 DEF Pull
<1>4. remote = hist[First]
  BY <1>1, <1>2, <1>3, PrefixIs
<1>5. ct'[First] = [files |-> Last(remote).files, tag |-> Last(remote).tag] /\ hist'[First] = remote
  BY <1>1 DEF Pull, OnDevices
<1>6. ct'[First] = ct[First]
  BY <1>3, <1>4, <1>5 DEF Clean
<1>7. UNCHANGED <<snapshot, push, remote, torn>>
  BY DEF Pull
<1>8. torn'[First] \/ Agrees(variant, push'[First], ct'[First], snapshot'[First])
  BY <1>6, <1>7 DEF OneWriter
<1> QED
  BY <1>4, <1>5, <1>7, <1>8, OneKept

\* Every step of the tool keeps it.
LEMMA OneSteps ==
  ASSUME Writers = {First}, OneWriter, TypesOK', NEW d \in Devices, ToolStep(d), OthersKept(d)
  PROVE  OneWriter'
<1>1. CASE d # First
  <2>1. push[d].pc = "idle" /\ d \notin Writers
    BY <1>1 DEF OneWriter
  <2>2. Pull(d)
    BY <2>1 DEF ToolStep, PushStart, WriteTag, WriteSnapshot, Commit, GitPush, Cut, Edit, WriteFile
  <2>3. push' = push /\ remote' = remote /\ variant' = variant
    BY <2>2 DEF Pull, mode
  <2>4. First \in Devices \ {d}
    BY <1>1, SgitAssumption
  <2>5. /\ hist'[First] = hist[First] /\ ct'[First] = ct[First]
        /\ snapshot'[First] = snapshot[First] /\ torn'[First] = torn[First]
    BY <2>4 DEF OthersKept
  <2> QED
    BY <2>3, <2>5 DEF OneWriter
<1>2. CASE d = First
  <2>1. ASSUME torn'[First] \/ Agrees(variant, push'[First], ct'[First], snapshot'[First]),
               UNCHANGED <<hist, remote>>
        PROVE  OneWriter'
    BY <1>2, <2>1, OneKept
  <2>2. CASE PushStart(First)
    BY <2>1, <2>2, OneStart DEF PushStart
  <2>3. CASE WriteTag(First)
    BY <2>1, <2>3, OneTag DEF WriteTag
  <2>4. CASE WriteSnapshot(First)
    BY <2>1, <2>4, OneSnapshot DEF WriteSnapshot
  <2>5. CASE Cut(First)
    BY <2>1, <2>5, OneCut DEF Cut
  <2>6. ASSUME NEW f \in Files, WriteFile(First, f)  PROVE OneWriter'
    BY <2>1, <2>6, OneWrite DEF WriteFile
  <2>7. ASSUME NEW f \in Files, Edit(First, f)  PROVE OneWriter'
    <3>1. UNCHANGED <<ct, hist, snapshot, push, remote, torn>>
      BY <2>7 DEF Edit
    <3>2. torn'[First] \/ Agrees(variant, push'[First], ct'[First], snapshot'[First])
      BY <3>1 DEF OneWriter
    <3> QED
      BY <2>1, <3>1, <3>2
  <2>8. CASE Commit(First)
    BY <1>2, <2>8, OneCommit
  <2>9. CASE GitPush(First)
    BY <1>2, <2>9, OneGitPush
  <2>10. CASE Pull(First)
    BY <1>2, <2>10, OnePull
  <2> QED
    BY <1>2, <2>2, <2>3, <2>4, <2>5, <2>6, <2>7, <2>8, <2>9, <2>10 DEF ToolStep
<1> QED
  BY <1>1, <1>2

\* With one writer, every version on the server decrypts to the tree it was pushed from,
\* through all the deltas before it, unless a push was cut off before it saved its snapshot.
THEOREM ServedDecodes ==
  ASSUME Writers = {First}
  PROVE  Spec => []RemoteDecodes
<1>1. OneWriter /\ TypesOK /\ TypesOK' /\ [Next]_vars => OneWriter'
  <2> SUFFICES ASSUME OneWriter, TypesOK, TypesOK', [Next]_vars  PROVE OneWriter'
    OBVIOUS
  <2>1. CASE UNCHANGED vars
    BY <2>1 DEF vars, OneWriter
  <2>2. CASE LibStep
    <3>1. UNCHANGED <<mode, toolVars>>
      BY <2>2 DEF LibStep, Update, Share, HostAlters
    <3> QED
      BY <3>1 DEF mode, toolVars, OneWriter
  <2>3. ASSUME NEW d \in Devices, ToolStep(d)  PROVE OneWriter'
    <3>1. OthersKept(d)
      BY <2>3, ToolFrame DEF TypesOK
    <3> QED
      BY <2>3, <3>1, OneSteps
  <2> QED
    BY <2>1, <2>2, <2>3 DEF Next
<1>2. OneWriter => RemoteDecodes
  <2> SUFFICES ASSUME OneWriter, NEW i \in 1..Len(remote)
               PROVE  remote[i].torn \/ Decrypted(remote[i].files) = remote[i].plain
    BY DEF RemoteDecodes
  <2>1. hist[First] \in Seq(Versions(variant)) /\ remote \in Seq(Versions(variant))
    BY FirstIs
  <2>2. IsPrefix(remote, hist[First]) /\ Decodes(variant, hist[First])
    BY DEF OneWriter
  <2>3. Len(remote) <= Len(hist[First]) /\ \A k \in 1..Len(remote) : remote[k] = hist[First][k]
    BY <2>1, <2>2, PrefixIs
  <2>4. i \in 1..Len(hist[First]) /\ remote[i] = hist[First][i]
    BY <2>1, <2>3
  <2>5. Decrypted(remote[i].files) = OpenTree(variant, remote[i].files)
    BY DecryptedIs
  <2> QED
    BY <2>2, <2>4, <2>5 DEF Decodes
<1> QED
  BY <1>1, <1>2, OneStarts, ToolTypes, PTL DEF Spec
=============================================================================
