----------------------------- MODULE WireId_proofs -----------------------------
(***************************************************************************)
(* Theorems about WireId, for ids of any length.                           *)
(*                                                                         *)
(* projectId puts an id's bytes one after the other, each as it is or      *)
(* escaped, and unprojectId reads from the end: both by recursion.  The    *)
(* induction they need is made from a set of numbers, in which something   *)
(* that is missing has a least one (Climb).  By it                         *)
(*   - FlattenSeq lays its pieces one after the other (Laid);              *)
(*   - the recursion of unprojectId is well defined (ReadingExists);       *)
(*   - read from the end of piece n on, a segment gives the bytes after    *)
(*     the n-th (EncodedComesBack), if no byte that was left as it is      *)
(*     starts what looks like an escape.                                   *)
(* None does in a projection, which leaves no `~` as it is, and none in an *)
(* old link, where it would have to come from the id (DigitWasKept).       *)
(***************************************************************************)
EXTENDS WireId, SequenceTheorems, WellFoundedInduction, TLAPS

-----------------------------------------------------------------------------
(* Induction up to N, about a set instead of a predicate: a set of numbers *)
(* with something missing misses a least one.                              *)
LEMMA LessThan ==
  \E R : IsWellFoundedOn(R, Nat) /\ \A x, y \in Nat : x < y => <<x, y>> \in R
  <1>1. \A x, y \in Nat : x < y => <<x, y>> \in OpToRel(<, Nat)
    BY DEF OpToRel
  <1>2. IsWellFoundedOn(OpToRel(<, Nat), Nat)
    BY NatLessThanWellFounded
  <1> QED BY <1>1, <1>2

LEMMA SetInduction ==
  ASSUME NEW S, S \subseteq Nat, 0 \in S, \A n \in S : n + 1 \in S
  PROVE  S = Nat
  <1> SUFFICES ASSUME Nat \ S # {} PROVE FALSE
    OBVIOUS
  <1>1. PICK R : /\ IsWellFoundedOn(R, Nat)
                 /\ \A x, y \in Nat : x < y => <<x, y>> \in R
    BY LessThan
  <1>2. PICK x \in Nat \ S : \A y \in Nat \ S : ~(<<y, x>> \in R)
    BY <1>1, WFMin
  <1>3. x # 0 /\ x - 1 \in Nat /\ x - 1 < x
    BY <1>2
  <1>4. x - 1 \in S
    BY <1>1, <1>2, <1>3
  <1> QED BY <1>2, <1>3, <1>4

LEMMA Climb ==
  ASSUME NEW N \in Nat, NEW S,
         0 \in S, \A n \in 0 .. N - 1 : n \in S => n + 1 \in S
  PROVE  \A n \in 0 .. N : n \in S
  <1> DEFINE T == {n \in Nat : n <= N => n \in S}
  <1>1. T \subseteq Nat /\ 0 \in T
    OBVIOUS
  <1>2. \A n \in T : n + 1 \in T
    OBVIOUS
  <1>3. T = Nat
    <2> HIDE DEF T
    <2> QED BY <1>1, <1>2, SetInduction
  <1> QED BY <1>3

-----------------------------------------------------------------------------
(* Concatenation step by step.                                             *)

(* The operator keeps what the provers know of \o out of proofs that only  *)
(* need its name.                                                          *)
Join(a, b) == a \o b

LEMMA JoinIs ==
  \A a, b \in Seq(Int) :
     /\ Join(a, b) \in Seq(Int)
     /\ Len(Join(a, b)) = Len(a) + Len(b)
     /\ \A k \in 1 .. Len(a) : Join(a, b)[k] = a[k]
     /\ \A k \in 1 .. Len(b) : Join(a, b)[Len(a) + k] = b[k]
     /\ Join(<<>>, b) = b /\ Join(a, <<>>) = a
  BY ConcatProperties, ConcatEmptySeq DEF Join

(* f[i] is what the first i of the sequences s make together, up to n.     *)
Prefixes(f, s, n) ==
    /\ f \in [0 .. n -> Seq(Int)]
    /\ f[0] = <<>>
    /\ \A i \in 1 .. n : f[i] = Join(f[i - 1], s[i])

LEMMA OneMore ==
  \A n \in Nat :
     /\ \A i \in 0 .. n + 1 : i \in 0 .. n \/ i = n + 1
     /\ \A i \in 0 .. n : i \in 0 .. n + 1 /\ i <= n
     /\ n + 1 \in 0 .. n + 1 /\ ~(n + 1 <= n) /\ 0 \in 0 .. n
  OBVIOUS

LEMMA Within ==
  \A p, l \in Nat, j \in Int :
     p < j /\ j <= p + l => j - p \in 1 .. l /\ p + (j - p) = j
  OBVIOUS

LEMMA PrefixesExist ==
  ASSUME NEW s \in Seq(Seq(Int))
  PROVE  \E f : Prefixes(f, s, Len(s))
  <1> DEFINE S == {n \in 0 .. Len(s) : \E f : Prefixes(f, s, n)}
  <1>1. 0 \in S
    <2> DEFINE f == [i \in 0 .. 0 |-> <<>>]
    <2>1. Prefixes(f, s, 0)
      BY DEF Prefixes
    <2> HIDE DEF f
    <2> QED BY <2>1
  <1>2. ASSUME NEW n \in 0 .. Len(s) - 1, n \in S
        PROVE  n + 1 \in S
    <2>1. PICK f : Prefixes(f, s, n)
      BY <1>2
    <2> DEFINE more == Join(f[n], s[n + 1])
               g    == [i \in 0 .. n + 1 |-> IF i <= n THEN f[i] ELSE more]
    <2>2. f[n] \in Seq(Int) /\ s[n + 1] \in Seq(Int)
      BY <2>1 DEF Prefixes
    <2>3. more \in Seq(Int)
      BY <2>2, JoinIs
    <2> HIDE DEF more
    <2>a. f \in [0 .. n -> Seq(Int)] /\ f[0] = <<>>
      BY <2>1 DEF Prefixes
    <2>b. /\ \A i \in 0 .. n + 1 : i \in 0 .. n \/ i = n + 1
          /\ \A i \in 0 .. n : i \in 0 .. n + 1 /\ i <= n
          /\ n + 1 \in 0 .. n + 1 /\ ~(n + 1 <= n) /\ 0 \in 0 .. n
      BY OneMore
    <2>c. g[n + 1] = more /\ \A i \in 0 .. n : g[i] = f[i]
      BY <2>b
    <2>4. g \in [0 .. n + 1 -> Seq(Int)] /\ g[0] = <<>> /\ g[n + 1] = more
          /\ \A i \in 0 .. n : g[i] = f[i]
      BY <2>3, <2>a, <2>b, <2>c
    <2> HIDE DEF g
    <2>5. \A i \in 1 .. n + 1 : g[i] = Join(g[i - 1], s[i])
      <3>1. ASSUME NEW i \in 1 .. n PROVE g[i] = Join(g[i - 1], s[i])
        <4>1. i \in 0 .. n /\ i - 1 \in 0 .. n
          OBVIOUS
        <4> QED BY <2>1, <2>4, <4>1 DEF Prefixes
      <3>2. g[n + 1] = Join(g[n + 1 - 1], s[n + 1])
        <4>1. n + 1 - 1 = n /\ n \in 0 .. n
          OBVIOUS
        <4> QED BY <2>4, <4>1 DEF more
      <3>3. ASSUME NEW i \in 1 .. n + 1 PROVE g[i] = Join(g[i - 1], s[i])
        <4>1. CASE i = n + 1
          BY <3>2, <4>1
        <4>2. CASE i \in 1 .. n
          BY <3>1, <4>2
        <4> QED BY <4>1, <4>2
      <3> QED BY <3>3
    <2>6. Prefixes(g, s, n + 1)
      BY <2>4, <2>5 DEF Prefixes
    <2> QED BY <2>6
  <1>3. Len(s) \in Nat /\ Len(s) \in 0 .. Len(s)
    OBVIOUS
  <1> HIDE DEF S
  <1>4. Len(s) \in S
    BY <1>1, <1>2, <1>3, Climb
  <1> QED BY <1>4 DEF S

LEMMA FlattenIsLast ==
  ASSUME NEW s \in Seq(Seq(Int)), NEW f, Prefixes(f, s, Len(s))
  PROVE  Seqs!FlattenSeq(s) = f[Len(s)]
  <1> DEFINE flatten[i \in 1 .. Len(s)] ==
                IF i = 1 THEN s[i] ELSE flatten[i - 1] \o s[i]
             g == [i \in 1 .. Len(s) |-> f[i]]
  <1>1. CASE Len(s) = 0
    BY <1>1 DEF Prefixes, Seqs!FlattenSeq
  <1>2. CASE Len(s) # 0
    <2>1. f[1] = s[1]
      <3>1. 1 \in 1 .. Len(s) /\ 1 - 1 = 0
        BY <1>2
      <3>2. f[1] = Join(f[0], s[1]) /\ f[0] = <<>> /\ s[1] \in Seq(Int)
        BY <3>1 DEF Prefixes
      <3> QED BY <3>2, JoinIs
    <2>2. \A i \in 1 .. Len(s) :
             g[i] = IF i = 1 THEN s[i] ELSE Join(g[i - 1], s[i])
      BY <2>1 DEF Prefixes
    <2>3. g = [i \in 1 .. Len(s) |->
                 IF i = 1 THEN s[i] ELSE Join(g[i - 1], s[i])]
      <3>1. DOMAIN g = 1 .. Len(s) /\ g = [i \in 1 .. Len(s) |-> g[i]]
        OBVIOUS
      <3> HIDE DEF g
      <3> QED BY <2>2, <3>1
    <2>4. flatten = [i \in 1 .. Len(s) |->
                       IF i = 1 THEN s[i] ELSE flatten[i - 1] \o s[i]]
      <3> HIDE DEF g
      <3> QED BY <2>3 DEF Join
    <2>5. Seqs!FlattenSeq(s) = flatten[Len(s)]
      BY <1>2 DEF Seqs!FlattenSeq
    <2> HIDE DEF flatten
    <2>a. flatten = [i \in 1 .. Len(s) |->
                       IF i = 1 THEN s[i] ELSE Join(flatten[i - 1], s[i])]
      BY <2>4 DEF Join
    <2> DEFINE S == {n \in 0 .. Len(s) : n = 0 \/ flatten[n] = f[n]}
    <2>6. ASSUME NEW n \in 0 .. Len(s) - 1, n \in S
          PROVE  n + 1 \in S
      <3>0. n + 1 \in 1 .. Len(s) /\ n + 1 - 1 = n
        OBVIOUS
      <3>1. flatten[n + 1] =
               IF n = 0 THEN s[n + 1] ELSE Join(flatten[n], s[n + 1])
        BY <2>a, <3>0
      <3>2. f[n + 1] = Join(f[n], s[n + 1])
        BY <3>0 DEF Prefixes
      <3>3. flatten[n + 1] = f[n + 1]
        BY <2>1, <2>6, <3>1, <3>2
      <3> QED BY <3>3
    <2>7. Len(s) \in S
      <3>1. 0 \in S /\ Len(s) \in Nat /\ Len(s) \in 0 .. Len(s)
        OBVIOUS
      <3> HIDE DEF S
      <3> QED BY <2>6, <3>1, Climb
    <2> QED BY <1>2, <2>5, <2>7
  <1> QED BY <1>1, <1>2

(* The first m of the sequences s are found one after the other in w: the  *)
(* n-th of them ends at at[n].                                             *)
Laid(s, w, at, m) ==
    /\ w \in Seq(Int) /\ Len(w) \in Nat
    /\ at \in [0 .. m -> Nat] /\ at[0] = 0 /\ at[m] = Len(w)
    /\ \A n \in 0 .. m : at[n] <= Len(w)
    /\ \A n \in 1 .. m : at[n] = at[n - 1] + Len(s[n])
    /\ \A n \in 1 .. m : \A k \in 1 .. Len(s[n]) : w[at[n - 1] + k] = s[n][k]
    /\ \A j \in 1 .. Len(w) : \E n \in 1 .. m : at[n - 1] < j /\ j <= at[n]

LEMMA LayOne ==
  ASSUME NEW s \in Seq(Seq(Int)), NEW m \in Nat, m + 1 <= Len(s),
         NEW w, NEW at, Laid(s, w, at, m)
  PROVE  \E at2 : Laid(s, Join(w, s[m + 1]), at2, m + 1)
  <1>1. PICK t \in Seq(Int) : t = s[m + 1]
    OBVIOUS
  <1>2. PICK v : v = Join(w, t)
    OBVIOUS
  <1>3. PICK z : z = Len(w)
    OBVIOUS
  <1>4. PICK l : l = Len(t)
    OBVIOUS
  <1>5. w \in Seq(Int) /\ z \in Nat /\ l \in Nat
    BY <1>3, <1>4, LenProperties DEF Laid
  <1>6. /\ v \in Seq(Int) /\ Len(v) = z + l
        /\ \A k \in 1 .. z : v[k] = w[k]
        /\ \A k \in 1 .. l : v[z + k] = t[k]
    BY <1>2, <1>3, <1>4, <1>5, JoinIs
  <1> DEFINE at2 == [n \in 0 .. m + 1 |-> IF n <= m THEN at[n] ELSE z + l]
  <1>7. /\ at2 \in [0 .. m + 1 -> Nat] /\ at2[m + 1] = z + l
        /\ \A n \in 0 .. m : at2[n] = at[n] /\ at[n] \in Nat /\ at[n] <= z
        /\ at[0] = 0 /\ at[m] = z
    BY <1>3, <1>5 DEF Laid
  <1> HIDE DEF at2
  <1>8. at2[0] = 0 /\ at2[m] = z /\ m + 1 - 1 = m
    BY <1>7
  <1>9. \A n \in 0 .. m + 1 : at2[n] <= z + l
    <2>1. \A n \in 0 .. m : at2[n] \in Nat /\ at2[n] <= z
      BY <1>7
    <2>2. \A n \in 0 .. m + 1 : n \in 0 .. m \/ n = m + 1
      OBVIOUS
    <2>3. z <= z + l /\ z + l <= z + l
      BY <1>5
    <2>4. \A x \in Nat : x <= z => x <= z + l
      BY <1>5
    <2> QED BY <1>7, <2>1, <2>2, <2>3, <2>4
  <1>10. \A n \in 1 .. m + 1 : at2[n] = at2[n - 1] + Len(s[n])
    <2>1. ASSUME NEW n \in 1 .. m PROVE at2[n] = at2[n - 1] + Len(s[n])
      <3>1. n - 1 \in 0 .. m /\ n \in 0 .. m
        OBVIOUS
      <3>2. at2[n] = at[n] /\ at2[n - 1] = at[n - 1]
        BY <1>7, <3>1
      <3>3. at[n] = at[n - 1] + Len(s[n])
        BY DEF Laid
      <3> QED BY <3>2, <3>3
    <2>2. at2[m + 1] = at2[m + 1 - 1] + Len(s[m + 1])
      <3>1. at2[m + 1 - 1] = z
        BY <1>8
      <3> QED BY <1>1, <1>4, <1>7, <3>1
    <2>3. ASSUME NEW n \in 1 .. m + 1 PROVE at2[n] = at2[n - 1] + Len(s[n])
      <3>1. n \in 1 .. m \/ n = m + 1
        OBVIOUS
      <3>2. CASE n \in 1 .. m
        BY <2>1, <3>2
      <3>3. CASE n = m + 1
        BY <2>2, <3>3
      <3> QED BY <3>1, <3>2, <3>3
    <2> QED BY <2>3
  <1>11. ASSUME NEW n \in 1 .. m + 1, NEW k \in 1 .. Len(s[n])
         PROVE  v[at2[n - 1] + k] = s[n][k]
    <2>1. CASE n = m + 1
      BY <1>1, <1>4, <1>6, <1>8, <2>1
    <2>2. CASE n \in 1 .. m
      <3>1. n - 1 \in 0 .. m /\ n \in 0 .. m
        BY <2>2
      <3>2. at[n - 1] \in Nat /\ at2[n - 1] = at[n - 1] /\ at[n] <= z
        BY <1>7, <3>1
      <3>3. at[n] = at[n - 1] + Len(s[n]) /\ w[at[n - 1] + k] = s[n][k]
        BY <2>2 DEF Laid
      <3>4. PICK o \in Nat : o = at[n - 1]
        BY <3>2
      <3>5. PICK e : e = Len(s[n])
        OBVIOUS
      <3>6. e \in Nat /\ k \in 1 .. e /\ o + e <= z
        BY <2>2, <3>2, <3>3, <3>4, <3>5, LenProperties
      <3>7. o + k \in 1 .. z
        BY <1>5, <3>6
      <3>8. v[o + k] = w[o + k]
        BY <1>6, <3>7
      <3> QED BY <3>2, <3>3, <3>4, <3>8
    <2> QED BY <2>1, <2>2
  <1>12. ASSUME NEW j \in 1 .. z + l
         PROVE  \E n \in 1 .. m + 1 : at2[n - 1] < j /\ j <= at2[n]
    <2>1. CASE j <= z
      <3>1. j \in 1 .. z
        BY <1>5, <2>1
      <3>2. PICK n \in 1 .. m : at[n - 1] < j /\ j <= at[n]
        BY <1>3, <3>1 DEF Laid
      <3>3. at2[n] = at[n] /\ at2[n - 1] = at[n - 1]
        BY <1>7
      <3> QED BY <3>2, <3>3
    <2>2. CASE j > z
      <3>1. m + 1 \in 1 .. m + 1 /\ at2[m + 1 - 1] < j /\ j <= at2[m + 1]
        BY <1>7, <1>8, <2>2
      <3> QED BY <3>1
    <2> QED BY <1>5, <2>1, <2>2
  <1>13. z + l \in Nat
    BY <1>5
  <1>14. Laid(s, v, at2, m + 1)
    BY <1>6, <1>7, <1>8, <1>9, <1>10, <1>11, <1>12, <1>13 DEF Laid
  <1> QED BY <1>1, <1>2, <1>14

LEMMA FlattenLays ==
  ASSUME NEW s \in Seq(Seq(Int))
  PROVE  \E at : Laid(s, Seqs!FlattenSeq(s), at, Len(s))
  <1>1. PICK f : Prefixes(f, s, Len(s))
    BY PrefixesExist
  <1> DEFINE S == {m \in 0 .. Len(s) : \E at : Laid(s, f[m], at, m)}
  <1>2. 0 \in S
    <2>1. f[0] = <<>>
      BY <1>1 DEF Prefixes
    <2> DEFINE at == [n \in 0 .. 0 |-> 0]
    <2>2. Laid(s, <<>>, at, 0)
      BY DEF Laid
    <2> HIDE DEF at
    <2> QED BY <2>1, <2>2
  <1>3. ASSUME NEW m \in 0 .. Len(s) - 1, m \in S
        PROVE  m + 1 \in S
    <2>1. m \in Nat /\ m + 1 <= Len(s) /\ m + 1 \in 1 .. Len(s) /\ m + 1 - 1 = m
      OBVIOUS
    <2>2. PICK at : Laid(s, f[m], at, m)
      BY <1>3
    <2>3. f[m + 1] = Join(f[m], s[m + 1])
      BY <1>1, <2>1 DEF Prefixes
    <2>4. \E at2 : Laid(s, f[m + 1], at2, m + 1)
      BY <2>1, <2>2, <2>3, LayOne
    <2> QED BY <2>1, <2>4
  <1>4. Len(s) \in Nat /\ Len(s) \in 0 .. Len(s)
    OBVIOUS
  <1> HIDE DEF S
  <1>5. Len(s) \in S
    BY <1>2, <1>3, <1>4, Climb
  <1> QED BY <1>1, <1>5, FlattenIsLast DEF S

-----------------------------------------------------------------------------
(* Reading a segment back.                                                 *)

(* What is read from position i on, when g says what is read further on.   *)
Reading(w, g, i) ==
    IF i > Len(w) THEN <<>>
    ELSE IF HEX_PAIR(w, i)
         THEN <<16 * HexValue[w[i + 1]] + HexValue[w[i + 2]]>> \o g[i + 3]
         ELSE <<w[i]>> \o g[i + 1]

LEMMA ReadingSame ==
  ASSUME NEW w, NEW g, NEW h, NEW i \in Nat, Len(w) \in Nat,
         i <= Len(w) => g[i + 1] = h[i + 1],
         i + 2 <= Len(w) => g[i + 3] = h[i + 3]
  PROVE  Reading(w, g, i) = Reading(w, h, i)
  <1>1. HEX_PAIR(w, i) => i + 2 <= Len(w)
    BY DEF HEX_PAIR
  <1>2. CASE i > Len(w)
    BY <1>2 DEF Reading
  <1>3. CASE ~(i > Len(w)) /\ HEX_PAIR(w, i)
    BY <1>1, <1>3 DEF Reading
  <1>4. CASE ~(i > Len(w)) /\ ~HEX_PAIR(w, i)
    <2>1. i <= Len(w)
      BY <1>4
    <2> QED BY <1>4, <2>1 DEF Reading
  <1> QED BY <1>2, <1>3, <1>4

(* The recursion of unprojectId, which goes from the end to the front, is  *)
(* well defined.                                                           *)
LEMMA ReadingExists ==
  ASSUME NEW w, NEW L \in Nat, Len(w) = L
  PROVE  \E g : g = [i \in 1 .. L + 1 |-> Reading(w, g, i)]
  <1> DEFINE From(d) == {i \in Nat : L + 1 - d <= i /\ i <= L + 1}
             S == {d \in 0 .. L : \E g : g = [i \in From(d) |-> Reading(w, g, i)]}
  <1>1. 0 \in S
    <2> DEFINE g == [i \in From(0) |-> <<>>]
    <2>1. \A i \in From(0) : i > L
      OBVIOUS
    <2>2. \A i \in From(0) : Reading(w, g, i) = <<>>
      <3> HIDE DEF g
      <3> QED BY <2>1 DEF Reading
    <2>3. g = [i \in From(0) |-> Reading(w, g, i)]
      BY <2>2
    <2> HIDE DEF g, From
    <2>4. 0 \in 0 .. L
      OBVIOUS
    <2> QED BY <2>3, <2>4
  <1>2. ASSUME NEW d \in 0 .. L - 1, d \in S
        PROVE  d + 1 \in S
    <2>1. PICK g : g = [i \in From(d) |-> Reading(w, g, i)]
      BY <1>2
    <2>2. PICK x : x = Reading(w, g, L - d)
      OBVIOUS
    <2> DEFINE h == [i \in From(d + 1) |-> IF i = L - d THEN x ELSE g[i]]
    <2>3. /\ \A i \in From(d + 1) : i \in Nat /\ (i = L - d \/ i \in From(d))
          /\ \A i \in From(d) : i \in From(d + 1) /\ i # L - d
          /\ L - d \in From(d + 1)
      OBVIOUS
    <2>4. \A i \in From(d + 1) :
             /\ i <= L => i + 1 \in From(d)
             /\ i + 2 <= L => i + 3 \in From(d)
      OBVIOUS
    <2> HIDE DEF From
    <2>5. /\ DOMAIN h = From(d + 1) /\ h[L - d] = x
          /\ \A i \in From(d) : h[i] = g[i]
      BY <2>3
    <2>6. \A i \in From(d) : g[i] = Reading(w, g, i)
      BY <2>1
    <2> HIDE DEF h
    <2>7. ASSUME NEW i \in From(d + 1) PROVE h[i] = Reading(w, h, i)
      <3>1. /\ i <= Len(w) => h[i + 1] = g[i + 1]
            /\ i + 2 <= Len(w) => h[i + 3] = g[i + 3]
        BY <2>4, <2>5
      <3>2. Reading(w, h, i) = Reading(w, g, i)
        BY <2>3, <3>1, ReadingSame
      <3> QED BY <2>2, <2>3, <2>5, <2>6, <3>2
    <2>8. h = [i \in From(d + 1) |-> h[i]]
      BY <2>5 DEF h
    <2>9. h = [i \in From(d + 1) |-> Reading(w, h, i)]
      BY <2>7, <2>8
    <2>10. d + 1 \in 0 .. L
      OBVIOUS
    <2> QED BY <2>9, <2>10
  <1>3. L \in 0 .. L
    OBVIOUS
  <1>4. L \in S
    <2> HIDE DEF S
    <2> QED BY <1>1, <1>2, <1>3, Climb
  <1>5. From(L) = 1 .. L + 1
    OBVIOUS
  <1> HIDE DEF From
  <1> QED BY <1>4, <1>5

LEMMA Unprojects ==
  ASSUME NEW w, Len(w) \in Nat
  PROVE  \E g :
            /\ \A i \in 1 .. Len(w) + 1 : g[i] = Reading(w, g, i)
            /\ unprojectId(w) = IF IsUtf8(g[1]) THEN g[1] ELSE Malformed
  <1> DEFINE from[i \in 1 .. Len(w) + 1] ==
                IF i > Len(w) THEN <<>>
                ELSE IF HEX_PAIR(w, i)
                     THEN <<16 * HexValue[w[i + 1]] + HexValue[w[i + 2]]>>
                              \o from[i + 3]
                     ELSE <<w[i]>> \o from[i + 1]
  <1>1. unprojectId(w) = IF IsUtf8(from[1]) THEN from[1] ELSE Malformed
    BY DEF unprojectId
  <1>2. \E g : g = [i \in 1 .. Len(w) + 1 |-> Reading(w, g, i)]
    BY ReadingExists
  <1>3. from = [i \in 1 .. Len(w) + 1 |-> Reading(w, from, i)]
    BY <1>2 DEF Reading
  <1> HIDE DEF from
  <1>4. \A i \in 1 .. Len(w) + 1 : from[i] = Reading(w, from, i)
    BY <1>3
  <1> QED BY <1>1, <1>4

-----------------------------------------------------------------------------
(* An escaped byte.                                                        *)
Bytes == 0 .. 255
Escape(e, b) == <<e, HexDigit(b \div 16), HexDigit(b % 16)>>

LEMMA DigitIs ==
  \A v \in 0 .. 15 :
     /\ HexDigit(v) \in DOMAIN HexValue /\ HexDigit(v) \in Int
     /\ HexDigit(v) \in PASSTHROUGH
     /\ HexValue[HexDigit(v)] = v
  <1> SUFFICES ASSUME NEW v \in 0 .. 15
               PROVE  /\ HexDigit(v) \in DOMAIN HexValue /\ HexDigit(v) \in Int
                      /\ HexDigit(v) \in PASSTHROUGH
                      /\ HexValue[HexDigit(v)] = v
    OBVIOUS
  <1>1. CASE v < 10
    <2>1. HexDigit(v) = 48 + v /\ 48 + v \in 48 .. 57
      BY <1>1 DEF HexDigit
    <2> QED BY <2>1 DEF HexValue, PASSTHROUGH
  <1>2. CASE ~(v < 10)
    <2>1. HexDigit(v) = 55 + v /\ 55 + v \in 65 .. 70
      BY <1>2 DEF HexDigit
    <2>2. HexValue[55 + v] = (55 + v - 55) % 32
      BY <2>1 DEF HexValue
    <2>3. 55 + v - 55 = v /\ v % 32 = v
      OBVIOUS
    <2> QED BY <2>1, <2>2, <2>3 DEF HexValue, PASSTHROUGH
  <1> QED BY <1>1, <1>2

LEMMA ByteIs ==
  ASSUME NEW b \in Bytes
  PROVE  /\ b \div 16 \in 0 .. 15 /\ b % 16 \in 0 .. 15
         /\ 16 * (b \div 16) + (b % 16) = b
  <1>1. b \in Int /\ 0 <= b /\ b <= 255
    BY DEF Bytes
  <1>2. 16 * (b \div 16) + (b % 16) = b /\ b % 16 \in 0 .. 15 /\ b \div 16 \in Int
    BY <1>1
  <1>3. PICK q \in Int : q = b \div 16
    BY <1>2
  <1>4. PICK r \in Int : r = b % 16
    BY <1>2
  <1>5. q \in 0 .. 15
    BY <1>1, <1>2, <1>3, <1>4
  <1> QED BY <1>2, <1>3, <1>5

LEMMA EscapeIs ==
  ASSUME NEW b \in Bytes, NEW e \in {Tilde, Percent}
  PROVE  /\ Escape(e, b) \in Seq(Int) /\ Len(Escape(e, b)) = 3
         /\ Escape(e, b)[1] = e
         /\ {Escape(e, b)[2], Escape(e, b)[3]} \subseteq DOMAIN HexValue
         /\ {Escape(e, b)[2], Escape(e, b)[3]} \subseteq PASSTHROUGH
         /\ 16 * HexValue[Escape(e, b)[2]] + HexValue[Escape(e, b)[3]] = b
  <1>1. PICK h : h = HexDigit(b \div 16)
    OBVIOUS
  <1>2. PICK l : l = HexDigit(b % 16)
    OBVIOUS
  <1>3. {h, l} \subseteq DOMAIN HexValue \cap PASSTHROUGH \cap Int
        /\ HexValue[h] = b \div 16 /\ HexValue[l] = b % 16
    BY <1>1, <1>2, ByteIs, DigitIs
  <1>4. Escape(e, b) = <<e, h, l>> /\ e \in Int
    BY <1>1, <1>2 DEF Escape, Tilde, Percent
  <1>5. 16 * HexValue[h] + HexValue[l] = b
    BY <1>3, ByteIs
  <1>6. PICK t : t = <<e, h, l>>
    OBVIOUS
  <1>7. t \in Seq(Int) /\ Len(t) = 3 /\ t[1] = e /\ t[2] = h /\ t[3] = l
    BY <1>3, <1>4, <1>6
  <1>8. Escape(e, b) = t
    BY <1>4, <1>6
  <1>9. {t[2], t[3]} \subseteq DOMAIN HexValue /\ {t[2], t[3]} \subseteq PASSTHROUGH
    BY <1>3, <1>7
  <1>10. 16 * HexValue[t[2]] + HexValue[t[3]] = b
    BY <1>5, <1>7
  <1> QED BY <1>7, <1>8, <1>9, <1>10

-----------------------------------------------------------------------------
(* Either form of an id: byte n as it is, or escaped.                      *)
Encodes(id, s) ==
    /\ id \in Seq(Bytes) /\ s \in Seq(Seq(Int)) /\ Len(s) = Len(id)
    /\ \A n \in 1 .. Len(id) :
          \/ id[n] \in PASSTHROUGH \cup {Tilde} /\ s[n] = <<id[n]>>
          \/ /\ id[n] \notin PASSTHROUGH
             /\ \E e \in {Tilde, Percent} : s[n] = Escape(e, id[n])

(* What encodes an id is read back as it, unless a `~` that was left as it *)
(* is looks like an escape.                                                *)
LEMMA EncodedComesBack ==
  ASSUME NEW id, NEW s, Encodes(id, s), NEW w, NEW at, Laid(s, w, at, Len(s)),
         \A n \in 1 .. Len(id) :
            s[n] = <<id[n]>> => ~HEX_PAIR(w, at[n - 1] + 1),
         IsUtf8(id)
  PROVE  unprojectId(w) = id
  <1>a. Len(w) \in Nat
    BY DEF Laid
  <1>b. PICK g : /\ \A i \in 1 .. Len(w) + 1 : g[i] = Reading(w, g, i)
                 /\ unprojectId(w) = IF IsUtf8(g[1]) THEN g[1] ELSE Malformed
    BY <1>a, Unprojects
  <1>1. PICK N : N = Len(id)
    OBVIOUS
  <1>2. PICK L : L = Len(w)
    OBVIOUS
  <1>3. N \in Nat /\ L \in Nat /\ Len(s) = N /\ id \in Seq(Bytes)
    BY <1>1, <1>2, LenProperties DEF Encodes, Laid
  <1>4. /\ \A n \in 0 .. N : at[n] \in Nat /\ at[n] <= L
        /\ at[0] = 0 /\ at[N] = L
    BY <1>2, <1>3 DEF Laid
  <1> DEFINE Back(n) == g[at[n] + 1] = SubSeq(id, n + 1, N)
             S == {d \in 0 .. N : Back(N - d)}
  <1>5. 0 \in S
    <2>1. g[L + 1] = Reading(w, g, L + 1)
      BY <1>b, <1>2, <1>3
    <2>2. Reading(w, g, L + 1) = <<>>
      BY <1>2, <1>3 DEF Reading
    <2>3. SubSeq(id, N + 1, N) = <<>>
      BY <1>3, SubSeqEmpty
    <2>4. N - 0 = N /\ 0 \in 0 .. N
      BY <1>3
    <2>5. Back(N)
      BY <1>4, <2>1, <2>2, <2>3
    <2> HIDE DEF Back
    <2> QED BY <2>4, <2>5
  <1>6. ASSUME NEW d \in 0 .. N - 1, d \in S
        PROVE  d + 1 \in S
    <2>1. PICK n : n = N - d
      OBVIOUS
    <2>2. n \in 1 .. N /\ n - 1 \in 0 .. N /\ n \in 0 .. N
          /\ N - (d + 1) = n - 1 /\ d + 1 \in 0 .. N
      BY <1>3, <2>1
    <2>3. g[at[n] + 1] = SubSeq(id, n + 1, N)
      BY <1>6, <2>1
    <2>4. PICK p \in Nat : p = at[n - 1]
      BY <1>4, <2>2
    <2>5. /\ at[n] \in Nat /\ at[n] <= L
          /\ at[n] = p + Len(s[n])
          /\ \A k \in 1 .. Len(s[n]) : w[p + k] = s[n][k]
      BY <1>3, <1>4, <2>2, <2>4 DEF Laid
    <2>6. SubSeq(id, n, N) = <<id[n]>> \o SubSeq(id, n + 1, N)
      <3>1. N \in n .. Len(id) /\ n \in 1 .. Len(id)
        BY <1>1, <1>3, <2>2
      <3> QED BY <1>3, <3>1, SubSeqRecursiveFirst
    <2>7. id[n] \in Bytes
      BY <1>1, <1>3, <2>2
    <2>8. g[p + 1] = SubSeq(id, n, N)
      <3>1. CASE s[n] = <<id[n]>>
        <4>1. Len(s[n]) = 1 /\ s[n][1] = id[n]
          BY <3>1
        <4>2. at[n] = p + 1 /\ w[p + 1] = id[n]
          BY <2>5, <4>1
        <4>3. p + 1 \in 1 .. L + 1 /\ ~(p + 1 > L) /\ p + 1 + 1 = p + 2
          BY <1>3, <2>5, <4>2
        <4>4. ~HEX_PAIR(w, p + 1)
          BY <1>1, <2>2, <2>4, <3>1
        <4>5. Reading(w, g, p + 1) = <<w[p + 1]>> \o g[p + 1 + 1]
          BY <1>2, <4>3, <4>4 DEF Reading
        <4>6. g[p + 1 + 1] = SubSeq(id, n + 1, N)
          BY <2>3, <4>2
        <4> QED BY <1>b, <1>2, <2>6, <4>2, <4>3, <4>5, <4>6
      <3>2. CASE s[n] # <<id[n]>>
        <4>1. PICK e \in {Tilde, Percent} : s[n] = Escape(e, id[n])
          BY <1>1, <2>2, <3>2 DEF Encodes
        <4>2. PICK t : t = s[n]
          OBVIOUS
        <4>3. /\ Len(t) = 3 /\ t[1] = e /\ {t[2], t[3]} \subseteq DOMAIN HexValue
              /\ 16 * HexValue[t[2]] + HexValue[t[3]] = id[n]
          BY <2>7, <4>1, <4>2, EscapeIs
        <4>4. at[n] = p + 3 /\ w[p + 1] = t[1] /\ w[p + 2] = t[2] /\ w[p + 3] = t[3]
          BY <2>5, <4>2, <4>3
        <4>5. /\ p + 1 \in 1 .. L + 1 /\ ~(p + 1 > L) /\ p + 3 <= L
              /\ p + 1 + 1 = p + 2 /\ p + 1 + 2 = p + 3 /\ p + 1 + 3 = p + 3 + 1
          BY <1>3, <2>5, <4>4
        <4>6. HEX_PAIR(w, p + 1)
          BY <1>2, <4>3, <4>4, <4>5 DEF HEX_PAIR
        <4>7. Reading(w, g, p + 1) =
                <<16 * HexValue[w[p + 1 + 1]] + HexValue[w[p + 1 + 2]]>>
                    \o g[p + 1 + 3]
          BY <1>2, <4>5, <4>6 DEF Reading
        <4>8. g[p + 1 + 3] = SubSeq(id, n + 1, N)
          BY <2>3, <4>4, <4>5
        <4>9. 16 * HexValue[w[p + 1 + 1]] + HexValue[w[p + 1 + 2]] = id[n]
          BY <4>3, <4>4, <4>5
        <4> QED BY <1>b, <1>2, <2>6, <4>5, <4>7, <4>8, <4>9
      <3> QED BY <3>1, <3>2
    <2>9. Back(n - 1)
      <3>1. n - 1 + 1 = n
        BY <2>2
      <3> QED BY <2>4, <2>8, <3>1
    <2> HIDE DEF Back
    <2> QED BY <2>2, <2>9
  <1>7. N \in S
    <2>1. N \in 0 .. N
      BY <1>3
    <2> HIDE DEF S
    <2> QED BY <1>3, <1>5, <1>6, <2>1, Climb
  <1>8. Back(0)
    <2>1. N - N = 0
      BY <1>3
    <2> HIDE DEF Back
    <2> QED BY <1>7, <2>1
  <1>9. g[1] = id
    BY <1>1, <1>3, <1>4, <1>8, SubSeqFull
  <1> QED BY <1>b, <1>9

(* What encodes an id that holds a `/` has none, but an escaped one.       *)
LEMMA EncodesToWireForm ==
  ASSUME NEW id, NEW s, Encodes(id, s), NEW w, NEW at, Laid(s, w, at, Len(s)),
         NEW m \in 1 .. Len(id), id[m] = Slash
  PROVE  IsWireForm(w)
  <1>1. /\ Len(s) = Len(id) /\ w \in Seq(Int)
        /\ \A n \in 1 .. Len(id) : id[n] \in Bytes
    BY DEF Encodes, Laid
  <1>2. Slash \notin PASSTHROUGH \cup {Tilde} /\ Slash # Percent
    BY DEF Slash, PASSTHROUGH, Tilde, Percent
  <1>3. ASSUME NEW n \in 1 .. Len(id), NEW k \in 1 .. Len(s[n])
        PROVE  s[n][k] # Slash
    <2>1. CASE id[n] \in PASSTHROUGH \cup {Tilde} /\ s[n] = <<id[n]>>
      <3>1. Len(s[n]) = 1 /\ s[n][1] = id[n]
        BY <2>1
      <3>2. k = 1
        BY <3>1
      <3> QED BY <1>2, <2>1, <3>1, <3>2
    <2>2. CASE \E e \in {Tilde, Percent} : s[n] = Escape(e, id[n])
      <3>1. PICK e \in {Tilde, Percent} : s[n] = Escape(e, id[n])
        BY <2>2
      <3>2. PICK t : t = s[n]
        OBVIOUS
      <3>3. Len(t) = 3 /\ t[1] = e /\ t[2] \in PASSTHROUGH /\ t[3] \in PASSTHROUGH
        <4>1. id[n] \in Bytes
          BY <1>1
        <4> QED BY <3>1, <3>2, <4>1, EscapeIs
      <3>4. k \in {1, 2, 3}
        BY <3>2, <3>3
      <3>5. e # Slash
        BY <1>2
      <3> QED BY <1>2, <3>2, <3>3, <3>4, <3>5
    <2> QED BY <2>1, <2>2 DEF Encodes
  <1>4. Slash \notin Seqs!ToSet(w)
    <2> SUFFICES ASSUME NEW j \in DOMAIN w PROVE w[j] # Slash
      BY DEF Seqs!ToSet
    <2>1. j \in 1 .. Len(w)
      BY <1>1, LenProperties
    <2>2. PICK n \in 1 .. Len(s) : at[n - 1] < j /\ j <= at[n]
      BY <2>1 DEF Laid
    <2>3. n - 1 \in 0 .. Len(s)
      BY <2>2
    <2>4. PICK p \in Nat : p = at[n - 1]
      BY <2>3 DEF Laid
    <2>5. PICK l \in Nat : l = Len(s[n])
      BY <2>2, LenProperties DEF Encodes
    <2>a. /\ at[n] = at[n - 1] + Len(s[n])
          /\ \A k \in 1 .. Len(s[n]) : w[at[n - 1] + k] = s[n][k]
      BY DEF Laid
    <2>6. at[n] = p + l /\ \A k \in 1 .. l : w[p + k] = s[n][k]
      BY <2>4, <2>5, <2>a
    <2>b. j \in Int /\ p < j /\ j <= p + l
      BY <2>1, <2>2, <2>4, <2>6
    <2>7. j - p \in 1 .. l /\ p + (j - p) = j
      BY <2>b, Within
    <2>8. w[j] = s[n][j - p]
      BY <2>6, <2>7
    <2> QED BY <1>1, <1>3, <2>2, <2>5, <2>7, <2>8
  <1>5. PICK e \in {Tilde, Percent} : s[m] = Escape(e, Slash)
    BY <1>2 DEF Encodes
  <1>6. Escape(e, Slash) = <<e, 50, 70>>
    <2>1. 47 \div 16 = 2 /\ 47 % 16 = 15
      OBVIOUS
    <2>2. HexDigit(2) = 50 /\ HexDigit(15) = 70
      BY DEF HexDigit
    <2> QED BY <2>1, <2>2 DEF Escape, Slash
  <1>7. PICK t : t = s[m]
    OBVIOUS
  <1>8. Len(t) = 3 /\ t[1] = e /\ t[2] = 50 /\ t[3] = 70
    BY <1>5, <1>6, <1>7
  <1>9. m - 1 \in 0 .. Len(s) /\ m \in 0 .. Len(s) /\ m \in 1 .. Len(s)
    BY <1>1
  <1>10. PICK p \in Nat : p = at[m - 1]
    BY <1>9 DEF Laid
  <1>11. /\ at[m] = p + 3 /\ at[m] <= Len(w)
         /\ \A k \in 1 .. 3 : w[p + k] = t[k]
    BY <1>7, <1>8, <1>9, <1>10 DEF Laid
  <1>12. w[p + 1] = e /\ w[p + 2] = 50 /\ w[p + 3] = 70
    BY <1>8, <1>11
  <1>13. /\ p + 1 + 1 = p + 2 /\ p + 1 + 2 = p + 3 /\ p + 3 <= Len(w)
         /\ p + 1 \in 1 .. Len(w)
    BY <1>1, <1>11
  <1>14. {50, 70} \subseteq DOMAIN HexValue
    BY DEF HexValue
  <1>15. HEX_PAIR(w, p + 1)
    BY <1>12, <1>13, <1>14 DEF HEX_PAIR
  <1>16. p + 1 \in DOMAIN w
    BY <1>1, <1>13, LenProperties
  <1>17. PICK i : i = p + 1
    OBVIOUS
  <1>18. w[i + 1] = 50 /\ w[i + 2] = 70
    BY <1>12, <1>13, <1>17
  <1>19. HEX_PAIR(w, i) /\ i \in DOMAIN w
    BY <1>15, <1>16, <1>17
  <1> QED BY <1>4, <1>18, <1>19 DEF IsWireForm

-----------------------------------------------------------------------------
(* The ids: all of them, and those WireId gives to TLC.                    *)
TenantBound ==
    {id \in Seq(Bytes) : IsUtf8(id) /\ \E m \in 1 .. Len(id) : id[m] = Slash}

LEMMA BoundIdIs ==
  ASSUME NEW id \in BoundIds
  PROVE  id \in TenantBound
  <1>1. PICK t \in Seqs!BoundedSeq(Characters, IdLength) :
           id = Seqs!FlattenSeq(t) /\ <<Slash>> \in Seqs!ToSet(t)
    BY DEF BoundIds
  <1>2. t \in Seq(Characters)
    BY <1>1 DEF Seqs!BoundedSeq, Seqs!SeqOf
  <1>3. \A c \in Characters :
           /\ c \in Seq(Int)
           /\ \/ /\ Len(c) = 1 /\ c[1] \in 0 .. 127
              \/ Len(c) = 2 /\ c[1] = 195 /\ c[2] = 169
    <2> DEFINE Single(x) == /\ <<x>> \in Seq(Int) /\ Len(<<x>>) = 1
                            /\ <<x>>[1] \in 0 .. 127
    <2>1. \A x \in 0 .. 127 : Single(x)
      OBVIOUS
    <2>c. PICK c : c = <<195, 169>>
      OBVIOUS
    <2>2. c \in Seq(Int) /\ Len(c) = 2 /\ c[1] = 195 /\ c[2] = 169
      BY <2>c
    <2>3. {114, 50, 70, Slash, Tilde, Percent} \subseteq 0 .. 127
      BY DEF Slash, Tilde, Percent
    <2>4. \A d \in Characters :
             d = c \/ \E x \in {114, 50, 70, Slash, Tilde, Percent} : d = <<x>>
      BY <2>c DEF Characters
    <2>5. ASSUME NEW d \in Characters
          PROVE  /\ d \in Seq(Int)
                 /\ \/ Len(d) = 1 /\ d[1] \in 0 .. 127
                    \/ Len(d) = 2 /\ d[1] = 195 /\ d[2] = 169
      <3>1. CASE d = c
        BY <2>2, <3>1
      <3>2. CASE \E x \in 0 .. 127 : d = <<x>>
        BY <2>1, <3>2
      <3>3. d = c \/ \E x \in 0 .. 127 : d = <<x>>
        BY Zenon, <2>3, <2>4
      <3> QED BY Zenon, <3>1, <3>2, <3>3
    <2> QED BY <2>5
  <1>4. t \in Seq(Seq(Int))
    <2>1. Characters \subseteq Seq(Int)
      BY <1>3
    <2> QED BY <1>2, <2>1, SeqMonotonic
  <1>5. PICK at : Laid(t, id, at, Len(t))
    BY <1>1, <1>4, FlattenLays
  <1>6. /\ id \in Seq(Int) /\ Len(id) \in Nat /\ Len(t) \in Nat
        /\ DOMAIN id = 1 .. Len(id)
    BY <1>4, <1>5, LenProperties DEF Laid
  <1> DEFINE Fits(j) == \/ id[j] \in 0 .. 127
                        \/ id[j] = 195 /\ j < Len(id) /\ id[j + 1] = 169
                        \/ id[j] = 169 /\ j > 1 /\ id[j - 1] = 195
  <1>7. ASSUME NEW j \in 1 .. Len(id)
        PROVE  Fits(j)
    <2>1. PICK n \in 1 .. Len(t) : at[n - 1] < j /\ j <= at[n]
      BY <1>5 DEF Laid
    <2>2. n - 1 \in 0 .. Len(t) /\ n \in 0 .. Len(t)
      BY <2>1
    <2>3. PICK p \in Nat : p = at[n - 1]
      BY <1>5, <2>2 DEF Laid
    <2>4. PICK c \in Characters : c = t[n]
      BY <1>2
    <2>5. /\ at[n] = p + Len(c) /\ at[n] <= Len(id)
          /\ \A k \in 1 .. Len(c) : id[p + k] = c[k]
      BY <1>5, <2>2, <2>3, <2>4 DEF Laid
    <2>6. CASE Len(c) = 1 /\ c[1] \in 0 .. 127
      <3>1. id[p + 1] = c[1] /\ at[n] = p + 1
        BY <2>5, <2>6
      <3>2. j = p + 1
        BY <2>1, <2>3, <3>1
      <3> QED BY <2>6, <3>1, <3>2
    <2>7. CASE Len(c) = 2 /\ c[1] = 195 /\ c[2] = 169
      <3>1. id[p + 1] = 195 /\ id[p + 2] = 169 /\ at[n] = p + 2
        BY <2>5, <2>7
      <3>2. j = p + 1 \/ j = p + 2
        BY <2>1, <2>3, <3>1
      <3>3. CASE j = p + 1
        <4>1. j + 1 = p + 2 /\ j < Len(id)
          BY <1>6, <2>5, <3>1, <3>3
        <4> QED BY <3>1, <3>3, <4>1
      <3>4. CASE j = p + 2
        <4>1. j - 1 = p + 1 /\ j > 1
          BY <3>4
        <4> QED BY <3>1, <3>4, <4>1
      <3> QED BY <3>2, <3>3, <3>4
    <2> QED BY <1>3, <2>6, <2>7
  <1>8. id \in Seq(Bytes)
    <2>1. \A j \in 1 .. Len(id) : id[j] \in Bytes
      BY <1>7 DEF Bytes
    <2> QED BY <1>6, <2>1
  <1>9. IsUtf8(id)
    <2>1. ASSUME NEW j \in DOMAIN id
          PROVE  /\ id[j] < 128 \/ id[j] \in 194 .. 223 \/ id[j] \in 128 .. 191
                 /\ id[j] \in 194 .. 223 =>
                        j < Len(id) /\ id[j + 1] \in 128 .. 191
                 /\ id[j] \in 128 .. 191 => j > 1 /\ id[j - 1] \in 194 .. 223
      <3>1. j \in 1 .. Len(id)
        BY <1>6
      <3>2. CASE id[j] \in 0 .. 127
        <4>1. PICK b \in 0 .. 127 : b = id[j]
          BY <3>2
        <4>2. b < 128 /\ b \notin 194 .. 223 /\ b \notin 128 .. 191
          BY <4>1
        <4> QED BY <4>1, <4>2
      <3>3. CASE id[j] = 195 /\ j < Len(id) /\ id[j + 1] = 169
        BY <3>3
      <3>4. CASE id[j] = 169 /\ j > 1 /\ id[j - 1] = 195
        BY <3>4
      <3>5. Fits(j)
        <4> HIDE DEF Fits
        <4> QED BY <1>7, <3>1
      <3> QED BY Zenon, <3>2, <3>3, <3>4, <3>5
    <2> QED BY <2>1 DEF IsUtf8
  <1>10. \E m \in 1 .. Len(id) : id[m] = Slash
    <2>1. PICK n \in 1 .. Len(t) : t[n] = <<Slash>>
      BY <1>1, <1>4, LenProperties DEF Seqs!ToSet
    <2>2. Len(t[n]) = 1 /\ t[n][1] = Slash
      BY <2>1
    <2>3. n - 1 \in 0 .. Len(t) /\ n \in 0 .. Len(t)
      BY <2>1
    <2>4. PICK p \in Nat : p = at[n - 1]
      BY <1>5, <2>3 DEF Laid
    <2>5. /\ at[n] = at[n - 1] + Len(t[n]) /\ at[n] <= Len(id)
          /\ \A k \in 1 .. Len(t[n]) : id[at[n - 1] + k] = t[n][k]
      BY <1>5, <2>3 DEF Laid
    <2>7. at[n] = p + 1 /\ id[p + 1] = Slash
      BY <2>2, <2>4, <2>5
    <2>6. p + 1 \in 1 .. Len(id)
      BY <1>6, <2>5, <2>7
    <2> QED BY <2>6, <2>7
  <1> QED BY <1>8, <1>9, <1>10 DEF TenantBound

-----------------------------------------------------------------------------
(* The two forms a link may have.                                          *)
Projected(id)  == [i \in DOMAIN id |-> ProjectByte(id[i])]
FromLink(id)   == [i \in DOMAIN id |->
                      IF id[i] \in PASSTHROUGH \cup {Tilde} THEN <<id[i]>>
                      ELSE <<Percent>> \o Tail(ProjectByte(id[i]))]
HasOwnEscape(id) == \E i \in DOMAIN id : HEX_PAIR(id, i) /\ id[i] = Tilde

LEMMA ProjectedEncodes ==
  ASSUME NEW id \in Seq(Bytes)
  PROVE  /\ Encodes(id, Projected(id))
         /\ \A n \in 1 .. Len(id) :
               Projected(id)[n] = <<id[n]>> => id[n] \in PASSTHROUGH
  <1>1. /\ Len(id) \in Nat /\ DOMAIN id = 1 .. Len(id)
        /\ \A n \in 1 .. Len(id) : id[n] \in Bytes
    BY LenProperties
  <1>2. ASSUME NEW n \in 1 .. Len(id)
        PROVE  /\ Projected(id)[n] = ProjectByte(id[n])
               /\ ProjectByte(id[n]) \in Seq(Int)
               /\ \/ id[n] \in PASSTHROUGH /\ ProjectByte(id[n]) = <<id[n]>>
                  \/ /\ id[n] \notin PASSTHROUGH
                     /\ ProjectByte(id[n]) = Escape(Tilde, id[n])
                     /\ Len(ProjectByte(id[n])) = 3
    <2>1. Projected(id)[n] = ProjectByte(id[n])
      BY <1>1 DEF Projected
    <2>2. PICK b \in Bytes : b = id[n]
      BY <1>1
    <2>3. CASE b \in PASSTHROUGH
      <3>1. ProjectByte(b) = <<b>>
        BY <2>3 DEF ProjectByte
      <3>2. <<b>> \in Seq(Int)
        BY DEF Bytes
      <3> QED BY <2>1, <2>2, <2>3, <3>1, <3>2
    <2>4. CASE b \notin PASSTHROUGH
      <3>1. ProjectByte(b) = Escape(Tilde, b)
        BY <2>4 DEF ProjectByte, Escape
      <3> QED BY <2>1, <2>2, <2>4, <3>1, EscapeIs
    <2> QED BY <2>3, <2>4
  <1>3. PICK s : s = Projected(id)
    OBVIOUS
  <1>4. DOMAIN s = 1 .. Len(id) /\ \A n \in 1 .. Len(id) : s[n] \in Seq(Int)
    BY <1>1, <1>2, <1>3 DEF Projected
  <1>5. s \in Seq(Seq(Int)) /\ Len(s) = Len(id)
    <2>1. s \in [1 .. Len(id) -> Seq(Int)]
      BY <1>1, <1>2, <1>3 DEF Projected
    <2> QED BY <1>1, <2>1
  <1>6. Encodes(id, s)
    BY <1>2, <1>3, <1>5 DEF Encodes
  <1>7. \A n \in 1 .. Len(id) : s[n] = <<id[n]>> => id[n] \in PASSTHROUGH
    <2> SUFFICES ASSUME NEW n \in 1 .. Len(id), s[n] = <<id[n]>>,
                        id[n] \notin PASSTHROUGH
                 PROVE  FALSE
      OBVIOUS
    <2>1. s[n] = ProjectByte(id[n]) /\ Len(ProjectByte(id[n])) = 3
      BY <1>2, <1>3
    <2>2. Len(s[n]) = 3 /\ Len(<<id[n]>>) = 1
      BY <2>1
    <2>3. Len(s[n]) = Len(<<id[n]>>)
      OBVIOUS
    <2> QED BY <2>2, <2>3
  <1> QED BY <1>3, <1>6, <1>7

LEMMA OtherEscape ==
  \A d, e, h, l \in Int : <<e>> \o Tail(<<d, h, l>>) = <<e, h, l>>
  <1> SUFFICES ASSUME NEW d \in Int, NEW e \in Int, NEW h \in Int, NEW l \in Int
               PROVE  <<e>> \o Tail(<<d, h, l>>) = <<e, h, l>>
    OBVIOUS
  <1>1. PICK t : t = <<d, h, l>>
    OBVIOUS
  <1>2. t \in Seq(Int) /\ Len(t) = 3 /\ t # <<>> /\ t[2] = h /\ t[3] = l
    BY <1>1
  <1>3. PICK u : u = Tail(t)
    OBVIOUS
  <1>4. /\ u \in Seq(Int) /\ Len(u) = Len(t) - 1
        /\ \A i \in 1 .. Len(u) : u[i] = t[i + 1]
    <2>1. t \in Seq(Int) /\ t # <<>>
      BY <1>2
    <2> QED BY Zenon, <1>3, <2>1, HeadTailProperties
  <1>5. Len(u) = 2 /\ u[1] = h /\ u[2] = l
    <2>1. Len(u) = 2
      BY <1>2, <1>4
    <2>2. 1 \in 1 .. Len(u) /\ 2 \in 1 .. Len(u)
      BY <2>1
    <2>3. u[1] = t[1 + 1] /\ u[2] = t[2 + 1]
      BY Zenon, <1>4, <2>2
    <2>4. 1 + 1 = 2 /\ 2 + 1 = 3
      OBVIOUS
    <2> QED BY <1>2, <2>1, <2>3, <2>4
  <1>6. PICK o : o = <<e>>
    OBVIOUS
  <1>7. o \in Seq(Int) /\ Len(o) = 1 /\ o[1] = e
    BY <1>6
  <1>8. PICK v : v = Join(o, u)
    OBVIOUS
  <1>9. /\ v \in Seq(Int) /\ Len(v) = Len(o) + Len(u)
        /\ \A k \in 1 .. Len(o) : v[k] = o[k]
        /\ \A k \in 1 .. Len(u) : v[Len(o) + k] = u[k]
    BY Zenon, <1>4, <1>7, <1>8, JoinIs
  <1>10. Len(v) = 3 /\ v[1] = e /\ v[2] = h /\ v[3] = l
    <2>1. Len(v) = 3 /\ v[1] = o[1]
      BY <1>5, <1>7, <1>9
    <2>2. v[1 + 1] = u[1] /\ v[1 + 2] = u[2]
      BY <1>5, <1>7, <1>9
    <2> QED BY <1>5, <1>7, <2>1, <2>2
  <1>11. PICK x : x = <<e, h, l>>
    OBVIOUS
  <1>12. x \in Seq(Int) /\ Len(x) = 3 /\ x[1] = e /\ x[2] = h /\ x[3] = l
    BY <1>11
  <1>13. \A i \in 1 .. 3 : i = 1 \/ i = 2 \/ i = 3
    OBVIOUS
  <1>14. \A i \in 1 .. 3 : v[i] = x[i]
    BY <1>10, <1>12, <1>13
  <1>15. v = x
    <2>1. Len(v) = Len(x) /\ \A i \in 1 .. Len(v) : v[i] = x[i]
      BY <1>10, <1>12, <1>14
    <2> QED BY Zenon, <1>9, <1>12, <2>1, SeqEqual
  <1> QED BY <1>1, <1>3, <1>6, <1>8, <1>11, <1>15 DEF Join

LEMMA FromLinkEncodes ==
  ASSUME NEW id \in Seq(Bytes)
  PROVE  /\ Encodes(id, FromLink(id))
         /\ \A n \in 1 .. Len(id) :
               \/ id[n] \in PASSTHROUGH \cup {Tilde} /\ FromLink(id)[n] = <<id[n]>>
               \/ FromLink(id)[n] = Escape(Percent, id[n])
  <1>1. /\ Len(id) \in Nat /\ DOMAIN id = 1 .. Len(id)
        /\ \A n \in 1 .. Len(id) : id[n] \in Bytes
    BY LenProperties
  <1>2. ASSUME NEW n \in 1 .. Len(id)
        PROVE  /\ FromLink(id)[n] \in Seq(Int)
               /\ \/ /\ id[n] \in PASSTHROUGH \cup {Tilde}
                     /\ FromLink(id)[n] = <<id[n]>>
                  \/ /\ id[n] \notin PASSTHROUGH
                     /\ FromLink(id)[n] = Escape(Percent, id[n])
    <2>1. PICK b \in Bytes : b = id[n]
      BY <1>1
    <2>2. FromLink(id)[n] = IF b \in PASSTHROUGH \cup {Tilde} THEN <<b>>
                            ELSE <<Percent>> \o Tail(ProjectByte(b))
      BY <1>1, <2>1 DEF FromLink
    <2>3. CASE b \in PASSTHROUGH \cup {Tilde}
      <3>1. <<b>> \in Seq(Int)
        BY DEF Bytes
      <3> QED BY <2>1, <2>2, <2>3, <3>1
    <2>4. CASE b \notin PASSTHROUGH \cup {Tilde}
      <3>1. PICK h : h = HexDigit(b \div 16)
        OBVIOUS
      <3>2. PICK l : l = HexDigit(b % 16)
        OBVIOUS
      <3>3. h \in Int /\ l \in Int
        BY <3>1, <3>2, ByteIs, DigitIs
      <3>4. ProjectByte(b) = <<Tilde, h, l>> /\ Escape(Percent, b) = <<Percent, h, l>>
        BY <2>4, <3>1, <3>2 DEF ProjectByte, Escape
      <3>5. <<Percent>> \o Tail(<<Tilde, h, l>>) = <<Percent, h, l>>
        BY <3>3, OtherEscape DEF Percent, Tilde
      <3>6. Escape(Percent, b) \in Seq(Int)
        BY EscapeIs
      <3> QED BY <2>1, <2>2, <2>4, <3>4, <3>5, <3>6
    <2> QED BY <2>3, <2>4
  <1>3. PICK s : s = FromLink(id)
    OBVIOUS
  <1>5. s \in Seq(Seq(Int)) /\ Len(s) = Len(id)
    <2>1. s \in [1 .. Len(id) -> Seq(Int)]
      BY <1>1, <1>2, <1>3 DEF FromLink
    <2> QED BY <1>1, <2>1
  <1>6. Encodes(id, s)
    BY <1>2, <1>3, <1>5 DEF Encodes
  <1> QED BY <1>2, <1>3, <1>6

LEMMA NotMalformed ==
  ASSUME NEW id \in Seq(Bytes)
  PROVE  id # Malformed
  <1> SUFFICES ASSUME id = Malformed PROVE FALSE
    OBVIOUS
  <1>1. Len(Malformed) = 1 /\ Malformed[1] = -1
    BY DEF Malformed
  <1>2. 1 \in 1 .. Len(id)
    BY <1>1
  <1>3. id[1] \in Bytes
    BY <1>2, ElementOfSeq
  <1> QED BY <1>1, <1>3 DEF Bytes

(* projectId of an id that holds a `/`, and of a segment read back as one. *)
LEMMA ProjectOfId ==
  ASSUME NEW id \in Seq(Bytes), NEW m \in 1 .. Len(id), id[m] = Slash
  PROVE  projectId(id) = Seqs!FlattenSeq(Projected(id))
  <1>1. Slash \in Seqs!ToSet(id)
    BY LenProperties DEF Seqs!ToSet
  <1>2. ~IsWireForm(id)
    BY <1>1 DEF IsWireForm
  <1> QED BY <1>2, NotMalformed DEF projectId, Projected

LEMMA ProjectOfWire ==
  ASSUME NEW w, IsWireForm(w), NEW id \in Seq(Bytes), unprojectId(w) = id
  PROVE  projectId(w) = Seqs!FlattenSeq(Projected(id))
  BY NotMalformed DEF projectId, Projected

(* An id's projection is one segment that stands for it.                   *)
LEMMA ProjectionStands ==
  ASSUME NEW id \in TenantBound
  PROVE  unprojectId(projectId(id)) = id /\ IsWireForm(projectId(id))
  <1>1. id \in Seq(Bytes) /\ IsUtf8(id)
    BY DEF TenantBound
  <1>2. PICK m \in 1 .. Len(id) : id[m] = Slash
    BY DEF TenantBound
  <1>3. PICK s : s = Projected(id)
    OBVIOUS
  <1>4. /\ Encodes(id, s)
        /\ \A n \in 1 .. Len(id) : s[n] = <<id[n]>> => id[n] \in PASSTHROUGH
    BY <1>1, <1>3, ProjectedEncodes
  <1>5. PICK w : w = Seqs!FlattenSeq(s)
    OBVIOUS
  <1>6. projectId(id) = w
    BY <1>1, <1>2, <1>3, <1>5, ProjectOfId
  <1>7. PICK at : Laid(s, w, at, Len(s))
    BY <1>4, <1>5, FlattenLays DEF Encodes
  <1>8. IsWireForm(w)
    BY <1>2, <1>4, <1>7, EncodesToWireForm
  <1>9. ASSUME NEW n \in 1 .. Len(id), s[n] = <<id[n]>>
        PROVE  ~HEX_PAIR(w, at[n - 1] + 1)
    <2>0. Tilde \notin PASSTHROUGH /\ Percent \notin PASSTHROUGH
      BY DEF PASSTHROUGH, Tilde, Percent
    <2>1. id[n] \notin {Tilde, Percent}
      BY <1>4, <1>9, <2>0
    <2>2. n \in 1 .. Len(s) /\ Len(s[n]) = 1 /\ s[n][1] = id[n]
      BY <1>4, <1>9 DEF Encodes
    <2>3. \A k \in 1 .. Len(s[n]) : w[at[n - 1] + k] = s[n][k]
      BY <1>7, <2>2 DEF Laid
    <2>4. w[at[n - 1] + 1] = id[n]
      BY <2>2, <2>3
    <2> QED BY <2>1, <2>4 DEF HEX_PAIR
  <1>10. unprojectId(w) = id
    BY <1>1, <1>4, <1>7, <1>9, EncodedComesBack
  <1> QED BY <1>6, <1>8, <1>10

(* In an old link a hexadecimal digit at the start of a piece is a byte    *)
(* that was left as it is.                                                 *)
LEMMA DigitWasKept ==
  ASSUME NEW id \in Seq(Bytes), NEW w, NEW at,
         Laid(FromLink(id), w, at, Len(id)), NEW n \in 0 .. Len(id),
         at[n] + 1 <= Len(w), w[at[n] + 1] \in DOMAIN HexValue
  PROVE  /\ n + 1 \in 1 .. Len(id) /\ at[n + 1] = at[n] + 1
         /\ id[n + 1] = w[at[n] + 1]
  <1>1. PICK N \in Nat : N = Len(id)
    BY LenProperties
  <1>2. PICK s : s = FromLink(id)
    OBVIOUS
  <1>3. PICK p \in Nat : p = at[n]
    BY DEF Laid
  <1>4. n \in 0 .. N /\ p + 1 <= Len(w) /\ at[N] = Len(w)
    BY <1>1, <1>3 DEF Laid
  <1>5. n # N
    BY <1>3, <1>4
  <1>6. n + 1 \in 1 .. N /\ n + 1 - 1 = n
    BY <1>4, <1>5
  <1>7. /\ at[n + 1] = p + Len(s[n + 1])
        /\ \A k \in 1 .. Len(s[n + 1]) : w[p + k] = s[n + 1][k]
    <2>1. PICK q : q = n + 1
      OBVIOUS
    <2>2. q \in 1 .. Len(id) /\ q - 1 = n
      BY <1>1, <1>6, <2>1
    <2>3. /\ at[q] = at[q - 1] + Len(s[q])
          /\ \A k \in 1 .. Len(s[q]) : w[at[q - 1] + k] = s[q][k]
      BY <1>2, <2>2 DEF Laid
    <2> QED BY <1>3, <2>1, <2>2, <2>3
  <1>8. PICK t : t = s[n + 1]
    OBVIOUS
  <1>9. CASE t = <<id[n + 1]>>
    <2>1. Len(t) = 1 /\ t[1] = id[n + 1]
      BY <1>9
    <2> QED BY <1>1, <1>3, <1>6, <1>7, <1>8, <2>1
  <1>10. CASE t = Escape(Percent, id[n + 1])
    <2>1. id[n + 1] \in Bytes
      BY <1>1, <1>6, ElementOfSeq
    <2>2. Len(t) = 3 /\ t[1] = Percent
      BY <1>10, <2>1, EscapeIs
    <2>3. w[p + 1] = Percent
      BY <1>7, <1>8, <2>2
    <2>4. Percent \notin DOMAIN HexValue
      BY DEF Percent, HexValue
    <2> QED BY <1>3, <2>3, <2>4
  <1> QED BY <1>1, <1>2, <1>6, <1>8, <1>9, <1>10, FromLinkEncodes

(* An old link stands for the id, too, unless the id itself holds          *)
(* something that looks like an escape.                                    *)
LEMMA LinkStands ==
  ASSUME NEW id \in TenantBound, ~HasOwnEscape(id)
  PROVE  unprojectId(PercentEncoded(id)) = id /\ IsWireForm(PercentEncoded(id))
  <1>1. id \in Seq(Bytes) /\ IsUtf8(id)
    BY DEF TenantBound
  <1>2. PICK m \in 1 .. Len(id) : id[m] = Slash
    BY DEF TenantBound
  <1>3. PICK s : s = FromLink(id)
    OBVIOUS
  <1>4. Encodes(id, s) /\ Len(s) = Len(id) /\ s \in Seq(Seq(Int))
    BY <1>1, <1>3, FromLinkEncodes DEF Encodes
  <1>5. PICK w : w = Seqs!FlattenSeq(s)
    OBVIOUS
  <1>6. PercentEncoded(id) = w
    BY <1>3, <1>5 DEF PercentEncoded, FromLink
  <1>7. PICK at : Laid(s, w, at, Len(s))
    BY <1>4, <1>5, FlattenLays
  <1>8. IsWireForm(w)
    BY <1>2, <1>4, <1>7, EncodesToWireForm
  <1>9. ASSUME NEW n \in 1 .. Len(id), s[n] = <<id[n]>>,
               HEX_PAIR(w, at[n - 1] + 1)
        PROVE  FALSE
    <2>1. PICK N \in Nat : N = Len(id)
      BY <1>1, LenProperties
    <2>2. n \in 1 .. N /\ n - 1 \in 0 .. N /\ n \in 0 .. N
      BY <2>1
    <2>3. PICK p \in Nat : p = at[n - 1]
      BY <1>4, <1>7, <2>1, <2>2 DEF Laid
    <2>4. Len(s[n]) = 1 /\ s[n][1] = id[n]
      BY <1>9
    <2>a. /\ at[n] = at[n - 1] + Len(s[n])
          /\ \A k \in 1 .. Len(s[n]) : w[at[n - 1] + k] = s[n][k]
      BY <1>4, <1>7, <2>1, <2>2 DEF Laid
    <2>5. at[n] = p + 1 /\ w[p + 1] = id[n]
      BY <2>3, <2>4, <2>a
    <2>6. /\ p + 1 + 2 <= Len(w) /\ id[n] \in {Tilde, Percent}
          /\ w[p + 1 + 1] \in DOMAIN HexValue /\ w[p + 1 + 2] \in DOMAIN HexValue
      BY <1>9, <2>3, <2>5 DEF HEX_PAIR
    <2>7. Len(w) \in Nat
      BY <1>7 DEF Laid
    <2>8. Laid(FromLink(id), w, at, Len(id))
      BY <1>3, <1>4, <1>7
    <2>9. at[n] + 1 <= Len(w) /\ at[n] + 1 = p + 1 + 1
      BY <2>5, <2>6, <2>7
    <2>10. n + 1 \in 1 .. N /\ at[n + 1] = p + 1 + 1 /\ id[n + 1] = w[p + 1 + 1]
      BY <1>1, <2>1, <2>2, <2>6, <2>8, <2>9, DigitWasKept
    <2>11. /\ at[n + 1] + 1 <= Len(w) /\ at[n + 1] + 1 = p + 1 + 2
           /\ n + 1 \in 0 .. N /\ n + 1 + 1 = n + 2
      <3>1. n + 1 \in 0 .. N /\ n + 1 + 1 = n + 2
        BY <2>2, <2>10
      <3>2. p + 1 + 1 + 1 = p + 1 + 2
        OBVIOUS
      <3>3. at[n + 1] + 1 = p + 1 + 2
        BY <2>10, <3>2
      <3> QED BY <2>6, <3>1, <3>3
    <2>12. n + 1 + 1 \in 1 .. N /\ id[n + 1 + 1] = w[p + 1 + 2]
      BY <1>1, <2>1, <2>6, <2>8, <2>11, DigitWasKept
    <2>13. id[n] = Tilde
      <3>1. id[n] \in PASSTHROUGH \cup {Tilde}
        <4>1. id[n] \in Bytes
          BY <1>1, ElementOfSeq
        <4>2. Len(Escape(Percent, id[n])) = 3
          BY <4>1, EscapeIs
        <4>3. ASSUME s[n] = Escape(Percent, id[n]) PROVE FALSE
          <5>1. Len(s[n]) = Len(Escape(Percent, id[n])) /\ Len(s[n]) = 1
            BY Zenon, <2>4, <4>3
          <5> QED BY <4>2, <5>1
        <4> QED BY <1>1, <1>3, <4>3, FromLinkEncodes
      <3>2. Percent \notin PASSTHROUGH \cup {Tilde}
        BY DEF PASSTHROUGH, Tilde, Percent
      <3>3. Tilde \notin PASSTHROUGH
        BY DEF PASSTHROUGH, Tilde
      <3> QED BY <2>6, <3>1, <3>2, <3>3
    <2>14. n + 2 <= Len(id) /\ n \in DOMAIN id
      BY <1>1, <2>1, <2>2, <2>11, <2>12, LenProperties
    <2>15. HEX_PAIR(id, n)
      BY <2>6, <2>10, <2>11, <2>12, <2>13, <2>14 DEF HEX_PAIR
    <2> QED BY <2>13, <2>14, <2>15 DEF HasOwnEscape
  <1>10. unprojectId(w) = id
    BY <1>1, <1>4, <1>7, <1>9, EncodedComesBack
  <1> QED BY <1>6, <1>8, <1>10

(* Any tenant-bound id comes back from its projection, and the segment of  *)
(* any link to it is sent back as the id it stands for.                    *)
THEOREM AnyIdSurvives ==
  ASSUME NEW id \in TenantBound
  PROVE  /\ unprojectId(projectId(id)) = id
         /\ projectId(projectId(id)) = projectId(id)
         /\ ~HasOwnEscape(id) => projectId(PercentEncoded(id)) = projectId(id)
  <1>1. id \in Seq(Bytes) /\ \E m \in 1 .. Len(id) : id[m] = Slash
    BY DEF TenantBound
  <1>2. projectId(id) = Seqs!FlattenSeq(Projected(id))
    BY <1>1, ProjectOfId
  <1>3. projectId(projectId(id)) = Seqs!FlattenSeq(Projected(id))
    BY <1>1, ProjectionStands, ProjectOfWire
  <1>4. ASSUME ~HasOwnEscape(id)
        PROVE  projectId(PercentEncoded(id)) = Seqs!FlattenSeq(Projected(id))
    BY <1>1, <1>4, LinkStands, ProjectOfWire
  <1> QED BY <1>2, <1>3, <1>4, ProjectionStands

(* What TLC finds for short ids of a few characters, whatever the length.  *)
THEOREM BoundIdsSurvive == BoundIdSurvives /\ LinkSurvives
  <1>1. \A id \in BoundIds : id \in TenantBound
    BY BoundIdIs
  <1>2. BoundIdSurvives
    BY <1>1, AnyIdSurvives DEF BoundIdSurvives, Lost
  <1>3. LinkSurvives
    BY <1>1, AnyIdSurvives DEF LinkSurvives, Garbled, HasOwnEscape
  <1> QED BY <1>2, <1>3

==============================================================================
