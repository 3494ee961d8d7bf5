------------------------ MODULE CoreActivationProofs ------------------------
(***************************************************************************)
(* What an activation of aise-core admits, for every rule book, scan,      *)
(* configuration and outcome of the hashes (ActivationOK).                 *)
(*                                                                         *)
(* The recursive functions of CoreActivation are unfolded into their steps *)
(* (the lemmas named ...Def, each by induction with Induct), and SessionOK *)
(* is kept by every step of a session: winners of groups are final,        *)
(* admitted entries have a reason, the budgets hold.                       *)
(***************************************************************************)
EXTENDS CoreActivation, FiniteSetTheorems, WellFoundedInduction, TLAPS

-----------------------------------------------------------------------------
(* Induction. *)

(* A set of natural numbers that is not empty has a least one.              *)
LEMMA LeastNat ==
    ASSUME NEW T, T \subseteq Nat, T # {}
    PROVE  \E x \in T : \A y \in T : x <= y
<1> DEFINE R == {ss \in Nat \X Nat : ss[1] < ss[2]}
<1>1. IsWellFoundedOn(R, Nat)
  BY NatLessThanWellFounded, Zenon DEF OpToRel
<1> HIDE DEF R
<1>2. PICK x \in T : \A y \in T : ~ (<<y, x>> \in R)
  BY <1>1, WFMin, Zenon
<1>3. ASSUME NEW y \in T PROVE x <= y
  <2>1. <<y, x>> \notin R
    BY <1>2, Zenon
  <2>2. <<y, x>> \in Nat \X Nat
    BY Zenon
  <2>3. ~(y < x)
    BY <2>1, <2>2, Zenon DEF R
  <2> QED BY <2>3
<1> QED BY <1>3, Zenon

(* Induction, as a fact about sets.                                         *)
LEMMA Induct ==
    ASSUME NEW S, 0 \in S, \A n \in Nat : n \in S => n + 1 \in S
    PROVE  Nat \subseteq S
<1> DEFINE T == Nat \ S
<1> SUFFICES ASSUME T # {} PROVE FALSE
  BY Zenon
<1>1. PICK x \in T : \A y \in T : x <= y
  BY LeastNat, Zenon
<1>2. x # 0 /\ x \in Nat
  BY <1>1, Zenon
<1>3. x - 1 \in Nat /\ x - 1 \notin T
  BY <1>1, <1>2
<1> QED BY <1>1, <1>2, <1>3

(* A number that is least on a finite set. *)
LEMMA LeastOf ==
    ASSUME NEW S, IsFiniteSet(S), S # {}, NEW f, \A x \in S : f[x] \in Int
    PROVE  \E x \in S : \A y \in S : f[x] <= f[y]
<1> DEFINE Least(T) == \E x \in T : \A y \in T : f[x] <= f[y]
           Sized == {n \in Nat : \A T \in SUBSET S : Cardinality(T) = n /\ T # {} => Least(T)}
<1>1. 0 \in Sized
  <2>1. ASSUME NEW T \in SUBSET S, Cardinality(T) = 0 PROVE T = {}
    BY <2>1, FS_Subset, FS_EmptySet, Zenon
  <2> HIDE DEF Least
  <2> QED BY <2>1, Zenon
<1>2. ASSUME NEW n \in Nat, n \in Sized PROVE n + 1 \in Sized
  <2> SUFFICES ASSUME NEW T \in SUBSET S, Cardinality(T) = n + 1, T # {} PROVE Least(T)
    <3> HIDE DEF Least
    <3> QED OBVIOUS
  <2>1. PICK x \in T : TRUE
    BY Zenon
  <2> DEFINE U == T \ {x}
  <2>2. IsFiniteSet(T)
    BY FS_Subset, Zenon
  <2>3. U \in SUBSET S /\ Cardinality(U) = n
    <3>1. Cardinality(U) = Cardinality(T) - 1
      BY <2>1, <2>2, FS_RemoveElement, Zenon
    <3> QED BY <3>1
  <2>4. CASE U = {}
    <3>1. \A y \in T : y = x
      BY <2>4, Zenon
    <3>2. f[x] \in Int
      BY Zenon
    <3> QED BY <3>1, <3>2
  <2>5. CASE U # {}
    <3>1. Least(U)
      <4> HIDE DEF Least, U
      <4> QED BY <1>2, <2>3, <2>5, Zenon
    <3>2. PICK z \in U : \A y \in U : f[z] <= f[y]
      BY <3>1, Zenon
    <3>3. f[x] \in Int /\ f[z] \in Int /\ \A y \in T : y = x \/ y \in U
      BY Zenon
    <3>4. CASE f[x] <= f[z]
      <4>1. ASSUME NEW y \in T PROVE f[x] <= f[y]
        <5>1. f[y] \in Int
          BY Zenon
        <5> QED BY <3>2, <3>3, <3>4, <5>1
      <4> QED BY <4>1, Zenon
    <3>5. CASE ~(f[x] <= f[z])
      <4>1. ASSUME NEW y \in T PROVE f[z] <= f[y]
        <5>1. f[y] \in Int
          BY Zenon
        <5> QED BY <3>2, <3>3, <3>5, <5>1
      <4>2. z \in T
        BY Zenon
      <4> QED BY <4>1, <4>2, Zenon
    <3> QED BY <3>4, <3>5, Zenon
  <2> QED BY <2>4, <2>5, Zenon
<1>3. Cardinality(S) \in Nat
  BY FS_CardinalityType, Zenon
<1>4. Cardinality(S) \in Sized
  <2> HIDE DEF Sized
  <2> QED BY <1>1, <1>2, <1>3, Induct, Zenon
<1> HIDE DEF Least
<1>5. Least(S)
  BY <1>4, Zenon
<1> QED BY <1>5, Zenon DEF Least

(* A function takes a finite set to a finite set.                           *)
LEMMA FiniteImage ==
    ASSUME NEW S, IsFiniteSet(S), NEW f, DOMAIN f = S
    PROVE  IsFiniteSet({f[x] : x \in S})
<1> DEFINE T == {f[x] : x \in S}
           g == [x \in S |-> f[x]]
<1>1. g \in Surjection(S, T)
  BY Zenon DEF Surjection
<1> QED BY <1>1, FS_Surjection, Zenon

-----------------------------------------------------------------------------
(* The helpers on sequences. *)

(* What filtered keeps, along its recursion. *)
LEMMA FilteredDef ==
    ASSUME NEW q, Len(q) \in Nat, NEW I
    PROVE  \E kept : /\ filtered(q, I) = kept[Len(q)]
                     /\ kept[0] = <<>>
                     /\ \A i \in 1 .. Len(q) :
                           kept[i] = IF i \in I THEN Append(kept[i - 1], q[i]) ELSE kept[i - 1]
<1> DEFINE n == Len(q)
           Base == <<>>
           Step(v, i) == IF i \in I THEN Append(v, q[i]) ELSE v
           Is(f, m) == f = [i \in 0 .. m |-> IF i = 0 THEN Base ELSE Step(f[i - 1], i)]
           S == {m \in Nat : \E f : Is(f, m)}
           all == CHOOSE f : Is(f, n)
<1>n. n \in Nat
  BY Zenon
<1>all. filtered(q, I) = all[n]
  BY Zenon DEF filtered
<1> HIDE DEF Base, Step, n
<1>1. 0 \in S
  <2> DEFINE f == [i \in 0 .. 0 |-> Base]
  <2>1. \A i \in 0 .. 0 : i = 0
    OBVIOUS
  <2>2. Is(f, 0)
    <3> HIDE DEF f
    <3> QED BY <2>1, Zenon DEF f
  <2> QED BY <2>2, Zenon
<1>2. ASSUME NEW m \in Nat, m \in S PROVE m + 1 \in S
  <2>1. PICK f : Is(f, m)
    BY <1>2, Zenon
  <2> DEFINE g == [i \in 0 .. m + 1 |-> IF i <= m THEN f[i] ELSE Step(f[m], m + 1)]
             h == [i \in 0 .. m + 1 |-> IF i = 0 THEN Base ELSE Step(g[i - 1], i)]
  <2>2. ASSUME NEW i \in 0 .. m + 1 PROVE g[i] = h[i]
    <3>1. CASE i = 0
      BY <2>1, <3>1
    <3>2. CASE i \in 1 .. m
      <4>1. g[i] = f[i] /\ g[i - 1] = f[i - 1]
        BY <3>2
      <4>2. h[i] = Step(f[i - 1], i) /\ f[i] = Step(f[i - 1], i)
        BY <2>1, <3>2, <4>1
      <4> QED BY <4>1, <4>2, Zenon
    <3>3. CASE i = m + 1
      <4>1. g[i] = Step(f[m], i) /\ g[i - 1] = f[m]
        BY <3>3
      <4> QED BY <3>3, <4>1
    <3> QED BY <3>1, <3>2, <3>3
  <2>3. g = h
    <3>1. g = [i \in 0 .. m + 1 |-> g[i]] /\ h = [i \in 0 .. m + 1 |-> h[i]]
      OBVIOUS
    <3> HIDE DEF g, h
    <3> QED BY <2>2, <3>1, Zenon
  <2>4. Is(g, m + 1)
    <3> HIDE DEF g
    <3> QED BY <2>3, Zenon
  <2> HIDE DEF Is, g
  <2> QED BY <2>4
<1>3. Is(all, n)
  <2>1. n \in S
    <3> HIDE DEF S
    <3> QED BY <1>1, <1>2, <1>n, Induct, Zenon
  <2> HIDE DEF Is
  <2> QED BY <2>1, Zenon
<1>4. all[0] = Base /\ \A i \in 1 .. n : all[i] = Step(all[i - 1], i)
  <2> HIDE DEF all
  <2> QED BY <1>n, <1>3
<1> HIDE DEF all
<1> QED BY <1>all, <1>4, Zenon DEF Base, Step, n

(* sum_of, as the steps of its recursion.                                   *)
LEMMA SumOfDef ==
    ASSUME NEW q, Len(q) \in Nat
    PROVE  \E sum : /\ sum_of(q) = sum[Len(q)]
                    /\ sum[0] = 0
                    /\ \A i \in 1 .. Len(q) : sum[i] = sum[i - 1] + q[i]
<1> DEFINE n == Len(q)
           Base == 0
           Step(v, i) == v + q[i]
           Is(f, m) == f = [i \in 0 .. m |-> IF i = 0 THEN Base ELSE Step(f[i - 1], i)]
           S == {m \in Nat : \E f : Is(f, m)}
           all == CHOOSE f : Is(f, n)
<1>n. n \in Nat
  BY Zenon
<1>all. sum_of(q) = all[n]
  BY Zenon DEF sum_of
<1> HIDE DEF Base, Step, n
<1>1. 0 \in S
  <2> DEFINE f == [i \in 0 .. 0 |-> Base]
  <2>1. \A i \in 0 .. 0 : i = 0
    OBVIOUS
  <2>2. Is(f, 0)
    <3> HIDE DEF f
    <3> QED BY <2>1, Zenon DEF f
  <2> QED BY <2>2, Zenon
<1>2. ASSUME NEW m \in Nat, m \in S PROVE m + 1 \in S
  <2>1. PICK f : Is(f, m)
    BY <1>2, Zenon
  <2> DEFINE g == [i \in 0 .. m + 1 |-> IF i <= m THEN f[i] ELSE Step(f[m], m + 1)]
             h == [i \in 0 .. m + 1 |-> IF i = 0 THEN Base ELSE Step(g[i - 1], i)]
  <2>2. ASSUME NEW i \in 0 .. m + 1 PROVE g[i] = h[i]
    <3>1. CASE i = 0
      BY <2>1, <3>1
    <3>2. CASE i \in 1 .. m
      <4>1. g[i] = f[i] /\ g[i - 1] = f[i - 1]
        BY <3>2
      <4>2. h[i] = Step(f[i - 1], i) /\ f[i] = Step(f[i - 1], i)
        BY <2>1, <3>2, <4>1
      <4> QED BY <4>1, <4>2, Zenon
    <3>3. CASE i = m + 1
      <4>1. g[i] = Step(f[m], i) /\ g[i - 1] = f[m]
        BY <3>3
      <4> QED BY <3>3, <4>1
    <3> QED BY <3>1, <3>2, <3>3
  <2>3. g = h
    <3>1. g = [i \in 0 .. m + 1 |-> g[i]] /\ h = [i \in 0 .. m + 1 |-> h[i]]
      OBVIOUS
    <3> HIDE DEF g, h
    <3> QED BY <2>2, <3>1, Zenon
  <2>4. Is(g, m + 1)
    <3> HIDE DEF g
    <3> QED BY <2>3, Zenon
  <2> HIDE DEF Is, g
  <2> QED BY <2>4
<1>3. Is(all, n)
  <2>1. n \in S
    <3> HIDE DEF S
    <3> QED BY <1>1, <1>2, <1>n, Induct, Zenon
  <2> HIDE DEF Is
  <2> QED BY <2>1, Zenon
<1>4. all[0] = Base /\ \A i \in 1 .. n : all[i] = Step(all[i - 1], i)
  <2> HIDE DEF all
  <2> QED BY <1>n, <1>3
<1> HIDE DEF all
<1> QED BY <1>all, <1>4, Zenon DEF Base, Step, n

(* product_of, as the steps of its recursion.                               *)
LEMMA ProductOfDef ==
    ASSUME NEW q, Len(q) \in Nat
    PROVE  \E prod : /\ product_of(q) = prod[Len(q)]
                     /\ prod[0] = 1
                     /\ \A i \in 1 .. Len(q) : prod[i] = prod[i - 1] * q[i]
<1> DEFINE n == Len(q)
           Base == 1
           Step(v, i) == v * q[i]
           Is(f, m) == f = [i \in 0 .. m |-> IF i = 0 THEN Base ELSE Step(f[i - 1], i)]
           S == {m \in Nat : \E f : Is(f, m)}
           all == CHOOSE f : Is(f, n)
<1>n. n \in Nat
  BY Zenon
<1>all. product_of(q) = all[n]
  BY Zenon DEF product_of
<1> HIDE DEF Base, Step, n
<1>1. 0 \in S
  <2> DEFINE f == [i \in 0 .. 0 |-> Base]
  <2>1. \A i \in 0 .. 0 : i = 0
    OBVIOUS
  <2>2. Is(f, 0)
    <3> HIDE DEF f
    <3> QED BY <2>1, Zenon DEF f
  <2> QED BY <2>2, Zenon
<1>2. ASSUME NEW m \in Nat, m \in S PROVE m + 1 \in S
  <2>1. PICK f : Is(f, m)
    BY <1>2, Zenon
  <2> DEFINE g == [i \in 0 .. m + 1 |-> IF i <= m THEN f[i] ELSE Step(f[m], m + 1)]
             h == [i \in 0 .. m + 1 |-> IF i = 0 THEN Base ELSE Step(g[i - 1], i)]
  <2>2. ASSUME NEW i \in 0 .. m + 1 PROVE g[i] = h[i]
    <3>1. CASE i = 0
      BY <2>1, <3>1
    <3>2. CASE i \in 1 .. m
      <4>1. g[i] = f[i] /\ g[i - 1] = f[i - 1]
        BY <3>2
      <4>2. h[i] = Step(f[i - 1], i) /\ f[i] = Step(f[i - 1], i)
        BY <2>1, <3>2, <4>1
      <4> QED BY <4>1, <4>2, Zenon
    <3>3. CASE i = m + 1
      <4>1. g[i] = Step(f[m], i) /\ g[i - 1] = f[m]
        BY <3>3
      <4> QED BY <3>3, <4>1
    <3> QED BY <3>1, <3>2, <3>3
  <2>3. g = h
    <3>1. g = [i \in 0 .. m + 1 |-> g[i]] /\ h = [i \in 0 .. m + 1 |-> h[i]]
      OBVIOUS
    <3> HIDE DEF g, h
    <3> QED BY <2>2, <3>1, Zenon
  <2>4. Is(g, m + 1)
    <3> HIDE DEF g
    <3> QED BY <2>3, Zenon
  <2> HIDE DEF Is, g
  <2> QED BY <2>4
<1>3. Is(all, n)
  <2>1. n \in S
    <3> HIDE DEF S
    <3> QED BY <1>1, <1>2, <1>n, Induct, Zenon
  <2> HIDE DEF Is
  <2> QED BY <2>1, Zenon
<1>4. all[0] = Base /\ \A i \in 1 .. n : all[i] = Step(all[i - 1], i)
  <2> HIDE DEF all
  <2> QED BY <1>n, <1>3
<1> HIDE DEF all
<1> QED BY <1>all, <1>4, Zenon DEF Base, Step, n

(* A subsequence holds what the chosen positions hold, and no element twice *)
(* when no two of those positions hold the same.                            *)
LEMMA FilteredOf ==
    ASSUME NEW T, NEW q \in Seq(T), NEW I \in SUBSET DOMAIN q
    PROVE  /\ filtered(q, I) \in Seq(T)
           /\ \A a \in DOMAIN filtered(q, I) : \E i \in I : filtered(q, I)[a] = q[i]
           /\ \A i \in I : \E a \in DOMAIN filtered(q, I) : filtered(q, I)[a] = q[i]
           /\ (\A i, j \in I : q[i] = q[j] => i = j) => IsInjective(filtered(q, I))
<1> DEFINE n == Len(q)
<1>0. n \in Nat /\ DOMAIN q = 1 .. n /\ \A i \in 1 .. n : q[i] \in T
  OBVIOUS
<1>1. PICK kept : /\ filtered(q, I) = kept[n]
                  /\ kept[0] = <<>>
                  /\ \A i \in 1 .. n : kept[i] = IF i \in I THEN Append(kept[i - 1], q[i]) ELSE kept[i - 1]
  BY <1>0, FilteredDef, SMTT(30)
<1> DEFINE Distinct == \A i, j \in I : q[i] = q[j] => i = j
           From(r, m) == \A a \in DOMAIN r : \E i \in I : i <= m /\ r[a] = q[i]
           Covers(r, m) == \A i \in I : i <= m => \E a \in DOMAIN r : r[a] = q[i]
           Once(r) == \A a, b \in DOMAIN r : r[a] = r[b] => a = b
           OK == {m \in Nat : m <= n => /\ kept[m] \in Seq(T)
                                        /\ From(kept[m], m) /\ Covers(kept[m], m)
                                        /\ Distinct => Once(kept[m])}
<1>2. 0 \in OK
  <2>1. kept[0] \in Seq(T) /\ DOMAIN kept[0] = {}
    BY <1>1
  <2>2. From(kept[0], 0) /\ Once(kept[0])
    BY <2>1, Zenon
  <2>3. Covers(kept[0], 0)
    BY <1>0
  <2> HIDE DEF From, Once, Covers
  <2> QED BY <2>1, <2>2, <2>3, Zenon
<1>3. ASSUME NEW m \in Nat, m \in OK PROVE m + 1 \in OK
  <2> SUFFICES ASSUME m + 1 <= n
               PROVE  /\ kept[m + 1] \in Seq(T)
                      /\ From(kept[m + 1], m + 1) /\ Covers(kept[m + 1], m + 1)
                      /\ Distinct => Once(kept[m + 1])
    <3> HIDE DEF From, Covers, Once, Distinct
    <3> QED OBVIOUS
  <2> DEFINE r == kept[m]
             i == m + 1
  <2>0. i \in 1 .. n /\ i - 1 = m /\ m <= n
    BY <1>0
  <2>1. r \in Seq(T) /\ From(r, m) /\ Covers(r, m) /\ (Distinct => Once(r))
    <3> HIDE DEF From, Covers, Once, Distinct
    <3> QED BY <1>3, <2>0, Zenon
  <2>2. kept[i] = IF i \in I THEN Append(r, q[i]) ELSE r
    BY <1>1, <2>0, Zenon
  <2>3. CASE i \notin I
    <3>1. kept[i] = r
      BY <2>2, <2>3, Zenon
    <3>2. From(r, i)
      <4> SUFFICES ASSUME NEW a \in DOMAIN r PROVE \E j \in I : j <= i /\ r[a] = q[j]
        BY Zenon
      <4>1. PICK j \in I : j <= m /\ r[a] = q[j]
        BY <2>1, Zenon
      <4>2. j \in Nat
        BY <1>0
      <4> QED BY <4>1, <4>2
    <3>3. Covers(r, i)
      <4> SUFFICES ASSUME NEW j \in I, j <= i PROVE \E a \in DOMAIN r : r[a] = q[j]
        BY Zenon
      <4>1. j \in Nat /\ j # i
        BY <1>0, <2>3
      <4>2. j <= m
        BY <4>1
      <4> QED BY <2>1, <4>2, Zenon
    <3> HIDE DEF From, Covers, Once, Distinct
    <3> QED BY <2>1, <3>1, <3>2, <3>3, Zenon
  <2>4. CASE i \in I
    <3> DEFINE w == Append(r, q[i])
    <3>1. kept[i] = w
      BY <2>2, <2>4, Zenon
    <3>2. w \in Seq(T) /\ Len(w) = Len(r) + 1 /\ DOMAIN w = 1 .. Len(r) + 1 /\ Len(r) \in Nat
          /\ DOMAIN r = 1 .. Len(r) /\ w[Len(r) + 1] = q[i] /\ \A a \in DOMAIN r : w[a] = r[a]
      <4>1. r \in Seq(T) /\ q[i] \in T
        <5> HIDE DEF From, Covers, Once, Distinct
        <5> QED BY <1>0, <2>0, <2>1, Zenon
      <4> HIDE DEF r
      <4> QED BY <4>1
    <3> HIDE DEF w, r
    <3>3. ASSUME NEW a \in DOMAIN r PROVE \E j \in I : j <= m /\ w[a] = q[j] /\ j \in Nat
      BY <1>0, <2>1, <3>2, <3>3
    <3>4. From(w, i)
      <4> SUFFICES ASSUME NEW a \in DOMAIN w PROVE \E j \in I : j <= i /\ w[a] = q[j]
        BY Zenon
      <4>1. CASE a \in DOMAIN r
        BY <3>3, <4>1
      <4>2. CASE a = Len(r) + 1
        BY <2>4, <3>2, <4>2
      <4> QED BY <3>2, <4>1, <4>2
    <3>5. ASSUME Distinct, NEW a \in DOMAIN w, NEW b \in DOMAIN w, w[a] = w[b], b \in DOMAIN r
          PROVE  a = b
      <4>1. CASE a \in DOMAIN r
        <5>1. r[a] = r[b]
          BY <3>2, <3>5, <4>1, Zenon
        <5> QED BY <2>1, <3>5, <4>1, <5>1, Zenon
      <4>2. CASE a = Len(r) + 1
        <5>1. PICK j \in I : j <= m /\ w[b] = q[j] /\ j \in Nat
          BY <3>3, <3>5, Zenon
        <5>2. q[j] = q[i]
          BY <3>2, <3>5, <4>2, <5>1, Zenon
        <5>3. j = i
          BY <2>4, <3>5, <5>2, Zenon
        <5> QED BY <5>1, <5>3
      <4> QED BY <3>2, <4>1, <4>2
    <3>6. ASSUME Distinct, NEW a \in DOMAIN w, NEW b \in DOMAIN w, w[a] = w[b]
          PROVE  a = b
      <4>1. CASE b \in DOMAIN r
        BY <3>5, <3>6, <4>1, Zenon
      <4>2. CASE a \in DOMAIN r
        BY <3>5, <3>6, <4>2, Zenon
      <4>3. CASE a \notin DOMAIN r /\ b \notin DOMAIN r
        BY <3>2, <4>3
      <4> QED BY <4>1, <4>2, <4>3, Zenon
    <3>7. Distinct => Once(w)
      <4> HIDE DEF Distinct
      <4> QED BY <3>6, Zenon
    <3>8. Covers(w, i)
      <4> SUFFICES ASSUME NEW j \in I, j <= i PROVE \E a \in DOMAIN w : w[a] = q[j]
        BY Zenon
      <4>1. CASE j = i
        BY <3>2, <4>1
      <4>2. CASE j # i
        <5>1. j <= m
          BY <1>0, <4>2
        <5>2. PICK a \in DOMAIN r : r[a] = q[j]
          BY <2>1, <5>1, Zenon
        <5> QED BY <3>2, <5>2
      <4> QED BY <4>1, <4>2, Zenon
    <3> HIDE DEF From, Covers, Once, Distinct
    <3> QED BY <3>1, <3>2, <3>4, <3>7, <3>8, Zenon
  <2> QED BY <2>3, <2>4, Zenon
<1>4. n \in OK
  <2> HIDE DEF OK
  <2> QED BY <1>0, <1>2, <1>3, Induct, Zenon
<1>5. kept[n] \in Seq(T) /\ From(kept[n], n) /\ Covers(kept[n], n) /\ (Distinct => Once(kept[n]))
  <2> HIDE DEF From, Covers, Once, Distinct
  <2> QED BY <1>4, <1>0
<1>6. \A i \in I : i <= n
  BY <1>0
<1> QED BY <1>1, <1>5, <1>6 DEF IsInjective

(* A sum of integers is one.                                                *)
LEMMA SumOfInt ==
    ASSUME NEW q \in Seq(Int)
    PROVE  sum_of(q) \in Int
<1> DEFINE n == Len(q)
<1>1. PICK sum : /\ sum_of(q) = sum[n]
                 /\ sum[0] = 0
                 /\ \A i \in 1 .. n : sum[i] = sum[i - 1] + q[i]
  BY SumOfDef
<1> DEFINE OK == {m \in Nat : m <= n => sum[m] \in Int}
<1>2. 0 \in OK
  BY <1>1
<1>3. ASSUME NEW m \in Nat, m \in OK PROVE m + 1 \in OK
  <2> SUFFICES ASSUME m + 1 <= n PROVE sum[m + 1] \in Int
    OBVIOUS
  <2>1. sum[m] \in Int /\ q[m + 1] \in Int /\ m + 1 \in 1 .. n
    BY <1>3
  <2> QED BY <1>1, <2>1
<1>4. n \in OK
  <2> HIDE DEF OK
  <2> QED BY <1>2, <1>3, Induct, SMTT(30)
<1> QED BY <1>1, <1>4

(* So is a product.                                                         *)
LEMMA ProductOfInt ==
    ASSUME NEW q \in Seq(Int)
    PROVE  product_of(q) \in Int
<1> DEFINE n == Len(q)
<1>1. PICK prod : /\ product_of(q) = prod[n]
                  /\ prod[0] = 1
                  /\ \A i \in 1 .. n : prod[i] = prod[i - 1] * q[i]
  BY ProductOfDef
<1> DEFINE OK == {m \in Nat : m <= n => prod[m] \in Int}
<1>2. 0 \in OK
  BY <1>1
<1>3. ASSUME NEW m \in Nat, m \in OK PROVE m + 1 \in OK
  <2> SUFFICES ASSUME m + 1 <= n PROVE prod[m + 1] \in Int
    OBVIOUS
  <2>1. prod[m] \in Int /\ q[m + 1] \in Int /\ m + 1 \in 1 .. n
    BY <1>3
  <2>2. prod[m + 1] = prod[m] * q[m + 1]
    BY <1>1, <2>1
  <2> QED BY <2>1, <2>2
<1>4. n \in OK
  <2> HIDE DEF OK
  <2> QED BY <1>2, <1>3, Induct, SMTT(30)
<1> QED BY <1>1, <1>4

(* One more number in a sum.                                                *)
LEMMA SumOfAppend ==
    ASSUME NEW q \in Seq(Nat), NEW x \in Nat
    PROVE  sum_of(Append(q, x)) = sum_of(q) + x
<1> DEFINE n == Len(q)
           w == Append(q, x)
<1>0. n \in Nat /\ Len(w) = n + 1 /\ w[n + 1] = x /\ \A i \in 1 .. n : w[i] = q[i]
  OBVIOUS
<1> HIDE DEF w
<1>1. PICK sum : /\ sum_of(q) = sum[n]
                 /\ sum[0] = 0
                 /\ \A i \in 1 .. n : sum[i] = sum[i - 1] + q[i]
  BY SumOfDef
<1>w. Len(w) \in Nat
  BY <1>0
<1>2. PICK more : /\ sum_of(w) = more[n + 1]
                  /\ more[0] = 0
                  /\ \A i \in 1 .. n + 1 : more[i] = more[i - 1] + w[i]
  <2>1. \E more : /\ sum_of(w) = more[Len(w)]
                  /\ more[0] = 0
                  /\ \A i \in 1 .. Len(w) : more[i] = more[i - 1] + w[i]
    BY <1>w, SumOfDef, Zenon
  <2> QED BY <1>0, <2>1, Zenon
<1> DEFINE OK == {m \in Nat : m <= n => more[m] = sum[m]}
<1>3. 0 \in OK
  BY <1>1, <1>2, Zenon
<1>4. ASSUME NEW m \in Nat, m \in OK PROVE m + 1 \in OK
  <2> SUFFICES ASSUME m + 1 <= n PROVE more[m + 1] = sum[m + 1]
    OBVIOUS
  <2>1. more[m] = sum[m] /\ m + 1 \in 1 .. n /\ m + 1 \in 1 .. n + 1 /\ (m + 1) - 1 = m
    BY <1>0, <1>4
  <2> QED BY <1>0, <1>1, <1>2, <2>1
<1>5. n \in OK
  <2> HIDE DEF OK
  <2> QED BY <1>0, <1>3, <1>4, Induct, Zenon
<1>6. more[n + 1] = more[n] + x
  <2>1. n + 1 \in 1 .. n + 1 /\ (n + 1) - 1 = n
    BY <1>0
  <2> QED BY <1>0, <1>2, <2>1, Zenon
<1> QED BY <1>0, <1>1, <1>2, <1>5, <1>6 DEF w

-----------------------------------------------------------------------------
(* The activation. *)

RuleOK(r) ==
    /\ r.order \in Int /\ r.size \in Nat /\ r.delay \in Nat
    /\ r.groups \subseteq 1 .. GroupKeys
    /\ Len(r.keys) \in Nat /\ DOMAIN r.keys = 1 .. Len(r.keys)
    /\ Len(r.secondary_keys) \in Nat /\ DOMAIN r.secondary_keys = 1 .. Len(r.secondary_keys)

(* A request the baseline makes. *)
ReqOK(req) ==
    /\ Len(req.book) \in Nat /\ DOMAIN req.book = 1 .. Len(req.book)
    /\ \A k \in DOMAIN req.book : RuleOK(req.book[k])
    /\ IsFiniteSet(req.scan)
    /\ \A f \in req.scan : f.kind \in Int /\ f.depth \in Int /\ f.kind # RecursionContent
    /\ req.cfg.max_recursion_steps \in Nat
    /\ req.cfg.max_activated_entries \in Nat
    /\ req.cfg.max_knowledge_bytes \in Nat

SessionFields == {"level", "evidence", "activated", "terminal", "winners", "bytes", "trimmed", "exhausted"}

(* The word w is in the scan as far as entry k reads it. *)
Read(req, k, w) == \E f \in req.scan : f.depth <= scan_depth(req, k) /\ w \in f.words

(* The word w is in an entry admitted before `level` that recursion may read. *)
Recited(req, a, level, w) ==
    \E j \in DOMAIN a : /\ a[j].level < level
                        /\ ~req.book[a[j].key].prevent_recursion
                        /\ w \in req.book[a[j].key].content

(* A pattern has its evidence from a text the entry may read. *)
Sound(req, s, k, e) ==
    /\ e.kind \in Int /\ e.depth \in Int
    /\ e.pattern \in patterns(req.book[k])
    /\ IF e.kind = RecursionContent THEN Recited(req, s.activated, s.level, needle(req.book[k], e.pattern))
       ELSE Read(req, k, needle(req.book[k], e.pattern))

EvidenceOK(req, s) ==
    /\ DOMAIN s.evidence = DOMAIN req.book
    /\ \A k \in DOMAIN req.book : IsFiniteSet(s.evidence[k]) /\ \A e \in s.evidence[k] : Sound(req, s, k, e)

(* What lets entry k in on a level. *)
Due(req, k, level) == req.book[k].enabled /\ (level >= req.book[k].delay \/ req.book[k].constant)

Reason(req, a, k, level) ==
    \/ req.book[k].constant
    \/ \E w \in Range(req.book[k].keys) : Read(req, k, w)
    \/ ~req.book[k].exclude_recursion /\ \E w \in Range(req.book[k].keys) : Recited(req, a, level, w)

Activated(req) == [key : DOMAIN req.book, class : Int, level : Nat]

Sizes(req, a) == [i \in DOMAIN a |-> req.book[a[i].key].size]

Distinct(a) == \A i, j \in DOMAIN a : a[i].key = a[j].key => i = j

OneWinner(W) == \A g, k, l : <<g, k>> \in W /\ <<g, l>> \in W => k = l

Winning(req, W, k) == \A g \in req.book[k].groups : <<g, k>> \in W

(* The entries admitted so far. *)
EntriesOK(req, s) ==
    /\ s.activated \in Seq(Activated(req))
    /\ Distinct(s.activated)
    /\ \A i \in DOMAIN s.activated :
          LET k == s.activated[i].key
              level == s.activated[i].level
          IN  /\ level <= s.level
              /\ Winning(req, s.winners, k)
              /\ Due(req, k, level)
              /\ Reason(req, s.activated, k, level)

BudgetOK(req, s) ==
    /\ Len(s.activated) <= req.cfg.max_activated_entries
    /\ s.bytes = sum_of(Sizes(req, s.activated))
    /\ s.bytes <= req.cfg.max_knowledge_bytes

SessionOK(req, s) ==
    /\ DOMAIN s = SessionFields
    /\ s.level \in Nat
    /\ OneWinner(s.winners)
    /\ EntriesOK(req, s)
    /\ BudgetOK(req, s)

(* A candidate that may be admitted. *)
CandidateOK(req, s, c) ==
    /\ c.key \in DOMAIN req.book
    /\ c.class \in Int /\ c.score \in Int
    /\ \A i \in DOMAIN s.activated : s.activated[i].key # c.key
    /\ Due(req, c.key, s.level)
    /\ Reason(req, s.activated, c.key, s.level)

CandidatesOK(req, s, C) ==
    /\ IsFiniteSet(C)
    /\ \A c \in C : CandidateOK(req, s, c)
    /\ \A c, d \in C : c.key = d.key => c = d

FragmentsOK(req, s, frags) ==
    /\ IsFiniteSet(frags)
    /\ \A f \in frags :
          /\ f.kind = RecursionContent /\ f.depth \in Int
          /\ \E j \in DOMAIN s.activated : /\ s.activated[j].level <= s.level
                                           /\ ~req.book[s.activated[j].key].prevent_recursion
                                           /\ f.words = req.book[s.activated[j].key].content

-----------------------------------------------------------------------------
(* Evidence. *)

(* A rule has finitely many patterns (Entry::new).                          *)
LEMMA FinitePatterns ==
    ASSUME NEW r, RuleOK(r)
    PROVE  IsFiniteSet(patterns(r))
<1>1. IsFiniteSet(DOMAIN r.keys) /\ IsFiniteSet(DOMAIN r.secondary_keys)
  BY FS_Interval, SMTT(30) DEF RuleOK
<1>2. IsFiniteSet({"primary"}) /\ IsFiniteSet({"secondary"})
  BY FS_Singleton, Zenon
<1>3. IsFiniteSet({"primary"} \X DOMAIN r.keys) /\ IsFiniteSet({"secondary"} \X DOMAIN r.secondary_keys)
  BY <1>1, <1>2, FS_Product, Zenon
<1> QED BY <1>3, FS_Union, Zenon DEF patterns

(* record_matches adds evidence of the fragments it was given only. *)
LEMMA Recorded ==
    ASSUME NEW r, RuleOK(r), NEW ev, IsFiniteSet(ev), NEW frags, IsFiniteSet(frags)
    PROVE  /\ IsFiniteSet(record_matches(ev, r, frags))
           /\ \A e \in record_matches(ev, r, frags) :
                 \/ e \in ev
                 \/ \E f \in frags : /\ e.kind = f.kind /\ e.depth = f.depth
                                     /\ e.pattern \in patterns(r) /\ needle(r, e.pattern) \in f.words
<1> DEFINE P == patterns(r) \X frags
           first == {m \in P : /\ m[1] \in count(r, m[2])
                               /\ \A e \in ev : e.pattern # m[1]
                               /\ \A g \in frags : m[1] \in count(r, g) => ~precedes(g, m[2])}
           put == [m \in first |-> [pattern |-> m[1], kind |-> m[2].kind, depth |-> m[2].depth]]
           new == {put[m] : m \in first}
<1>1. record_matches(ev, r, frags) = ev \cup new
  BY Zenon DEF record_matches
<1>2. IsFiniteSet(P)
  BY FinitePatterns, FS_Product, Zenon
<1>3. IsFiniteSet(first)
  BY <1>2, FS_Subset, Zenon
<1>4. IsFiniteSet(new)
  <2>1. DOMAIN put = first
    BY Zenon
  <2> HIDE DEF first, put
  <2> QED BY <1>3, <2>1, FiniteImage, Zenon
<1>5. IsFiniteSet(ev \cup new)
  <2> HIDE DEF new
  <2> QED BY <1>4, FS_Union, Zenon
<1>6. ASSUME NEW e \in new
      PROVE  \E f \in frags : /\ e.kind = f.kind /\ e.depth = f.depth
                              /\ e.pattern \in patterns(r) /\ needle(r, e.pattern) \in f.words
  <2>1. PICK m \in first : e = put[m]
    BY Zenon
  <2>2. m[2] \in frags /\ m[1] \in patterns(r) /\ m[1] \in count(r, m[2])
    BY Zenon
  <2>3. e.pattern = m[1] /\ e.kind = m[2].kind /\ e.depth = m[2].depth
    BY <2>1, Zenon
  <2> QED BY <2>2, <2>3, Zenon DEF count
<1> QED BY <1>1, <1>5, <1>6, Zenon

-----------------------------------------------------------------------------
(* The candidates of a round. *)

(* Evidence whose matches were read or recited gives a reason to admit its entry.*)
LEMMA Matched ==
    ASSUME NEW ev, IsFiniteSet(ev), NEW kind
    PROVE  /\ matched(ev, kind) \in Nat
           /\ matched(ev, kind) > 0 => \E e \in ev : e.pattern[1] = kind
<1> DEFINE E == {e \in ev : e.pattern[1] = kind}
<1>1. IsFiniteSet(E)
  BY FS_Subset, Zenon
<1>2. Cardinality(E) \in Nat /\ (E = {} => Cardinality(E) = 0)
  BY <1>1, FS_CardinalityType, FS_EmptySet, Zenon
<1> QED BY <1>2 DEF matched

(* What collect finds may be admitted. *)
LEMMA Collected ==
    ASSUME NEW req, ReqOK(req), NEW s, SessionOK(req, s), EvidenceOK(req, s)
    PROVE  CandidatesOK(req, s, collect(req, s).candidates)
<1> DEFINE rule(k) == req.book[k]
           primary(k) == matched(s.evidence[k], "primary")
           secondary(k) == matched(s.evidence[k], "secondary")
           open == {k \in DOMAIN req.book : k \notin Settled(s) /\ rule(k).enabled}
           constants == {k \in open : rule(k).constant /\ s.level = 0}
           hit == {k \in open : ~rule(k).constant /\ primary(k) > 0 /\ s.level >= rule(k).delay}
           excluded == {k \in hit : recursion_only(s.evidence[k]) /\ rule(k).exclude_recursion}
           eligible == {k \in hit \ excluded :
                           holds(rule(k).logic, secondary(k), Len(rule(k).secondary_keys))}
           score(k) == primary(k) + (IF rule(k).logic \in {"AndAny", "AndAll"} THEN secondary(k) ELSE 0)
           class(k) == IF recursion_only(s.evidence[k]) THEN Recursion ELSE TextMatch
           fixed == [k \in constants |-> [key |-> k, class |-> Constant, score |-> 0]]
           found == [k \in eligible |-> [key |-> k, class |-> class(k), score |-> score(k)]]
           C == {fixed[k] : k \in constants} \cup {found[k] : k \in eligible}
<1>1. collect(req, s).candidates = C
  BY Zenon DEF collect
<1>2. IsFiniteSet(DOMAIN req.book) /\ constants \subseteq DOMAIN req.book /\ eligible \subseteq DOMAIN req.book
  <2>1. IsFiniteSet(DOMAIN req.book)
    BY FS_Interval DEF ReqOK
  <2> QED BY <2>1, Zenon
<1>3. IsFiniteSet(C)
  <2>1. DOMAIN fixed = constants /\ DOMAIN found = eligible
    BY Zenon
  <2> HIDE DEF fixed, found, constants, eligible
  <2>2. IsFiniteSet(constants) /\ IsFiniteSet(eligible)
    BY <1>2, FS_Subset, Zenon
  <2>3. IsFiniteSet({fixed[k] : k \in constants}) /\ IsFiniteSet({found[k] : k \in eligible})
    BY <2>1, <2>2, FiniteImage, Zenon
  <2> QED BY <2>3, FS_Union, Zenon
<1>4. ASSUME NEW k \in open PROVE \A i \in DOMAIN s.activated : s.activated[i].key # k
  BY Zenon DEF Settled, Range
<1>5. ASSUME NEW k \in constants
      PROVE  /\ Due(req, k, s.level) /\ Reason(req, s.activated, k, s.level)
             /\ fixed[k].key = k /\ fixed[k].class \in Int /\ fixed[k].score \in Int
  BY SMTT(30) DEF Due, Reason, Constant
<1>6. ASSUME NEW k \in eligible
      PROVE  /\ Due(req, k, s.level) /\ Reason(req, s.activated, k, s.level)
             /\ found[k].key = k /\ found[k].class \in Int /\ found[k].score \in Int
  <2>0. k \in DOMAIN req.book /\ k \in hit /\ k \notin excluded
    BY Zenon
  <2>1. IsFiniteSet(s.evidence[k]) /\ \A e \in s.evidence[k] : Sound(req, s, k, e)
    BY <2>0, Zenon DEF EvidenceOK
  <2>2. primary(k) \in Nat /\ secondary(k) \in Nat
    BY <2>1, Matched, Zenon
  <2>3. found[k].key = k /\ found[k].class \in Int /\ found[k].score \in Int
    <3>1. score(k) \in Int
      BY <2>2
    <3>2. class(k) \in Int
      BY DEF Recursion, TextMatch
    <3> HIDE DEF score, class, eligible
    <3> QED BY <3>1, <3>2, Zenon
  <2>4. Due(req, k, s.level)
    BY <2>0, Zenon DEF Due
  <2>5. primary(k) > 0
    BY <2>0, Zenon
  <2>6. PICK e \in s.evidence[k] : e.pattern[1] = "primary"
    BY <2>1, <2>5, Matched, Zenon
  <2>7. ASSUME NEW x \in s.evidence[k], x.pattern[1] = "primary"
        PROVE  needle(req.book[k], x.pattern) \in Range(req.book[k].keys)
    <3>1. x.pattern \in patterns(req.book[k])
      BY <2>1, Zenon DEF Sound
    <3>2. x.pattern[2] \in DOMAIN req.book[k].keys
      BY <2>7, <3>1, Zenon DEF patterns
    <3> QED BY <2>7, <3>2, Zenon DEF needle, Range
  <2>8. CASE recursion_only(s.evidence[k])
    <3>1. e.kind = RecursionContent
      BY <2>6, <2>8, Zenon DEF recursion_only
    <3>2. ~req.book[k].exclude_recursion
      BY <2>0, <2>8, Zenon
    <3>3. Recited(req, s.activated, s.level, needle(req.book[k], e.pattern))
      BY <2>1, <3>1, Zenon DEF Sound
    <3>4. Reason(req, s.activated, k, s.level)
      BY <2>6, <2>7, <3>2, <3>3, Zenon DEF Reason
    <3> QED BY <2>3, <2>4, <3>4, Zenon
  <2>9. CASE ~recursion_only(s.evidence[k])
    <3>1. PICK x \in s.evidence[k] : x.pattern[1] = "primary" /\ x.kind # RecursionContent
      BY <2>9, Zenon DEF recursion_only
    <3>2. Read(req, k, needle(req.book[k], x.pattern))
      BY <2>1, <3>1, Zenon DEF Sound
    <3>3. Reason(req, s.activated, k, s.level)
      BY <2>7, <3>1, <3>2, Zenon DEF Reason
    <3> QED BY <2>3, <2>4, <3>3, ZenonT(30)
  <2> QED BY <2>8, <2>9, ZenonT(30)
<1>7. constants \subseteq open /\ eligible \subseteq open /\ constants \cap eligible = {}
  BY Zenon
<1> HIDE DEF fixed, found, constants, eligible, open
<1>8. ASSUME NEW c \in C
      PROVE  (c.key \in constants /\ c = fixed[c.key]) \/ (c.key \in eligible /\ c = found[c.key])
  BY <1>5, <1>6
<1>9. ASSUME NEW c \in C PROVE CandidateOK(req, s, c)
  <2>1. c.key \in DOMAIN req.book /\ c.key \in open
    BY <1>2, <1>7, <1>8, Zenon
  <2>2. \A i \in DOMAIN s.activated : s.activated[i].key # c.key
    BY <1>4, <2>1, Zenon
  <2>3. Due(req, c.key, s.level) /\ Reason(req, s.activated, c.key, s.level) /\ c.class \in Int /\ c.score \in Int
    BY <1>5, <1>6, <1>8
  <2> QED BY <2>1, <2>2, <2>3, Zenon DEF CandidateOK
<1>10. ASSUME NEW c \in C, NEW d \in C, c.key = d.key PROVE c = d
  BY <1>7, <1>8, <1>10, Zenon
<1> HIDE DEF C
<1> QED BY <1>1, <1>3, <1>9, <1>10, Zenon DEF CandidatesOK

-----------------------------------------------------------------------------
(* Groups. *)

(* resolve_groups, as the steps of its recursion.                           *)
LEMMA ResolveGroupsDef ==
    ASSUME NEW req, NEW s, NEW C
    PROVE  \E step : /\ resolve_groups(req, s, C) = step[GroupKeys]
                     /\ step[0] = [eligible |-> C, lost |-> {}, winners |-> s.winners]
                     /\ \A g \in 1 .. GroupKeys : step[g] = resolve_group(req, step[g - 1], g)
<1> DEFINE n == GroupKeys
           Base == [eligible |-> C, lost |-> {}, winners |-> s.winners]
           Step(v, i) == resolve_group(req, v, i)
           Is(f, m) == f = [i \in 0 .. m |-> IF i = 0 THEN Base ELSE Step(f[i - 1], i)]
           S == {m \in Nat : \E f : Is(f, m)}
           all == CHOOSE f : Is(f, n)
<1>n. n \in Nat
  BY GroupAssumption, Zenon
<1>all. resolve_groups(req, s, C) = all[n]
  BY Zenon DEF resolve_groups
<1> HIDE DEF Base, Step, n
<1>1. 0 \in S
  <2> DEFINE f == [i \in 0 .. 0 |-> Base]
  <2>1. \A i \in 0 .. 0 : i = 0
    OBVIOUS
  <2>2. Is(f, 0)
    <3> HIDE DEF f
    <3> QED BY <2>1, Zenon DEF f
  <2> QED BY <2>2, Zenon
<1>2. ASSUME NEW m \in Nat, m \in S PROVE m + 1 \in S
  <2>1. PICK f : Is(f, m)
    BY <1>2, Zenon
  <2> DEFINE g == [i \in 0 .. m + 1 |-> IF i <= m THEN f[i] ELSE Step(f[m], m + 1)]
             h == [i \in 0 .. m + 1 |-> IF i = 0 THEN Base ELSE Step(g[i - 1], i)]
  <2>2. ASSUME NEW i \in 0 .. m + 1 PROVE g[i] = h[i]
    <3>1. CASE i = 0
      BY <2>1, <3>1
    <3>2. CASE i \in 1 .. m
      <4>1. g[i] = f[i] /\ g[i - 1] = f[i - 1]
        BY <3>2
      <4>2. h[i] = Step(f[i - 1], i) /\ f[i] = Step(f[i - 1], i)
        BY <2>1, <3>2, <4>1
      <4> QED BY <4>1, <4>2, Zenon
    <3>3. CASE i = m + 1
      <4>1. g[i] = Step(f[m], i) /\ g[i - 1] = f[m]
        BY <3>3
      <4> QED BY <3>3, <4>1
    <3> QED BY <3>1, <3>2, <3>3
  <2>3. g = h
    <3>1. g = [i \in 0 .. m + 1 |-> g[i]] /\ h = [i \in 0 .. m + 1 |-> h[i]]
      OBVIOUS
    <3> HIDE DEF g, h
    <3> QED BY <2>2, <3>1, Zenon
  <2>4. Is(g, m + 1)
    <3> HIDE DEF g
    <3> QED BY <2>3, Zenon
  <2> HIDE DEF Is, g
  <2> QED BY <2>4
<1>3. Is(all, n)
  <2>1. n \in S
    <3> HIDE DEF S
    <3> QED BY <1>1, <1>2, <1>n, Induct, Zenon
  <2> HIDE DEF Is
  <2> QED BY <2>1, Zenon
<1>4. all[0] = Base /\ \A i \in 1 .. n : all[i] = Step(all[i - 1], i)
  <2> HIDE DEF all
  <2> QED BY <1>n, <1>3
<1> HIDE DEF all
<1> QED BY <1>all, <1>4, Zenon DEF Base, Step, n

(* After the groups up to m were resolved. *)
GroupsOK(req, C, W, r, m) ==
    /\ r.eligible \subseteq C
    /\ W \subseteq r.winners
    /\ OneWinner(r.winners)
    /\ \A c \in r.eligible : \A g \in req.book[c.key].groups : g <= m => <<g, c.key>> \in r.winners

(* A group leaves its winner among the candidates and no other member.      *)
LEMMA GroupResolved ==
    ASSUME NEW req, NEW C, NEW W, NEW r, NEW m \in Nat,
           \A c \in C : req.book[c.key].groups \subseteq Nat,
           GroupsOK(req, C, W, r, m)
    PROVE  GroupsOK(req, C, W, resolve_group(req, r, m + 1), m + 1)
<1> DEFINE g == m + 1
           members == {c \in r.eligible : g \in req.book[c.key].groups}
           held == \E w \in r.winners : w[1] = g
           winner == group_winner(req, g, members)
           losers == IF held THEN members ELSE {c \in members : c.key # winner}
           q == resolve_group(req, r, g)
<1>0. /\ r.eligible \subseteq C /\ W \subseteq r.winners /\ OneWinner(r.winners)
      /\ \A c \in r.eligible : \A h \in req.book[c.key].groups : h <= m => <<h, c.key>> \in r.winners
  BY Zenon DEF GroupsOK
<1>1. ASSUME NEW c \in r.eligible, NEW h \in req.book[c.key].groups, h <= g, h # g
      PROVE  <<h, c.key>> \in r.winners
  <2>1. h \in Nat
    BY <1>0, <1>1, Zenon
  <2>2. h <= m
    BY <1>1, <2>1
  <2> QED BY <1>0, <2>2, Zenon
<1>2. CASE members = {}
  <2>1. q = r
    BY <1>2, Zenon DEF resolve_group
  <2>2. ASSUME NEW c \in r.eligible, NEW h \in req.book[c.key].groups, h <= g PROVE h # g
    BY <1>2, Zenon
  <2>3. ASSUME NEW c \in r.eligible, NEW h \in req.book[c.key].groups, h <= g PROVE <<h, c.key>> \in r.winners
    BY <1>1, <2>2, <2>3, Zenon
  <2> HIDE DEF q, g
  <2> QED BY <1>0, <2>1, <2>3, Zenon DEF GroupsOK, q, g
<1>3. CASE members # {} /\ held
  <2>1. q.eligible = r.eligible \ members /\ q.winners = r.winners
    BY <1>3, Zenon DEF resolve_group
  <2>2. ASSUME NEW c \in q.eligible, NEW h \in req.book[c.key].groups, h <= g PROVE <<h, c.key>> \in q.winners
    <3>1. c \in r.eligible /\ h # g
      BY <2>1, Zenon
    <3> QED BY <1>1, <2>1, <2>2, <3>1, Zenon
  <2>3. q.eligible \subseteq C /\ W \subseteq q.winners /\ OneWinner(q.winners)
    BY <1>0, <2>1, Zenon
  <2> HIDE DEF q, g
  <2> QED BY <2>2, <2>3, Zenon DEF GroupsOK, q, g
<1>4. CASE members # {} /\ ~held
  <2>1. q.eligible = r.eligible \ {c \in members : c.key # winner} /\ q.winners = r.winners \cup {<<g, winner>>}
    BY <1>4, Zenon DEF resolve_group, keep_winner
  <2> HIDE DEF winner, q
  <2>2. ASSUME NEW c \in q.eligible, NEW h \in req.book[c.key].groups, h <= g PROVE <<h, c.key>> \in q.winners
    <3>1. c \in r.eligible
      BY <2>1, Zenon
    <3>2. CASE h = g
      <4>1. c \in members /\ c.key = winner
        BY <2>1, <3>1, <3>2, Zenon
      <4> QED BY <2>1, <3>2, <4>1, Zenon
    <3>3. CASE h # g
      BY <1>1, <2>1, <2>2, <3>1, <3>3, Zenon
    <3> QED BY <3>2, <3>3, Zenon
  <2>3. \A k : <<g, k>> \notin r.winners
    <3> SUFFICES ASSUME NEW k, <<g, k>> \in r.winners PROVE FALSE
      BY Zenon
    <3>1. <<g, k>>[1] = g
      BY Zenon
    <3> QED BY <1>4, <3>1, Zenon
  <2>4. OneWinner(q.winners)
    <3> SUFFICES ASSUME NEW h, NEW k, NEW l, <<h, k>> \in q.winners, <<h, l>> \in q.winners PROVE k = l
      BY Zenon DEF OneWinner
    <3>1. CASE h = g
      BY <2>1, <2>3, <3>1, Zenon
    <3>2. CASE h # g
      <4>1. <<h, k>> \in r.winners /\ <<h, l>> \in r.winners
        BY <2>1, <3>2, Zenon
      <4> QED BY <1>0, <4>1, Zenon DEF OneWinner
    <3> QED BY <3>1, <3>2, Zenon
  <2>5. q.eligible \subseteq C /\ W \subseteq q.winners
    BY <1>0, <2>1, Zenon
  <2> HIDE DEF g
  <2> QED BY <2>2, <2>4, <2>5, Zenon DEF GroupsOK, q, g
<1> QED BY <1>2, <1>3, <1>4, Zenon

(* Of the candidates that are left every one is the winner of its groups.   *)
LEMMA GroupsResolved ==
    ASSUME NEW req, NEW s, NEW C, OneWinner(s.winners),
           \A c \in C : req.book[c.key].groups \subseteq 1 .. GroupKeys
    PROVE  LET r == resolve_groups(req, s, C)
           IN  /\ r.eligible \subseteq C
               /\ s.winners \subseteq r.winners
               /\ OneWinner(r.winners)
               /\ \A c \in r.eligible : Winning(req, r.winners, c.key)
<1> DEFINE W == s.winners
<1>1. PICK step : /\ resolve_groups(req, s, C) = step[GroupKeys]
                  /\ step[0] = [eligible |-> C, lost |-> {}, winners |-> s.winners]
                  /\ \A g \in 1 .. GroupKeys : step[g] = resolve_group(req, step[g - 1], g)
  BY ResolveGroupsDef
<1>0. GroupKeys \in Nat /\ \A c \in C : req.book[c.key].groups \subseteq Nat
  BY GroupAssumption
<1> DEFINE OK == {m \in Nat : m <= GroupKeys => GroupsOK(req, C, W, step[m], m)}
<1>2. 0 \in OK
  <2>1. step[0].eligible = C /\ step[0].winners = W
    BY <1>1
  <2>2. ASSUME NEW c \in C, NEW g \in req.book[c.key].groups PROVE ~(g <= 0)
    BY <1>0
  <2>3. GroupsOK(req, C, W, step[0], 0)
    BY <2>1, <2>2, Zenon DEF GroupsOK
  <2> QED BY <2>3, Zenon
<1>3. ASSUME NEW m \in Nat, m \in OK PROVE m + 1 \in OK
  <2> SUFFICES ASSUME m + 1 <= GroupKeys PROVE GroupsOK(req, C, W, step[m + 1], m + 1)
    OBVIOUS
  <2>1. GroupsOK(req, C, W, step[m], m)
    BY <1>0, <1>3
  <2>2. m + 1 \in 1 .. GroupKeys /\ (m + 1) - 1 = m
    BY <1>0
  <2>3. step[m + 1] = resolve_group(req, step[m], m + 1)
    BY <1>1, <2>2, Zenon
  <2>4. GroupsOK(req, C, W, resolve_group(req, step[m], m + 1), m + 1)
    BY <1>0, <2>1, GroupResolved, Zenon
  <2> QED BY <2>3, <2>4, Zenon
<1>4. GroupKeys \in OK
  <2> HIDE DEF OK
  <2> QED BY <1>0, <1>2, <1>3, Induct, Zenon
<1>5. GroupsOK(req, C, W, step[GroupKeys], GroupKeys)
  BY <1>0, <1>4
<1> DEFINE r == step[GroupKeys]
<1>6. r.eligible \subseteq C /\ W \subseteq r.winners /\ OneWinner(r.winners)
  BY <1>5, Zenon DEF GroupsOK
<1>7. ASSUME NEW c \in r.eligible PROVE Winning(req, r.winners, c.key)
  <2> SUFFICES ASSUME NEW g \in req.book[c.key].groups PROVE <<g, c.key>> \in r.winners
    BY Zenon DEF Winning
  <2>1. g \in 1 .. GroupKeys
    BY <1>6, Zenon
  <2>2. g <= GroupKeys
    BY <1>0, <2>1
  <2> QED BY <1>5, <2>2, Zenon DEF GroupsOK
<1> QED BY <1>1, <1>6, <1>7, Zenon

-----------------------------------------------------------------------------
(* Admission. *)

(* admit, as the steps of its recursion.                                    *)
LEMMA AdmitDef ==
    ASSUME NEW req, NEW s, NEW C, Cardinality(C) \in Nat
    PROVE  \E step : /\ admit(req, s, C) = step[Cardinality(C)]
                     /\ step[0] = [s |-> s, frags |-> {}, rest |-> C]
                     /\ \A i \in 1 .. Cardinality(C) :
                           step[i] = admit_one(req, step[i - 1], next_candidate(req, s, step[i - 1].rest))
<1> DEFINE n == Cardinality(C)
           Base == [s |-> s, frags |-> {}, rest |-> C]
           Step(v, i) == admit_one(req, v, next_candidate(req, s, v.rest))
           Is(f, m) == f = [i \in 0 .. m |-> IF i = 0 THEN Base ELSE Step(f[i - 1], i)]
           S == {m \in Nat : \E f : Is(f, m)}
           all == CHOOSE f : Is(f, n)
<1>n. n \in Nat
  BY Zenon
<1>all. admit(req, s, C) = all[n]
  BY Zenon DEF admit
<1> HIDE DEF Base, Step, n
<1>1. 0 \in S
  <2> DEFINE f == [i \in 0 .. 0 |-> Base]
  <2>1. \A i \in 0 .. 0 : i = 0
    OBVIOUS
  <2>2. Is(f, 0)
    <3> HIDE DEF f
    <3> QED BY <2>1, Zenon DEF f
  <2> QED BY <2>2, Zenon
<1>2. ASSUME NEW m \in Nat, m \in S PROVE m + 1 \in S
  <2>1. PICK f : Is(f, m)
    BY <1>2, Zenon
  <2> DEFINE g == [i \in 0 .. m + 1 |-> IF i <= m THEN f[i] ELSE Step(f[m], m + 1)]
             h == [i \in 0 .. m + 1 |-> IF i = 0 THEN Base ELSE Step(g[i - 1], i)]
  <2>2. ASSUME NEW i \in 0 .. m + 1 PROVE g[i] = h[i]
    <3>1. CASE i = 0
      BY <2>1, <3>1
    <3>2. CASE i \in 1 .. m
      <4>1. g[i] = f[i] /\ g[i - 1] = f[i - 1]
        BY <3>2
      <4>2. h[i] = Step(f[i - 1], i) /\ f[i] = Step(f[i - 1], i)
        BY <2>1, <3>2, <4>1
      <4> QED BY <4>1, <4>2, Zenon
    <3>3. CASE i = m + 1
      <4>1. g[i] = Step(f[m], i) /\ g[i - 1] = f[m]
        BY <3>3
      <4> QED BY <3>3, <4>1
    <3> QED BY <3>1, <3>2, <3>3
  <2>3. g = h
    <3>1. g = [i \in 0 .. m + 1 |-> g[i]] /\ h = [i \in 0 .. m + 1 |-> h[i]]
      OBVIOUS
    <3> HIDE DEF g, h
    <3> QED BY <2>2, <3>1, Zenon
  <2>4. Is(g, m + 1)
    <3> HIDE DEF g
    <3> QED BY <2>3, Zenon
  <2> HIDE DEF Is, g
  <2> QED BY <2>4
<1>3. Is(all, n)
  <2>1. n \in S
    <3> HIDE DEF S
    <3> QED BY <1>1, <1>2, <1>n, Induct, Zenon
  <2> HIDE DEF Is
  <2> QED BY <2>1, Zenon
<1>4. all[0] = Base /\ \A i \in 1 .. n : all[i] = Step(all[i - 1], i)
  <2> HIDE DEF all
  <2> QED BY <1>n, <1>3
<1> HIDE DEF all
<1> QED BY <1>all, <1>4, Zenon DEF Base, Step, n

(* Candidates that are left have a first one in the order of admission.     *)
LEMMA BestEvidence ==
    ASSUME NEW ev, IsFiniteSet(ev), \A e \in ev : e.kind \in Int /\ e.depth \in Int
    PROVE  best_evidence(ev) \in Int
<1> DEFINE f == [e \in ev |-> 1 + 1000 * e.kind + e.depth]
           V == {1 + 1000 * e.kind + e.depth : e \in ev}
<1>1. CASE ev = {}
  BY <1>1 DEF best_evidence
<1>2. CASE ev # {}
  <2>1. \A e \in ev : f[e] \in Int
    OBVIOUS
  <2>2. PICK x \in ev : \A y \in ev : f[x] <= f[y]
    <3> HIDE DEF f
    <3> QED BY <1>2, <2>1, LeastOf, Zenon
  <2>3. V = {f[e] : e \in ev}
    OBVIOUS
  <2> HIDE DEF V, f
  <2>4. f[x] \in V /\ \A y \in V : f[x] <= y
    BY <2>2, <2>3, Zenon
  <2>5. Min(V) \in V
    BY <2>4, Zenon DEF Min
  <2>6. Min(V) \in Int
    BY <2>1, <2>3, <2>5, Zenon
  <2> QED BY <1>2, <2>6, Zenon DEF best_evidence, V
<1> QED BY <1>1, <1>2, Zenon

(* Among candidates there is one that no other comes before. *)
LEMMA NextCandidate ==
    ASSUME NEW req, ReqOK(req), NEW s, EvidenceOK(req, s), NEW C, IsFiniteSet(C), C # {},
           \A c \in C : c.key \in DOMAIN req.book /\ c.class \in Int /\ c.score \in Int
    PROVE  \E c \in C : \A d \in C : ~before(req, s, d, c)
<1> DEFINE f1 == [c \in C |-> c.class]
           f2 == [c \in C |-> -req.book[c.key].order]
           f3 == [c \in C |-> -c.score]
           f4 == [c \in C |-> best_evidence(s.evidence[c.key])]
           f5 == [c \in C |-> c.key]
<1>1. ASSUME NEW c \in C
      PROVE  f1[c] \in Int /\ f2[c] \in Int /\ f3[c] \in Int /\ f4[c] \in Int /\ f5[c] \in Int
  <2>1. c.key \in Int /\ req.book[c.key].order \in Int
    BY DEF ReqOK, RuleOK
  <2>2. best_evidence(s.evidence[c.key]) \in Int
    <3>1. IsFiniteSet(s.evidence[c.key]) /\ \A e \in s.evidence[c.key] : e.kind \in Int /\ e.depth \in Int
      BY Zenon DEF EvidenceOK, Sound
    <3> QED BY <3>1, BestEvidence, Zenon
  <2> QED BY <2>1, <2>2
<1>2. ASSUME NEW a \in C, NEW b \in C, before(req, s, a, b)
      PROVE  \/ f1[a] < f1[b]
             \/ f1[a] = f1[b] /\ f2[a] < f2[b]
             \/ f1[a] = f1[b] /\ f2[a] = f2[b] /\ f3[a] < f3[b]
             \/ f1[a] = f1[b] /\ f2[a] = f2[b] /\ f3[a] = f3[b] /\ f4[a] < f4[b]
             \/ f1[a] = f1[b] /\ f2[a] = f2[b] /\ f3[a] = f3[b] /\ f4[a] = f4[b] /\ f5[a] < f5[b]
  <2> DEFINE key(c) == <<f1[c], f2[c], f3[c], f4[c], f5[c]>>
  <2>1. PICK i \in 1 .. 5 : key(a)[i] < key(b)[i] /\ \A j \in 1 .. (i - 1) : key(a)[j] = key(b)[j]
    BY <1>2, Zenon DEF before
  <2> HIDE DEF f1, f2, f3, f4, f5
  <2>2. i = 1 \/ i = 2 \/ i = 3 \/ i = 4 \/ i = 5
    OBVIOUS
  <2>3. CASE i = 1
    BY <2>1, <2>3, Zenon
  <2>4. CASE i = 2
    <3>1. 1 \in 1 .. (i - 1)
      BY <2>4
    <3> QED BY <2>1, <2>4, <3>1, Zenon
  <2>5. CASE i = 3
    <3>1. 1 \in 1 .. (i - 1) /\ 2 \in 1 .. (i - 1)
      BY <2>5
    <3> QED BY <2>1, <2>5, <3>1, Zenon
  <2>6. CASE i = 4
    <3>1. 1 \in 1 .. (i - 1) /\ 2 \in 1 .. (i - 1) /\ 3 \in 1 .. (i - 1)
      BY <2>6
    <3> QED BY <2>1, <2>6, <3>1, Zenon
  <2>7. CASE i = 5
    <3>1. 1 \in 1 .. (i - 1) /\ 2 \in 1 .. (i - 1) /\ 3 \in 1 .. (i - 1) /\ 4 \in 1 .. (i - 1)
      BY <2>7
    <3> QED BY <2>1, <2>7, <3>1, Zenon
  <2> QED BY <2>2, <2>3, <2>4, <2>5, <2>6, <2>7, Zenon
<1> HIDE DEF f1, f2, f3, f4, f5
<1>3. PICK c1 \in C : \A d \in C : f1[c1] <= f1[d]
  BY <1>1, LeastOf, Zenon
<1> DEFINE C1 == {c \in C : f1[c] = f1[c1]}
<1>4. PICK c2 \in C1 : \A d \in C1 : f2[c2] <= f2[d]
  <2>1. IsFiniteSet(C1) /\ c1 \in C1 /\ \A c \in C1 : f2[c] \in Int
    BY <1>1, FS_Subset, Zenon
  <2> HIDE DEF C1
  <2> QED BY <2>1, LeastOf, Zenon
<1> DEFINE C2 == {c \in C1 : f2[c] = f2[c2]}
<1>5. PICK c3 \in C2 : \A d \in C2 : f3[c3] <= f3[d]
  <2>1. C2 \in SUBSET C
    BY Zenon
  <2>2. IsFiniteSet(C2) /\ c2 \in C2 /\ \A c \in C2 : f3[c] \in Int
    BY <1>1, <2>1, FS_Subset, Zenon
  <2> HIDE DEF C2
  <2> QED BY <2>2, LeastOf, Zenon
<1> DEFINE C3 == {c \in C2 : f3[c] = f3[c3]}
<1>6. PICK c4 \in C3 : \A d \in C3 : f4[c4] <= f4[d]
  <2>1. C3 \in SUBSET C
    BY Zenon
  <2>2. IsFiniteSet(C3) /\ c3 \in C3 /\ \A c \in C3 : f4[c] \in Int
    BY <1>1, <2>1, FS_Subset, Zenon
  <2> HIDE DEF C3
  <2> QED BY <2>2, LeastOf, Zenon
<1> DEFINE C4 == {c \in C3 : f4[c] = f4[c4]}
<1>7. PICK c5 \in C4 : \A d \in C4 : f5[c5] <= f5[d]
  <2>1. C4 \in SUBSET C
    BY Zenon
  <2>2. IsFiniteSet(C4) /\ c4 \in C4 /\ \A c \in C4 : f5[c] \in Int
    BY <1>1, <2>1, FS_Subset, Zenon
  <2> HIDE DEF C4
  <2> QED BY <2>2, LeastOf, Zenon
<1>8. ASSUME NEW d \in C, before(req, s, d, c5) PROVE FALSE
  <2>0. c5 \in C /\ f1[c5] = f1[c1] /\ f2[c5] = f2[c2] /\ f3[c5] = f3[c3] /\ f4[c5] = f4[c4]
    BY Zenon
  <2>1. f1[c5] <= f1[d]
    BY <1>3, <2>0, Zenon
  <2>2. f1[d] = f1[c5] => f2[c5] <= f2[d]
    BY <1>4, <2>0, Zenon
  <2>3. f1[d] = f1[c5] /\ f2[d] = f2[c5] => f3[c5] <= f3[d]
    BY <1>5, <2>0, Zenon
  <2>4. f1[d] = f1[c5] /\ f2[d] = f2[c5] /\ f3[d] = f3[c5] => f4[c5] <= f4[d]
    BY <1>6, <2>0, Zenon
  <2>5. f1[d] = f1[c5] /\ f2[d] = f2[c5] /\ f3[d] = f3[c5] /\ f4[d] = f4[c5] => f5[c5] <= f5[d]
    BY <1>7, <2>0, Zenon
  <2>6. /\ f1[c5] \in Int /\ f2[c5] \in Int /\ f3[c5] \in Int /\ f4[c5] \in Int /\ f5[c5] \in Int
        /\ f1[d] \in Int /\ f2[d] \in Int /\ f3[d] \in Int /\ f4[d] \in Int /\ f5[d] \in Int
    BY <1>1, <2>0, Zenon
  <2>7. \/ f1[d] < f1[c5]
        \/ f1[d] = f1[c5] /\ f2[d] < f2[c5]
        \/ f1[d] = f1[c5] /\ f2[d] = f2[c5] /\ f3[d] < f3[c5]
        \/ f1[d] = f1[c5] /\ f2[d] = f2[c5] /\ f3[d] = f3[c5] /\ f4[d] < f4[c5]
        \/ f1[d] = f1[c5] /\ f2[d] = f2[c5] /\ f3[d] = f3[c5] /\ f4[d] = f4[c5] /\ f5[d] < f5[c5]
    BY <1>2, <1>8, <2>0, Zenon
  <2> QED BY <2>1, <2>2, <2>3, <2>4, <2>5, <2>6, <2>7, SMTT(30)
<1>9. c5 \in C
  BY Zenon
<1> QED BY <1>8, <1>9, Zenon

(* Entries are only added at the end. *)
Prefix(a, b) == DOMAIN a \subseteq DOMAIN b /\ \A i \in DOMAIN a : b[i] = a[i]

(* What was recited stays so when entries are added and the level rises.    *)
LEMMA RecitedGrows ==
    ASSUME NEW req, NEW a, NEW b, Prefix(a, b), NEW level \in Int, NEW more \in Int, level <= more,
           \A i \in DOMAIN a : a[i].level \in Int,
           NEW w, Recited(req, a, level, w)
    PROVE  Recited(req, b, more, w)
<1>1. PICK j \in DOMAIN a : /\ a[j].level < level
                            /\ ~req.book[a[j].key].prevent_recursion
                            /\ w \in req.book[a[j].key].content
  BY Zenon DEF Recited
<1>2. j \in DOMAIN b /\ b[j] = a[j]
  BY Zenon DEF Prefix
<1>3. a[j].level < more
  BY <1>1
<1> QED BY <1>1, <1>2, <1>3, Zenon DEF Recited

(* So does a reason to admit an entry.                                      *)
LEMMA ReasonGrows ==
    ASSUME NEW req, NEW a, NEW b, Prefix(a, b), NEW k, NEW level \in Int,
           \A i \in DOMAIN a : a[i].level \in Int,
           Reason(req, a, k, level)
    PROVE  Reason(req, b, k, level)
<1>1. ASSUME NEW w, Recited(req, a, level, w) PROVE Recited(req, b, level, w)
  BY <1>1, RecitedGrows, SMTT(30)
<1> QED BY <1>1, Zenon DEF Reason

(* After n of the candidates C were taken from session s. *)
AdmittingOK(req, s, C, r, n) ==
    /\ SessionOK(req, r.s)
    /\ r.s.level = s.level /\ r.s.winners = s.winners /\ r.s.evidence = s.evidence
    /\ Prefix(s.activated, r.s.activated)
    /\ FragmentsOK(req, r.s, r.frags)
    /\ r.rest \subseteq C
    /\ Cardinality(r.rest) = Cardinality(C) - n
    /\ \A c \in r.rest : CandidateOK(req, r.s, c)

(* An entry that is admitted keeps both budgets and has its own key.        *)
LEMMA Appended ==
    ASSUME NEW req, ReqOK(req), NEW s, SessionOK(req, s), NEW c, CandidateOK(req, s, c),
           Winning(req, s.winners, c.key), fits(req, s, c.key)
    PROVE  LET z == activate_entry(req, s, c)
           IN  /\ SessionOK(req, z) /\ Prefix(s.activated, z.activated)
               /\ z.level = s.level /\ z.winners = s.winners /\ z.evidence = s.evidence
               /\ Len(s.activated) + 1 \in DOMAIN z.activated
               /\ z.activated[Len(s.activated) + 1].key = c.key /\ z.activated[Len(s.activated) + 1].level = s.level
               /\ \A i \in DOMAIN z.activated : i \in DOMAIN s.activated \/ i = Len(s.activated) + 1
<1> DEFINE a == s.activated
           x == [key |-> c.key, class |-> c.class, level |-> s.level]
           b == Append(a, x)
           n == Len(a)
           z == activate_entry(req, s, c)
<1>1. DOMAIN s = SessionFields /\ s.level \in Nat /\ OneWinner(s.winners) /\ EntriesOK(req, s) /\ BudgetOK(req, s)
  BY Zenon DEF SessionOK
<1>2. /\ DOMAIN z = SessionFields /\ z.level = s.level /\ z.winners = s.winners /\ z.evidence = s.evidence
      /\ z.activated = b /\ z.bytes = s.bytes + req.book[c.key].size
  BY <1>1, Zenon DEF SessionFields, activate_entry
<1> HIDE DEF z
<1>3. a \in Seq(Activated(req))
  BY <1>1, Zenon DEF EntriesOK
<1>4. x \in Activated(req) /\ x.key = c.key /\ x.level = s.level
  BY <1>1, Zenon DEF CandidateOK, Activated
<1> HIDE DEF x
<1>5. /\ n \in Nat /\ DOMAIN a = 1 .. n
      /\ b \in Seq(Activated(req)) /\ DOMAIN b = 1 .. n + 1 /\ Len(b) = n + 1
      /\ b[n + 1] = x /\ \A i \in DOMAIN a : b[i] = a[i]
  BY <1>3, <1>4
<1>6. Prefix(a, b) /\ \A i \in DOMAIN b : i \in DOMAIN a \/ i = n + 1
  BY <1>5 DEF Prefix
<1>7. \A i \in DOMAIN a : a[i].level \in Nat /\ a[i].key \in DOMAIN req.book
  <2>1. \A i \in DOMAIN a : a[i] \in Activated(req)
    BY <1>3
  <2> QED BY <2>1, Zenon DEF Activated
<1> HIDE DEF b, a
<1>8. Distinct(b)
  <2> SUFFICES ASSUME NEW i \in DOMAIN b, NEW j \in DOMAIN b, b[i].key = b[j].key PROVE i = j
    BY Zenon DEF Distinct
  <2>1. \A l \in DOMAIN a : a[l].key # c.key
    BY Zenon DEF CandidateOK, a
  <2>2. Distinct(a)
    BY <1>1, Zenon DEF EntriesOK, a
  <2>3. CASE i \in DOMAIN a /\ j \in DOMAIN a
    BY <1>5, <2>2, <2>3, Zenon DEF Distinct
  <2>4. CASE i = n + 1 /\ j \in DOMAIN a
    BY <1>4, <1>5, <2>1, <2>4, Zenon
  <2>5. CASE j = n + 1 /\ i \in DOMAIN a
    BY <1>4, <1>5, <2>1, <2>5, Zenon
  <2> QED BY <1>6, <2>3, <2>4, <2>5, Zenon
<1>9. EntriesOK(req, z)
  <2>1. ASSUME NEW i \in DOMAIN b
        PROVE  /\ b[i].level <= s.level
               /\ Winning(req, s.winners, b[i].key)
               /\ Due(req, b[i].key, b[i].level)
               /\ Reason(req, b, b[i].key, b[i].level)
    <3>1. CASE i \in DOMAIN a
      <4>1. /\ a[i].level <= s.level /\ Winning(req, s.winners, a[i].key)
            /\ Due(req, a[i].key, a[i].level) /\ Reason(req, a, a[i].key, a[i].level)
        BY <1>1, <3>1, Zenon DEF EntriesOK, a
      <4>2. Reason(req, b, a[i].key, a[i].level)
        BY <1>6, <1>7, <3>1, <4>1, ReasonGrows, SMTT(30)
      <4>3. b[i] = a[i]
        BY <1>5, <3>1, Zenon
      <4> QED BY <4>1, <4>2, <4>3, Zenon
    <3>2. CASE i = n + 1
      <4>1. b[i].key = c.key /\ b[i].level = s.level
        BY <1>4, <1>5, <3>2, Zenon
      <4>2. Reason(req, a, c.key, s.level) /\ Due(req, c.key, s.level)
        BY Zenon DEF CandidateOK, a
      <4>3. Reason(req, b, c.key, s.level)
        BY <1>1, <1>6, <1>7, <4>2, ReasonGrows, SMTT(30)
      <4> QED BY <1>1, <4>1, <4>2, <4>3
    <3> QED BY <1>6, <3>1, <3>2, Zenon
  <2> QED BY <1>2, <1>5, <1>8, <2>1, Zenon DEF EntriesOK
<1>10. BudgetOK(req, z)
  <2>1. n + 1 <= req.cfg.max_activated_entries /\ s.bytes + req.book[c.key].size <= req.cfg.max_knowledge_bytes
    <3>1. n < req.cfg.max_activated_entries /\ req.cfg.max_activated_entries \in Nat
      BY Zenon DEF fits, ReqOK, a
    <3> QED BY <1>5, <3>1 DEF fits
  <2>2. /\ Sizes(req, a) \in Seq(Nat) /\ req.book[c.key].size \in Nat
        /\ Sizes(req, b) = Append(Sizes(req, a), req.book[c.key].size)
    <3> DEFINE u == Sizes(req, a)
               v == Append(u, req.book[c.key].size)
    <3>1. req.book[c.key].size \in Nat /\ \A i \in DOMAIN a : req.book[a[i].key].size \in Nat
      BY <1>7, Zenon DEF CandidateOK, ReqOK, RuleOK
    <3>2. DOMAIN u = 1 .. n /\ \A i \in 1 .. n : u[i] \in Nat /\ u[i] = req.book[a[i].key].size
      BY <1>5, <3>1, Zenon DEF Sizes
    <3>3. u \in [1 .. n -> Nat]
      <4>1. u = [i \in 1 .. n |-> u[i]]
        BY <1>5, Zenon DEF Sizes
      <4> HIDE DEF u
      <4> QED BY <3>2, <4>1, Zenon
    <3>4. u \in Seq(Nat) /\ Len(u) = n
      <4> HIDE DEF u
      <4> QED BY <1>5, <3>3
    <3> HIDE DEF u
    <3>5. v = [i \in 1 .. n + 1 |-> IF i <= n THEN u[i] ELSE req.book[c.key].size]
      BY <1>5, <3>4
    <3>6. Sizes(req, b) = [i \in 1 .. n + 1 |-> req.book[b[i].key].size]
      BY <1>5, Zenon DEF Sizes
    <3>7. ASSUME NEW i \in 1 .. n + 1
          PROVE  req.book[b[i].key].size = IF i <= n THEN u[i] ELSE req.book[c.key].size
      <4>1. CASE i <= n
        <5>1. i \in 1 .. n
          BY <1>5, <4>1
        <5>2. b[i] = a[i] /\ u[i] = req.book[a[i].key].size
          BY <1>5, <3>2, <5>1, Zenon
        <5> QED BY <4>1, <5>2, Zenon
      <4>2. CASE ~(i <= n)
        <5>1. i = n + 1
          BY <1>5, <4>2, SMTT(30)
        <5> QED BY <1>4, <1>5, <4>2, <5>1, Zenon
      <4> QED BY <4>1, <4>2, Zenon
    <3>8. Sizes(req, b) = v
      BY <3>5, <3>6, <3>7, Zenon
    <3> QED BY <3>1, <3>4, <3>8, Zenon DEF u
  <2>3. sum_of(Sizes(req, b)) = sum_of(Sizes(req, a)) + req.book[c.key].size
    BY <2>2, SumOfAppend, Zenon
  <2>4. s.bytes = sum_of(Sizes(req, a))
    BY <1>1, Zenon DEF BudgetOK, a
  <2> QED BY <1>2, <1>5, <2>1, <2>3, <2>4, Zenon DEF BudgetOK
<1>11. SessionOK(req, z)
  BY <1>1, <1>2, <1>9, <1>10, Zenon DEF SessionOK
<1>12. n + 1 \in DOMAIN b /\ b[n + 1].key = c.key /\ b[n + 1].level = s.level
  BY <1>4, <1>5
<1> QED BY <1>2, <1>6, <1>11, <1>12, Zenon DEF a, z

(* A session that differs in what it rejected only. *)
LEMMA Refused ==
    ASSUME NEW req, NEW s, SessionOK(req, s), NEW z, DOMAIN z = SessionFields,
           z.activated = s.activated, z.level = s.level, z.winners = s.winners, z.bytes = s.bytes
    PROVE  SessionOK(req, z)
BY Zenon DEF SessionOK, EntriesOK, BudgetOK

(* One candidate of admit. *)
LEMMA AdmittedOne ==
    ASSUME NEW req, ReqOK(req), NEW s, NEW C, IsFiniteSet(C), NEW r, NEW n \in Nat,
           \A c, d \in C : c.key = d.key => c = d,
           \A c \in C : Winning(req, s.winners, c.key),
           AdmittingOK(req, s, C, r, n), NEW c \in r.rest
    PROVE  AdmittingOK(req, s, C, admit_one(req, r, c), n + 1)
<1> DEFINE k == c.key
           q == admit_one(req, r, c)
           a == r.s.activated
           z == activate_entry(req, r.s, c)
           refused == [r.s EXCEPT !.terminal = @ \cup {k}]
<1>1. /\ SessionOK(req, r.s)
      /\ r.s.level = s.level /\ r.s.winners = s.winners /\ r.s.evidence = s.evidence
      /\ Prefix(s.activated, a)
      /\ FragmentsOK(req, r.s, r.frags)
      /\ r.rest \subseteq C
      /\ Cardinality(r.rest) = Cardinality(C) - n
      /\ \A d \in r.rest : CandidateOK(req, r.s, d)
  BY Zenon DEF AdmittingOK
<1>2. q.rest = r.rest \ {c}
  BY Zenon DEF admit_one
<1>3. q.rest \subseteq C /\ Cardinality(q.rest) = Cardinality(C) - (n + 1)
  <2>1. IsFiniteSet(r.rest) /\ Cardinality(C) \in Nat
    BY <1>1, FS_Subset, FS_CardinalityType, Zenon
  <2>2. Cardinality(r.rest \ {c}) = Cardinality(r.rest) - 1
    BY <2>1, FS_RemoveElement, ZenonT(30)
  <2> HIDE DEF q
  <2> QED BY <1>1, <1>2, <2>1, <2>2, SMTT(30)
<1>4. DOMAIN r.s = SessionFields
  BY <1>1, Zenon DEF SessionOK
<1>5. CASE ~(probability_admits(req, k) /\ fits(req, r.s, k))
  <2>1. /\ DOMAIN q.s = SessionFields /\ q.frags = r.frags
        /\ q.s.activated = a /\ q.s.level = r.s.level /\ q.s.winners = r.s.winners
        /\ q.s.bytes = r.s.bytes /\ q.s.evidence = r.s.evidence
    <3>1. CASE ~probability_admits(req, k)
      <4>1. q.s = refused /\ q.frags = r.frags
        BY <3>1, Zenon DEF admit_one
      <4> HIDE DEF q
      <4> QED BY <1>4, <4>1, Zenon DEF SessionFields
    <3>2. CASE probability_admits(req, k)
      <4>1. q.s = [refused EXCEPT !.trimmed = TRUE] /\ q.frags = r.frags
        BY <1>5, <3>2, Zenon DEF admit_one
      <4> HIDE DEF q
      <4> QED BY <1>4, <4>1, Zenon DEF SessionFields
    <3> QED BY <3>1, <3>2, Zenon
  <2> HIDE DEF q
  <2>2. SessionOK(req, q.s)
    BY <1>1, <2>1, Refused, Zenon
  <2>3. FragmentsOK(req, q.s, q.frags)
    BY <1>1, <2>1, ZenonT(30) DEF FragmentsOK
  <2>4. \A d \in q.rest : CandidateOK(req, q.s, d)
    BY <1>1, <1>2, <2>1, Zenon DEF CandidateOK
  <2> QED BY <1>1, <1>3, <2>1, <2>2, <2>3, <2>4, Zenon DEF AdmittingOK, q
<1>6. CASE probability_admits(req, k) /\ fits(req, r.s, k)
  <2>1. /\ q.s = z
        /\ q.frags = IF req.book[k].prevent_recursion THEN r.frags
                     ELSE r.frags \cup {fragment(RecursionContent, r.s.level + 1, req.book[k].content)}
    BY <1>6, Zenon DEF admit_one
  <2>2. Winning(req, r.s.winners, k) /\ CandidateOK(req, r.s, c)
    BY <1>1, ZenonT(30)
  <2> DEFINE b == q.s.activated
             m == Len(a) + 1
  <2>3. /\ SessionOK(req, q.s) /\ Prefix(a, b)
        /\ q.s.level = r.s.level /\ q.s.winners = r.s.winners /\ q.s.evidence = r.s.evidence
        /\ m \in DOMAIN b /\ b[m].key = k /\ b[m].level = r.s.level
        /\ \A i \in DOMAIN b : i \in DOMAIN a \/ i = m
    <3>1. /\ SessionOK(req, z) /\ Prefix(a, z.activated)
          /\ z.level = r.s.level /\ z.winners = r.s.winners /\ z.evidence = r.s.evidence
          /\ m \in DOMAIN z.activated /\ z.activated[m].key = k /\ z.activated[m].level = r.s.level
          /\ \A i \in DOMAIN z.activated : i \in DOMAIN a \/ i = m
      <4>1. /\ SessionOK(req, r.s) /\ CandidateOK(req, r.s, c)
            /\ Winning(req, r.s.winners, c.key) /\ fits(req, r.s, c.key)
        BY <1>1, <1>6, <2>2, Zenon
      <4> QED BY <4>1, Appended
    <3> HIDE DEF z, q
    <3> QED BY <2>1, <3>1, ZenonT(30)
  <2> HIDE DEF q, z
  <2>4. \A i \in DOMAIN a : i \in DOMAIN b /\ b[i] = a[i] /\ a[i].level \in Nat
    <3>1. a \in Seq(Activated(req))
      BY <1>1, Zenon DEF SessionOK, EntriesOK
    <3>2. \A i \in DOMAIN a : a[i].level \in Nat
      <4>1. \A i \in DOMAIN a : a[i] \in Activated(req)
        BY <3>1, SMTT(30)
      <4> QED BY <4>1, Zenon DEF Activated
    <3> QED BY <2>3, <3>2, Zenon DEF Prefix
  <2>5. Prefix(s.activated, b)
    BY <1>1, <2>3, ZenonT(30) DEF Prefix
  <2>6. r.s.level \in Nat
    BY <1>1, Zenon DEF SessionOK
  <2>7. FragmentsOK(req, q.s, q.frags)
    <3> DEFINE new == fragment(RecursionContent, r.s.level + 1, req.book[k].content)
    <3>1. IsFiniteSet(r.frags) /\ IsFiniteSet(r.frags \cup {new})
      BY <1>1, FS_AddElement, ZenonT(30) DEF FragmentsOK
    <3>2. IsFiniteSet(q.frags)
      BY <2>1, <3>1, Zenon
    <3>3. ASSUME NEW f \in q.frags
          PROVE  /\ f.kind = RecursionContent /\ f.depth \in Int
                 /\ \E j \in DOMAIN b : /\ b[j].level <= q.s.level
                                        /\ ~req.book[b[j].key].prevent_recursion
                                        /\ f.words = req.book[b[j].key].content
      <4>1. CASE f \in r.frags
        BY <1>1, <2>3, <2>4, <4>1, ZenonT(30) DEF FragmentsOK
      <4>2. CASE f = new /\ ~req.book[k].prevent_recursion
        <5>1. f.kind = RecursionContent /\ f.depth \in Int /\ f.words = req.book[k].content
          BY <2>6, <4>2, SMTT(30) DEF fragment
        <5>2. b[m].level <= q.s.level
          BY <2>3, <2>6, SMTT(30)
        <5> QED BY <2>3, <4>2, <5>1, <5>2, ZenonT(30)
      <4> QED BY <2>1, <4>1, <4>2, ZenonT(30)
    <3> QED BY <3>2, <3>3, Zenon DEF FragmentsOK
  <2>8. ASSUME NEW d \in q.rest PROVE CandidateOK(req, q.s, d)
    <3>1. d \in r.rest /\ d.key # k
      BY <1>1, <1>2, ZenonT(30)
    <3>2. CandidateOK(req, r.s, d)
      BY <1>1, <3>1, Zenon
    <3>3. \A i \in DOMAIN b : b[i].key # d.key
      BY <2>3, <2>4, <3>1, <3>2, ZenonT(30) DEF CandidateOK
    <3>4. Reason(req, b, d.key, r.s.level)
      BY <2>3, <2>4, <2>6, <3>2, ReasonGrows, SMTT(30) DEF CandidateOK
    <3> QED BY <2>3, <3>2, <3>3, <3>4, ZenonT(30) DEF CandidateOK
  <2> QED BY <1>1, <1>3, <2>3, <2>5, <2>7, <2>8, Zenon DEF AdmittingOK, q
<1> QED BY <1>5, <1>6, Zenon

(* admit keeps what holds of the entries, and hands on texts of theirs.     *)
LEMMA AdmittedAll ==
    ASSUME NEW req, ReqOK(req), NEW s, SessionOK(req, s), EvidenceOK(req, s), NEW C,
           CandidatesOK(req, s, C), \A c \in C : Winning(req, s.winners, c.key)
    PROVE  LET r == admit(req, s, C)
           IN  /\ SessionOK(req, r.s)
               /\ r.s.level = s.level /\ r.s.evidence = s.evidence
               /\ Prefix(s.activated, r.s.activated)
               /\ FragmentsOK(req, r.s, r.frags)
<1> DEFINE N == Cardinality(C)
           next(R) == next_candidate(req, s, R)
<1>0. IsFiniteSet(C) /\ N \in Nat /\ (\A c \in C : CandidateOK(req, s, c)) /\ \A c, d \in C : c.key = d.key => c = d
  BY FS_CardinalityType, Zenon DEF CandidatesOK
<1>1. PICK step : /\ admit(req, s, C) = step[N]
                  /\ step[0] = [s |-> s, frags |-> {}, rest |-> C]
                  /\ \A i \in 1 .. N : step[i] = admit_one(req, step[i - 1], next(step[i - 1].rest))
  BY <1>0, AdmitDef, SMTT(30)
<1> HIDE DEF next, next_candidate
<1> DEFINE OK == {m \in Nat : m <= N => AdmittingOK(req, s, C, step[m], m)}
<1>2. 0 \in OK
  <2>1. step[0].s = s /\ step[0].frags = {} /\ step[0].rest = C
    <3>1. step[0] = [s |-> s, frags |-> {}, rest |-> C]
      BY <1>1, Zenon
    <3> QED BY <3>1
  <2>2. FragmentsOK(req, s, {})
    BY FS_EmptySet, Zenon DEF FragmentsOK
  <2>3. Prefix(s.activated, s.activated)
    BY Zenon DEF Prefix
  <2>4. AdmittingOK(req, s, C, step[0], 0)
    BY <1>0, <2>1, <2>2, <2>3, SMTT(30) DEF AdmittingOK
  <2> QED BY <2>4, Zenon
<1>3. ASSUME NEW m \in Nat, m \in OK PROVE m + 1 \in OK
  <2> SUFFICES ASSUME m + 1 <= N PROVE AdmittingOK(req, s, C, step[m + 1], m + 1)
    OBVIOUS
  <2> DEFINE R == step[m].rest
  <2>1. AdmittingOK(req, s, C, step[m], m)
    BY <1>0, <1>3
  <2>2. m + 1 \in 1 .. N /\ (m + 1) - 1 = m
    BY <1>0, SMTT(30)
  <2>3. step[m + 1] = admit_one(req, step[m], next(R))
    BY <1>1, <2>2, Zenon
  <2>4. R \subseteq C /\ Cardinality(R) = N - m
    BY <2>1, Zenon DEF AdmittingOK
  <2>5. IsFiniteSet(R) /\ R # {}
    <3>1. IsFiniteSet(R) /\ (R = {} => Cardinality(R) = 0)
      BY <1>0, <2>4, FS_Subset, FS_EmptySet, Zenon
    <3>2. N - m # 0
      BY <1>0, <2>2, SMTT(30)
    <3> QED BY <2>4, <3>1, <3>2, Zenon
  <2>6. \A c \in R : c.key \in DOMAIN req.book /\ c.class \in Int /\ c.score \in Int
    BY <1>0, <2>4, Zenon DEF CandidateOK
  <2>7. \E c \in R : \A d \in R : ~before(req, s, d, c)
    <3> HIDE DEF R
    <3> QED BY <2>5, <2>6, NextCandidate, Zenon
  <2>8. next(R) \in R
    BY <2>7, Zenon DEF next, next_candidate
  <2> QED BY <1>0, <2>1, <2>3, <2>8, AdmittedOne, ZenonT(30)
<1>4. N \in OK
  <2> HIDE DEF OK
  <2> QED BY <1>0, <1>2, <1>3, Induct, Zenon
<1>5. AdmittingOK(req, s, C, step[N], N)
  BY <1>0, <1>4
<1> QED BY <1>1, <1>5, Zenon DEF AdmittingOK

-----------------------------------------------------------------------------
(* The loop of a session. *)

(* What a fragment is evidence for, as far as entry k reads it. *)
Readable(req, s, k, f) ==
    /\ f.kind \in Int /\ f.depth \in Int
    /\ \A w \in f.words : IF f.kind = RecursionContent THEN Recited(req, s.activated, s.level, w)
                          ELSE Read(req, k, w)

(* The evidence that a round collects from its fragments is sound.          *)
LEMMA Ingested ==
    ASSUME NEW req, ReqOK(req), NEW s, SessionOK(req, s), EvidenceOK(req, s),
           NEW frags, IsFiniteSet(frags), NEW base,
           \A k \in DOMAIN req.book : \A f \in frags :
              (base => f.depth <= scan_depth(req, k)) => Readable(req, s, k, f)
    PROVE  SessionOK(req, ingest(req, s, frags, base)) /\ EvidenceOK(req, ingest(req, s, frags, base))
<1> DEFINE z == ingest(req, s, frags, base)
           near(k) == {f \in frags : base => f.depth <= scan_depth(req, k)}
<1>1. DOMAIN s = SessionFields
  BY Zenon DEF SessionOK
<1>2. /\ DOMAIN z = SessionFields /\ z.level = s.level /\ z.winners = s.winners
      /\ z.activated = s.activated /\ z.bytes = s.bytes
      /\ z.evidence = [k \in DOMAIN req.book |->
                          IF k \in Settled(s) THEN s.evidence[k]
                          ELSE record_matches(s.evidence[k], req.book[k], near(k))]
  BY <1>1, Zenon DEF SessionFields, ingest
<1> HIDE DEF z
<1>3. SessionOK(req, z)
  BY <1>2, Refused, Zenon
<1>4. ASSUME NEW k \in DOMAIN req.book
      PROVE  IsFiniteSet(z.evidence[k]) /\ \A e \in z.evidence[k] : Sound(req, z, k, e)
  <2>1. IsFiniteSet(s.evidence[k]) /\ \A e \in s.evidence[k] : Sound(req, z, k, e)
    BY <1>2, Zenon DEF EvidenceOK, Sound
  <2>2. CASE k \in Settled(s)
    BY <1>2, <2>1, <2>2, Zenon
  <2>3. CASE k \notin Settled(s)
    <3>1. z.evidence[k] = record_matches(s.evidence[k], req.book[k], near(k))
      BY <1>2, <2>3, Zenon
    <3>2. IsFiniteSet(near(k)) /\ RuleOK(req.book[k])
      BY FS_Subset, Zenon DEF ReqOK
    <3>3. IsFiniteSet(z.evidence[k])
      BY <2>1, <3>1, <3>2, Recorded, SMTT(30)
    <3>4. ASSUME NEW e \in z.evidence[k], e \notin s.evidence[k] PROVE Sound(req, z, k, e)
      <4>1. PICK f \in near(k) : /\ e.kind = f.kind /\ e.depth = f.depth
                                 /\ e.pattern \in patterns(req.book[k]) /\ needle(req.book[k], e.pattern) \in f.words
        BY <2>1, <3>1, <3>2, <3>4, Recorded, SMTT(30)
      <4>2. Readable(req, s, k, f)
        BY Zenon
      <4> QED BY <1>2, <4>1, <4>2, Zenon DEF Sound, Readable
    <3> QED BY <2>1, <3>3, <3>4, Zenon
  <2> QED BY <2>2, <2>3, Zenon
<1>5. EvidenceOK(req, z)
  BY <1>2, <1>4, Zenon DEF EvidenceOK
<1> QED BY <1>3, <1>5, Zenon DEF z

(* A round keeps what holds of a session. *)
LEMMA Rounded ==
    ASSUME NEW req, ReqOK(req), NEW s, SessionOK(req, s), EvidenceOK(req, s)
    PROVE  SessionOK(req, round(req, s).s) /\ (round(req, s).more => EvidenceOK(req, round(req, s).s))
<1> DEFINE found == collect(req, s)
           C == found.candidates
           resolved == resolve_groups(req, s, C)
           u == [s EXCEPT !.terminal = @ \cup found.excluded \cup resolved.lost, !.winners = resolved.winners]
           admitted == admit(req, u, resolved.eligible)
           z == [admitted.s EXCEPT !.level = @ + 1]
<1>0. /\ round(req, s) = IF C = {} THEN [s |-> [s EXCEPT !.terminal = @ \cup found.excluded], more |-> FALSE]
                         ELSE IF admitted.frags = {} THEN [s |-> admitted.s, more |-> FALSE]
                         ELSE IF s.level >= req.cfg.max_recursion_steps
                         THEN [s |-> [admitted.s EXCEPT !.exhausted = TRUE], more |-> FALSE]
                         ELSE [s |-> ingest(req, z, admitted.frags, FALSE), more |-> TRUE]
  BY Zenon DEF round, next_level, admit_winners
<1>1. CandidatesOK(req, s, C)
  BY Collected, Zenon
<1> HIDE DEF C
<1>2. DOMAIN s = SessionFields /\ OneWinner(s.winners) /\ s.level \in Nat /\ EntriesOK(req, s)
  BY Zenon DEF SessionOK
<1>3. \A c \in C : req.book[c.key].groups \subseteq 1 .. GroupKeys
  BY <1>1, Zenon DEF CandidatesOK, CandidateOK, ReqOK, RuleOK
<1>4. /\ resolved.eligible \subseteq C /\ s.winners \subseteq resolved.winners /\ OneWinner(resolved.winners)
      /\ \A c \in resolved.eligible : Winning(req, resolved.winners, c.key)
  BY <1>2, <1>3, GroupsResolved, Zenon
<1> HIDE DEF resolved
<1>5. /\ DOMAIN u = SessionFields /\ u.level = s.level /\ u.winners = resolved.winners
      /\ u.activated = s.activated /\ u.bytes = s.bytes /\ u.evidence = s.evidence
  BY <1>2, Zenon DEF SessionFields
<1> HIDE DEF u
<1>6. SessionOK(req, u)
  <2>1. ASSUME NEW i \in DOMAIN s.activated PROVE Winning(req, u.winners, s.activated[i].key)
    BY <1>2, <1>4, <1>5, Zenon DEF EntriesOK, Winning
  <2>2. EntriesOK(req, u)
    BY <1>2, <1>5, <2>1, Zenon DEF EntriesOK
  <2>3. BudgetOK(req, u)
    BY <1>5, Zenon DEF SessionOK, BudgetOK
  <2> QED BY <1>2, <1>4, <1>5, <2>2, <2>3, Zenon DEF SessionOK
<1>7. EvidenceOK(req, u)
  BY <1>5, Zenon DEF EvidenceOK, Sound
<1>8. CandidatesOK(req, u, resolved.eligible)
  <2>1. IsFiniteSet(resolved.eligible)
    BY <1>1, <1>4, FS_Subset, Zenon DEF CandidatesOK
  <2>2. \A c \in resolved.eligible : CandidateOK(req, u, c)
    BY <1>1, <1>4, <1>5, Zenon DEF CandidatesOK, CandidateOK
  <2> QED BY <1>1, <1>4, <2>1, <2>2, Zenon DEF CandidatesOK
<1>9. /\ SessionOK(req, admitted.s) /\ admitted.s.level = s.level /\ admitted.s.evidence = s.evidence
      /\ Prefix(s.activated, admitted.s.activated)
      /\ FragmentsOK(req, admitted.s, admitted.frags)
  BY <1>4, <1>5, <1>6, <1>7, <1>8, AdmittedAll, SMTT(30)
<1> HIDE DEF admitted
<1>10. DOMAIN admitted.s = SessionFields
  BY <1>9, Zenon DEF SessionOK
<1>11. CASE C = {}
  <2> DEFINE v == [s EXCEPT !.terminal = @ \cup found.excluded]
  <2>1. round(req, s).s = v /\ ~round(req, s).more
    BY <1>0, <1>11
  <2>2. /\ DOMAIN v = SessionFields /\ v.activated = s.activated /\ v.level = s.level
        /\ v.winners = s.winners /\ v.bytes = s.bytes
    BY <1>2, Zenon DEF SessionFields
  <2> HIDE DEF v
  <2>3. SessionOK(req, v)
    BY <2>2, Refused, Zenon
  <2> QED BY <2>1, <2>3, Zenon
<1>12. CASE C # {} /\ admitted.frags = {}
  BY <1>0, <1>9, <1>12
<1>13. CASE C # {} /\ admitted.frags # {} /\ s.level >= req.cfg.max_recursion_steps
  <2> DEFINE v == [admitted.s EXCEPT !.exhausted = TRUE]
  <2>1. round(req, s).s = v /\ ~round(req, s).more
    BY <1>0, <1>13
  <2>2. /\ DOMAIN v = SessionFields /\ v.activated = admitted.s.activated /\ v.level = admitted.s.level
        /\ v.winners = admitted.s.winners /\ v.bytes = admitted.s.bytes
    BY <1>10, Zenon DEF SessionFields
  <2> HIDE DEF v
  <2>3. SessionOK(req, v)
    BY <1>9, <2>2, Refused, Zenon
  <2> QED BY <2>1, <2>3, Zenon
<1>14. CASE C # {} /\ admitted.frags # {} /\ ~(s.level >= req.cfg.max_recursion_steps)
  <2>1. round(req, s).s = ingest(req, z, admitted.frags, FALSE)
    <3> DEFINE w == ingest(req, z, admitted.frags, FALSE)
    <3> HIDE DEF z
    <3>1. round(req, s) = [s |-> w, more |-> TRUE]
      BY <1>0, <1>14, Zenon
    <3> HIDE DEF w
    <3>2. round(req, s).s = w
      BY <3>1
    <3> QED BY <3>2, Zenon DEF w
  <2>2. /\ DOMAIN z = SessionFields /\ z.activated = admitted.s.activated /\ z.level = s.level + 1
        /\ z.winners = admitted.s.winners /\ z.bytes = admitted.s.bytes /\ z.evidence = s.evidence
    BY <1>9, <1>10, Zenon DEF SessionFields
  <2> HIDE DEF z
  <2> DEFINE b == admitted.s.activated
  <2>3. \A i \in DOMAIN b : b[i].level \in Nat /\ b[i].level <= s.level
    <3>1. b \in Seq(Activated(req)) /\ \A i \in DOMAIN b : b[i].level <= s.level
      BY <1>9, ZenonT(30) DEF SessionOK, EntriesOK
    <3>2. \A i \in DOMAIN b : b[i] \in Activated(req)
      BY <3>1
    <3> QED BY <3>1, <3>2, Zenon DEF Activated
  <2>4. SessionOK(req, z)
    <3>1. \A i \in DOMAIN b : b[i].level <= z.level
      BY <1>2, <2>2, <2>3, SMTT(30)
    <3>2. EntriesOK(req, z)
      BY <1>9, <2>2, <3>1, ZenonT(30) DEF SessionOK, EntriesOK
    <3>3. BudgetOK(req, z) /\ OneWinner(z.winners) /\ z.level \in Nat
      BY <1>2, <1>9, <2>2, SMTT(30) DEF SessionOK, BudgetOK
    <3> QED BY <2>2, <3>2, <3>3, Zenon DEF SessionOK
  <2>5. EvidenceOK(req, z)
    <3>1. \A i \in DOMAIN s.activated : s.activated[i].level \in Int
      BY <1>9, <2>3, SMTT(30) DEF Prefix
    <3>2. ASSUME NEW w, Recited(req, s.activated, s.level, w) PROVE Recited(req, z.activated, z.level, w)
      <4>1. s.level \in Int /\ z.level \in Int /\ s.level <= z.level
        BY <1>2, <2>2, SMTT(30)
      <4> QED BY <1>9, <2>2, <3>1, <3>2, <4>1, RecitedGrows, Zenon
    <3>3. ASSUME NEW k \in DOMAIN req.book, NEW e \in s.evidence[k] PROVE Sound(req, z, k, e)
      <4>1. Sound(req, s, k, e)
        BY Zenon DEF EvidenceOK
      <4> QED BY <3>2, <4>1, Zenon DEF Sound
    <3> QED BY <2>2, <3>3, ZenonT(30) DEF EvidenceOK
  <2>6. ASSUME NEW f \in admitted.frags, NEW k PROVE Readable(req, z, k, f)
    <3>1. f.kind = RecursionContent /\ f.depth \in Int /\ RecursionContent \in Int
      BY <1>9, SMTT(30) DEF FragmentsOK, RecursionContent
    <3>2. PICK j \in DOMAIN b : /\ ~req.book[b[j].key].prevent_recursion
                                /\ f.words = req.book[b[j].key].content
      BY <1>9, Zenon DEF FragmentsOK
    <3>3. b[j].level < z.level
      BY <1>2, <2>2, <2>3, SMTT(30)
    <3>4. \A w \in f.words : Recited(req, z.activated, z.level, w)
      BY <2>2, <3>2, <3>3, ZenonT(30) DEF Recited
    <3> QED BY <3>1, <3>4, ZenonT(30) DEF Readable
  <2>7. IsFiniteSet(admitted.frags)
    BY <1>9, Zenon DEF FragmentsOK
  <2>8. SessionOK(req, ingest(req, z, admitted.frags, FALSE)) /\ EvidenceOK(req, ingest(req, z, admitted.frags, FALSE))
    BY <2>4, <2>5, <2>6, <2>7, Ingested, Zenon
  <2> QED BY <2>1, <2>8, ZenonT(30)
<1> QED BY <1>11, <1>12, <1>13, <1>14, Zenon

(* run, as the steps of its recursion.                                      *)
LEMMA RunDef ==
    ASSUME NEW req, req.cfg.max_recursion_steps \in Nat, NEW s
    PROVE  \E loop : /\ run(req, s) = loop[req.cfg.max_recursion_steps + 1].s
                     /\ loop[0] = [s |-> s, more |-> TRUE]
                     /\ \A i \in 1 .. req.cfg.max_recursion_steps + 1 :
                           loop[i] = IF loop[i - 1].more THEN round(req, loop[i - 1].s) ELSE loop[i - 1]
<1> DEFINE n == req.cfg.max_recursion_steps + 1
           Base == [s |-> s, more |-> TRUE]
           Step(v, i) == IF v.more THEN round(req, v.s) ELSE v
           Is(f, m) == f = [i \in 0 .. m |-> IF i = 0 THEN Base ELSE Step(f[i - 1], i)]
           S == {m \in Nat : \E f : Is(f, m)}
           all == CHOOSE f : Is(f, n)
<1>n. n \in Nat
  OBVIOUS
<1>all. run(req, s) = all[n].s
  BY Zenon DEF run
<1> HIDE DEF Base, Step, n
<1>1. 0 \in S
  <2> DEFINE f == [i \in 0 .. 0 |-> Base]
  <2>1. \A i \in 0 .. 0 : i = 0
    OBVIOUS
  <2>2. Is(f, 0)
    <3> HIDE DEF f
    <3> QED BY <2>1, Zenon DEF f
  <2> QED BY <2>2, Zenon
<1>2. ASSUME NEW m \in Nat, m \in S PROVE m + 1 \in S
  <2>1. PICK f : Is(f, m)
    BY <1>2, Zenon
  <2> DEFINE g == [i \in 0 .. m + 1 |-> IF i <= m THEN f[i] ELSE Step(f[m], m + 1)]
             h == [i \in 0 .. m + 1 |-> IF i = 0 THEN Base ELSE Step(g[i - 1], i)]
  <2>2. ASSUME NEW i \in 0 .. m + 1 PROVE g[i] = h[i]
    <3>1. CASE i = 0
      BY <2>1, <3>1, SMTT(30)
    <3>2. CASE i \in 1 .. m
      <4>1. g[i] = f[i] /\ g[i - 1] = f[i - 1]
        BY <3>2
      <4>2. h[i] = Step(f[i - 1], i) /\ f[i] = Step(f[i - 1], i)
        BY <2>1, <3>2, <4>1
      <4> QED BY <4>1, <4>2, Zenon
    <3>3. CASE i = m + 1
      <4>1. g[i] = Step(f[m], i) /\ g[i - 1] = f[m]
        BY <3>3
      <4> QED BY <3>3, <4>1
    <3> QED BY <3>1, <3>2, <3>3
  <2>3. g = h
    <3>1. g = [i \in 0 .. m + 1 |-> g[i]] /\ h = [i \in 0 .. m + 1 |-> h[i]]
      OBVIOUS
    <3> HIDE DEF g, h
    <3> QED BY <2>2, <3>1, Zenon
  <2>4. Is(g, m + 1)
    <3> HIDE DEF g
    <3> QED BY <2>3, Zenon
  <2> HIDE DEF Is, g
  <2> QED BY <2>4
<1>3. Is(all, n)
  <2>1. n \in S
    <3> HIDE DEF S
    <3> QED BY <1>1, <1>2, <1>n, Induct, Zenon
  <2> HIDE DEF Is
  <2> QED BY <2>1, Zenon
<1>4. all[0] = Base /\ \A i \in 1 .. n : all[i] = Step(all[i - 1], i)
  <2> HIDE DEF all
  <2> QED BY <1>n, <1>3
<1> HIDE DEF all
<1> QED BY <1>all, <1>4, Zenon DEF Base, Step, n

(* What an activation admits is what a sound session admits.                *)
LEMMA ActivationOK ==
    ASSUME NEW req, ReqOK(req)
    PROVE  \E s : SessionOK(req, s) /\ activate(req).activated = s.activated
<1> DEFINE new == new_session(req)
           first == ingest(req, new, req.scan, TRUE)
           N == req.cfg.max_recursion_steps + 1
<1>0. N \in Nat
  BY DEF ReqOK
<1>1. SessionOK(req, new) /\ EvidenceOK(req, new)
  <2>1. /\ DOMAIN new = SessionFields /\ new.level = 0 /\ new.activated = <<>> /\ new.winners = {} /\ new.bytes = 0
        /\ new.evidence = [k \in DOMAIN req.book |-> {}]
    BY Zenon DEF new_session, SessionFields
  <2> HIDE DEF new
  <2>2. OneWinner(new.winners)
    BY <2>1, Zenon DEF OneWinner
  <2>3. EntriesOK(req, new)
    <3>1. DOMAIN new.activated = {} /\ new.activated \in Seq(Activated(req))
      BY <2>1, SMTT(30)
    <3> QED BY <3>1, Zenon DEF EntriesOK, Distinct
  <2>4. BudgetOK(req, new)
    <3>1. Sizes(req, new.activated) = <<>>
      BY <2>1 DEF Sizes
    <3>2. Len(<<>>) = 0 /\ Len(<<>>) \in Nat
      BY Zenon
    <3>3. sum_of(<<>>) = 0
      <4>1. PICK sum : sum_of(<<>>) = sum[Len(<<>>)] /\ sum[0] = 0
        BY <3>2, SumOfDef, Zenon
      <4> QED BY <3>2, <4>1, Zenon
    <3> QED BY <2>1, <3>1, <3>2, <3>3, SMTT(30) DEF BudgetOK, ReqOK
  <2>5. EvidenceOK(req, new)
    BY <2>1, FS_EmptySet, Zenon DEF EvidenceOK
  <2> QED BY <2>1, <2>2, <2>3, <2>4, <2>5, SMTT(30) DEF SessionOK
<1>2. ASSUME NEW k \in DOMAIN req.book, NEW f \in req.scan, f.depth <= scan_depth(req, k)
      PROVE  Readable(req, new, k, f)
  <2>1. f.kind \in Int /\ f.depth \in Int /\ f.kind # RecursionContent
    BY Zenon DEF ReqOK
  <2> HIDE DEF new
  <2> QED BY <1>2, <2>1, Zenon DEF Readable, Read
<1>3. SessionOK(req, first) /\ EvidenceOK(req, first)
  <2>1. IsFiniteSet(req.scan)
    BY Zenon DEF ReqOK
  <2> HIDE DEF new
  <2> QED BY <1>1, <1>2, <2>1, Ingested, Zenon
<1> HIDE DEF first
<1>4. PICK loop : /\ run(req, first) = loop[N].s
                  /\ loop[0] = [s |-> first, more |-> TRUE]
                  /\ \A i \in 1 .. N : loop[i] = IF loop[i - 1].more THEN round(req, loop[i - 1].s) ELSE loop[i - 1]
  BY RunDef, SMTT(30) DEF ReqOK
<1> DEFINE OK == {m \in Nat : m <= N => SessionOK(req, loop[m].s) /\ (loop[m].more => EvidenceOK(req, loop[m].s))}
<1>5. 0 \in OK
  <2>1. loop[0].s = first
    BY <1>4, SMTT(30)
  <2> QED BY <1>3, <2>1, Zenon
<1>6. ASSUME NEW m \in Nat, m \in OK PROVE m + 1 \in OK
  <2> SUFFICES ASSUME m + 1 <= N
               PROVE  SessionOK(req, loop[m + 1].s) /\ (loop[m + 1].more => EvidenceOK(req, loop[m + 1].s))
    OBVIOUS
  <2>1. SessionOK(req, loop[m].s) /\ (loop[m].more => EvidenceOK(req, loop[m].s))
    BY <1>0, <1>6
  <2>2. m + 1 \in 1 .. N /\ (m + 1) - 1 = m
    BY <1>0
  <2>3. loop[m + 1] = IF loop[m].more THEN round(req, loop[m].s) ELSE loop[m]
    BY <1>4, <2>2, Zenon
  <2>4. CASE loop[m].more
    BY <2>1, <2>3, <2>4, Rounded, Zenon
  <2>5. CASE ~loop[m].more
    BY <2>1, <2>3, <2>5, Zenon
  <2> QED BY <2>4, <2>5, Zenon
<1>7. N \in OK
  <2> HIDE DEF OK
  <2> QED BY <1>0, <1>5, <1>6, Induct, Zenon
<1>8. SessionOK(req, loop[N].s)
  BY <1>0, <1>7, SMTT(30)
<1>9. activate(req).activated = loop[N].s.activated
  BY <1>4, Zenon DEF activate, finish, first
<1> QED BY <1>8, <1>9, Zenon
=============================================================================
