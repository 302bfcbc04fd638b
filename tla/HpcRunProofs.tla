---------------------------- MODULE HpcRunProofs ----------------------------
(***************************************************************************)
(* Of a remote run, proved for every number of tests, rounds and arrays:   *)
(* every id keeps a place, its cell or one item that runs it; a cell that  *)
(* is saved stands; and an array that may still run has its owner.  Of the *)
(* demand table: a round changes what it ran.                              *)
(*                                                                         *)
(* The ids are in sequences of items, and what the code does with those    *)
(* (drop, split, join, order by class) is recursion: the first lemmas say  *)
(* what it keeps, by induction over the natural numbers.                   *)
(***************************************************************************)
EXTENDS HpcRun, DemandTable, SequenceTheorems, FiniteSetTheorems, WellFoundedInduction, TLAPS

-----------------------------------------------------------------------------
(* Sequences.                                                              *)

\* Induction over the naturals, of a set: what holds 0 and every successor holds them all.
LEMMA Induction == ASSUME NEW T \in SUBSET Nat, 0 \in T, \A n \in T : n + 1 \in T PROVE T = Nat
<1>1. \E R : IsWellFoundedOn(R, Nat) /\ \A x, y \in Nat : y < x => <<y, x>> \in R
  <2>1. \A x, y \in Nat : y < x => <<y, x>> \in OpToRel(<, Nat)
    BY DEF OpToRel
  <2> QED
    BY <2>1, NatLessThanWellFounded
<1>2. PICK R : IsWellFoundedOn(R, Nat) /\ \A x, y \in Nat : y < x => <<y, x>> \in R
  BY <1>1
<1>3. SUFFICES ASSUME Nat \ T # {} PROVE FALSE
  OBVIOUS
<1>4. PICK x \in Nat \ T : \A y \in Nat \ T : ~ (<<y, x>> \in R)
  BY <1>2, <1>3, WFMin
<1>5. x # 0 /\ x - 1 \in Nat /\ x - 1 < x /\ (x - 1) + 1 = x
  BY <1>4
<1>6. x - 1 \notin Nat \ T
  BY <1>2, <1>4, <1>5
<1> QED
  BY <1>4, <1>5, <1>6

\* What an element, and a sequence, add at the end.
LEMMA AppendRange ==
  ASSUME NEW X, NEW s \in Seq(X), NEW e \in X
  PROVE  /\ Append(s, e) \in Seq(X) /\ Range(Append(s, e)) = Range(s) \cup {e}
         /\ IsInjective(s) /\ e \notin Range(s) => IsInjective(Append(s, e))
<1>1. /\ Append(s, e) \in Seq(X) /\ Len(Append(s, e)) = Len(s) + 1 /\ DOMAIN Append(s, e) = 1 .. Len(s) + 1
      /\ \A i \in 1 .. Len(s) : Append(s, e)[i] = s[i]
      /\ Append(s, e)[Len(s) + 1] = e
      /\ DOMAIN s = 1 .. Len(s) /\ Len(s) \in Nat
  OBVIOUS
<1>2. Range(Append(s, e)) = Range(s) \cup {e}
  BY <1>1 DEF Range
<1>3. ASSUME IsInjective(s), e \notin Range(s) PROVE IsInjective(Append(s, e))
  BY <1>1, <1>3 DEF Range, IsInjective
<1> QED
  BY <1>1, <1>2, <1>3

LEMMA ConcatRange ==
  ASSUME NEW X, NEW s \in Seq(X), NEW t \in Seq(X)
  PROVE  /\ s \o t \in Seq(X) /\ Range(s \o t) = Range(s) \cup Range(t)
         /\ IsInjective(s) /\ IsInjective(t) /\ Range(s) \cap Range(t) = {} => IsInjective(s \o t)
<1>1. /\ s \o t \in Seq(X) /\ Len(s \o t) = Len(s) + Len(t) /\ DOMAIN (s \o t) = 1 .. Len(s) + Len(t)
      /\ \A i \in 1 .. Len(s) : (s \o t)[i] = s[i]
      /\ \A i \in Len(s) + 1 .. Len(s) + Len(t) : (s \o t)[i] = t[i - Len(s)]
      /\ DOMAIN s = 1 .. Len(s) /\ Len(s) \in Nat /\ DOMAIN t = 1 .. Len(t) /\ Len(t) \in Nat
  OBVIOUS
<1>2. ASSUME NEW i \in DOMAIN (s \o t) PROVE \/ i \in DOMAIN s /\ (s \o t)[i] = s[i]
                                             \/ i - Len(s) \in DOMAIN t /\ (s \o t)[i] = t[i - Len(s)]
  BY <1>1
<1>3. Range(s \o t) = Range(s) \cup Range(t)
  <2>1. ASSUME NEW k \in DOMAIN t PROVE k + Len(s) \in DOMAIN (s \o t) /\ (s \o t)[k + Len(s)] = t[k]
    BY <1>1
  <2>2. \A k \in DOMAIN s : k \in DOMAIN (s \o t) /\ (s \o t)[k] = s[k]
    BY <1>1
  <2>3. Range(s \o t) \subseteq Range(s) \cup Range(t)
    BY <1>2 DEF Range
  <2>4. Range(s) \subseteq Range(s \o t)
    BY <2>2 DEF Range
  <2>5. Range(t) \subseteq Range(s \o t)
    BY <2>1 DEF Range
  <2> QED
    BY <2>3, <2>4, <2>5
<1>4. ASSUME IsInjective(s), IsInjective(t), Range(s) \cap Range(t) = {} PROVE IsInjective(s \o t)
  <2> SUFFICES ASSUME NEW i \in DOMAIN (s \o t), NEW j \in DOMAIN (s \o t), (s \o t)[i] = (s \o t)[j] PROVE i = j
    BY DEF IsInjective
  <2>1. CASE i \in DOMAIN s /\ (s \o t)[i] = s[i] /\ j \in DOMAIN s /\ (s \o t)[j] = s[j]
    BY <1>4, <2>1 DEF IsInjective
  <2>2. CASE /\ i - Len(s) \in DOMAIN t /\ (s \o t)[i] = t[i - Len(s)]
             /\ j - Len(s) \in DOMAIN t /\ (s \o t)[j] = t[j - Len(s)]
    <3>1. i - Len(s) = j - Len(s)
      BY <1>4, <2>2 DEF IsInjective
    <3> QED
      BY <3>1, <1>1
  <2>3. CASE i \in DOMAIN s /\ (s \o t)[i] = s[i] /\ j - Len(s) \in DOMAIN t /\ (s \o t)[j] = t[j - Len(s)]
    BY <1>4, <2>3 DEF Range
  <2>4. CASE j \in DOMAIN s /\ (s \o t)[j] = s[j] /\ i - Len(s) \in DOMAIN t /\ (s \o t)[i] = t[i - Len(s)]
    BY <1>4, <2>4 DEF Range
  <2> QED
    BY <1>2, <2>1, <2>2, <2>3, <2>4
<1> QED
  BY <1>1, <1>3, <1>4

-----------------------------------------------------------------------------
\* What is left of a sequence: its recursion has a solution, and what that is.
LEMMA WithoutRecurs ==
  ASSUME NEW X, NEW s \in Seq(X), NEW drop
  PROVE  \E f : /\ f = [k \in 0 .. Len(s) |->
                          IF k = 0 THEN <<>> ELSE IF s[k] \in drop THEN f[k - 1] ELSE Append(f[k - 1], s[k])]
                /\ Without(s, drop) = f[Len(s)]
<1> DEFINE Rec(f, k) == IF k = 0 THEN <<>> ELSE IF s[k] \in drop THEN f[k - 1] ELSE Append(f[k - 1], s[k])
           T == {n \in Nat : \E f : f = [k \in 0 .. n |-> Rec(f, k)]}
<1>1. 0 \in T
  <2>1. [k \in 0 .. 0 |-> <<>>] = [k \in 0 .. 0 |-> Rec([h \in 0 .. 0 |-> <<>>], k)]
    OBVIOUS
  <2> QED
    BY <2>1
<1>2. ASSUME NEW n \in T PROVE n + 1 \in T
  <2>1. PICK f : f = [k \in 0 .. n |-> Rec(f, k)]
    OBVIOUS
  <2>0. \A k \in 0 .. n : f[k] = Rec(f, k)
    <3> HIDE DEF Rec
    <3> QED
      BY <2>1
  <2> DEFINE g == [k \in 0 .. n + 1 |-> IF k = n + 1 THEN Rec(f, k) ELSE f[k]]
  <2>2. ASSUME NEW k \in 0 .. n + 1 PROVE g[k] = Rec(g, k)
    <3>1. CASE k = n + 1
      BY <3>1
    <3>2. CASE k # n + 1
      <4>1. k \in 0 .. n
        BY <3>2
      <4>2. f[k] = Rec(f, k)
        BY <2>0, <4>1
      <4>3. g[k] = f[k] /\ (k # 0 => g[k - 1] = f[k - 1])
        BY <4>1, <3>2
      <4> QED
        BY <4>2, <4>3
    <3> QED
      BY <3>1, <3>2
  <2>3. g = [k \in 0 .. n + 1 |-> Rec(g, k)]
    <3> HIDE DEF Rec
    <3> QED
      BY <2>2
  <2>4. n + 1 \in Nat
    OBVIOUS
  <2> HIDE DEF g, Rec
  <2> QED
    BY <2>3, <2>4
<1>3. Len(s) \in T
  <2>1. T \in SUBSET Nat
    OBVIOUS
  <2>2. T = Nat
    <3> HIDE DEF T
    <3> QED
      BY <1>1, <1>2, <2>1, Induction
  <2> HIDE DEF T
  <2> QED
    BY <2>2
<1> DEFINE kept == CHOOSE f : f = [k \in 0 .. Len(s) |->
                          IF k = 0 THEN <<>> ELSE IF s[k] \in drop THEN f[k - 1] ELSE Append(f[k - 1], s[k])]
<1>4. kept = [k \in 0 .. Len(s) |->
                IF k = 0 THEN <<>> ELSE IF s[k] \in drop THEN kept[k - 1] ELSE Append(kept[k - 1], s[k])]
  BY <1>3
<1>5. Without(s, drop) = kept[Len(s)]
  BY DEF Without
<1> QED
  BY <1>4, <1>5

\* What is left is the rest, each as often as it was.
LEMMA WithoutKeeps ==
  ASSUME NEW X, NEW s \in Seq(X), NEW drop
  PROVE  /\ Without(s, drop) \in Seq(X) /\ Range(Without(s, drop)) = Range(s) \ drop
         /\ IsInjective(s) => IsInjective(Without(s, drop))
<1>1. PICK f : /\ f = [k \in 0 .. Len(s) |->
                         IF k = 0 THEN <<>> ELSE IF s[k] \in drop THEN f[k - 1] ELSE Append(f[k - 1], s[k])]
               /\ Without(s, drop) = f[Len(s)]
  BY WithoutRecurs
<1>0. \A k \in 0 .. Len(s) :
        f[k] = IF k = 0 THEN <<>> ELSE IF s[k] \in drop THEN f[k - 1] ELSE Append(f[k - 1], s[k])
  <2> DEFINE Rec(k) == IF k = 0 THEN <<>> ELSE IF s[k] \in drop THEN f[k - 1] ELSE Append(f[k - 1], s[k])
  <2>1. f = [k \in 0 .. Len(s) |-> Rec(k)]
    BY <1>1
  <2> HIDE DEF Rec
  <2>2. \A k \in 0 .. Len(s) : f[k] = Rec(k)
    BY <2>1
  <2> QED
    BY <2>2 DEF Rec
<1> DEFINE Upto(k) == {s[h] : h \in 1 .. k}
           P(k) == /\ f[k] \in Seq(X) /\ Range(f[k]) = Upto(k) \ drop
                   /\ IsInjective(s) => IsInjective(f[k])
           T == {k \in Nat : k <= Len(s) => P(k)}
<1>2. 0 \in T
  <2>1. f[0] = <<>>
    BY <1>0
  <2>2. Range(<<>>) = {} /\ IsInjective(<<>>)
    BY DEF Range, IsInjective
  <2>3. Upto(0) = {}
    OBVIOUS
  <2>4. <<>> \in Seq(X)
    OBVIOUS
  <2> QED
    BY <2>1, <2>2, <2>3, <2>4
<1>3. ASSUME NEW k \in T PROVE k + 1 \in T
  <2> SUFFICES ASSUME k + 1 <= Len(s) PROVE P(k + 1)
    OBVIOUS
  <2>1. P(k) /\ k + 1 \in 0 .. Len(s) /\ k \in Nat /\ s[k + 1] \in X
    OBVIOUS
  <2>2. f[k + 1] = IF s[k + 1] \in drop THEN f[k] ELSE Append(f[k], s[k + 1])
    BY <1>0, <2>1
  <2>3. Upto(k + 1) = Upto(k) \cup {s[k + 1]}
    <3>1. 1 .. k + 1 = (1 .. k) \cup {k + 1}
      BY <2>1
    <3> QED
      BY <3>1
  <2>4. IsInjective(s) => s[k + 1] \notin Upto(k)
    BY <2>1 DEF IsInjective
  <2> HIDE DEF Upto
  <2>5. CASE s[k + 1] \in drop
    BY <2>1, <2>2, <2>3, <2>5
  <2>6. CASE s[k + 1] \notin drop
    <3>1. f[k + 1] = Append(f[k], s[k + 1])
      BY <2>2, <2>6
    <3>2. /\ f[k + 1] \in Seq(X) /\ Range(f[k + 1]) = Range(f[k]) \cup {s[k + 1]}
          /\ IsInjective(f[k]) /\ s[k + 1] \notin Range(f[k]) => IsInjective(f[k + 1])
      BY <2>1, <3>1, AppendRange
    <3> QED
      BY <2>1, <2>3, <2>4, <2>6, <3>2
  <2> QED
    BY <2>5, <2>6
<1>4. P(Len(s))
  <2>1. T \in SUBSET Nat
    OBVIOUS
  <2>2. T = Nat
    <3> HIDE DEF T
    <3> QED
      BY <1>2, <1>3, <2>1, Induction
  <2>3. Len(s) \in Nat
    OBVIOUS
  <2>4. Len(s) <= Len(s) => P(Len(s))
    <3> HIDE DEF P
    <3> QED
      BY <2>2, <2>3
  <2> QED
    BY <2>3, <2>4
<1>5. Upto(Len(s)) = Range(s)
  BY DEF Range
<1> QED
  BY <1>1, <1>4, <1>5

-----------------------------------------------------------------------------
\* The parts of a sequence of sequences, one after the other: the recursion of FlattenSeq.
LEMMA FlattenRecurs ==
  ASSUME NEW X, NEW ss \in Seq(Seq(X)), ss # <<>>
  PROVE  \E f : /\ \A i \in 1 .. Len(ss) : f[i] = IF i = 1 THEN ss[i] ELSE f[i - 1] \o ss[i]
                /\ FlattenSeq(ss) = f[Len(ss)]
<1> DEFINE Rec(f, i) == IF i = 1 THEN ss[i] ELSE f[i - 1] \o ss[i]
           T == {n \in Nat : \E f : f = [i \in 1 .. n |-> Rec(f, i)]}
<1>1. 0 \in T
  <2>1. [i \in 1 .. 0 |-> <<>>] = [i \in 1 .. 0 |-> Rec([h \in 1 .. 0 |-> <<>>], i)]
    OBVIOUS
  <2> HIDE DEF Rec
  <2> QED
    BY <2>1
<1>2. ASSUME NEW n \in T PROVE n + 1 \in T
  <2>1. PICK f : f = [i \in 1 .. n |-> Rec(f, i)]
    OBVIOUS
  <2>2. \A i \in 1 .. n : f[i] = Rec(f, i)
    <3> HIDE DEF Rec
    <3> QED
      BY <2>1
  <2> DEFINE g == [i \in 1 .. n + 1 |-> IF i = n + 1 THEN Rec(f, i) ELSE f[i]]
  <2>3. ASSUME NEW i \in 1 .. n + 1 PROVE g[i] = Rec(g, i)
    <3>1. CASE i = n + 1
      BY <3>1
    <3>2. CASE i # n + 1
      <4>1. i \in 1 .. n
        BY <3>2
      <4>2. f[i] = Rec(f, i)
        BY <2>2, <4>1
      <4>3. g[i] = f[i] /\ (i # 1 => g[i - 1] = f[i - 1])
        BY <4>1, <3>2
      <4> QED
        BY <4>2, <4>3
    <3> QED
      BY <3>1, <3>2
  <2>4. g = [i \in 1 .. n + 1 |-> Rec(g, i)]
    <3> HIDE DEF Rec
    <3> QED
      BY <2>3
  <2>5. n + 1 \in Nat
    OBVIOUS
  <2> HIDE DEF g, Rec
  <2> QED
    BY <2>4, <2>5
<1>3. Len(ss) \in T
  <2>1. T \in SUBSET Nat
    OBVIOUS
  <2>2. T = Nat
    <3> HIDE DEF T
    <3> QED
      BY <1>1, <1>2, <2>1, Induction
  <2> HIDE DEF T
  <2> QED
    BY <2>2
<1> DEFINE flatten == CHOOSE f : f = [i \in 1 .. Len(ss) |-> IF i = 1 THEN ss[i] ELSE f[i - 1] \o ss[i]]
<1>4. flatten = [i \in 1 .. Len(ss) |-> Rec(flatten, i)]
  BY <1>3
<1>5. \A i \in 1 .. Len(ss) : flatten[i] = Rec(flatten, i)
  <2> HIDE DEF flatten, Rec
  <2> QED
    BY <1>4
<1>6. FlattenSeq(ss) = flatten[Len(ss)]
  BY DEF FlattenSeq
<1> HIDE DEF flatten
<1> QED
  BY <1>5, <1>6

\* All of the parts, each element once where the parts share none.
LEMMA FlattenKeeps ==
  ASSUME NEW X, NEW ss \in Seq(Seq(X))
  PROVE  /\ FlattenSeq(ss) \in Seq(X)
         /\ Range(FlattenSeq(ss)) = UNION {Range(ss[i]) : i \in DOMAIN ss}
         /\ (/\ \A i \in DOMAIN ss : IsInjective(ss[i])
             /\ \A i, j \in DOMAIN ss : i # j => Range(ss[i]) \cap Range(ss[j]) = {})
            => IsInjective(FlattenSeq(ss))
<1> DEFINE Apart == /\ \A i \in DOMAIN ss : IsInjective(ss[i])
                    /\ \A i, j \in DOMAIN ss : i # j => Range(ss[i]) \cap Range(ss[j]) = {}
<1>1. CASE ss = <<>>
  <2>1. FlattenSeq(ss) = <<>>
    BY <1>1 DEF FlattenSeq
  <2>2. DOMAIN ss = {} /\ <<>> \in Seq(X) /\ Range(<<>>) = {} /\ IsInjective(<<>>)
    BY <1>1 DEF Range, IsInjective
  <2> QED
    BY <2>1, <2>2
<1>2. CASE ss # <<>>
  <2>1. PICK f : /\ \A i \in 1 .. Len(ss) : f[i] = IF i = 1 THEN ss[i] ELSE f[i - 1] \o ss[i]
                 /\ FlattenSeq(ss) = f[Len(ss)]
    BY <1>2, FlattenRecurs
  <2> DEFINE Upto(k) == UNION {Range(ss[h]) : h \in 1 .. k}
             P(k) == f[k] \in Seq(X) /\ Range(f[k]) = Upto(k) /\ (Apart => IsInjective(f[k]))
             T == {k \in Nat : k + 1 <= Len(ss) => P(k + 1)}
  <2>2. DOMAIN ss = 1 .. Len(ss) /\ Len(ss) \in Nat /\ Len(ss) >= 1 /\ \A i \in 1 .. Len(ss) : ss[i] \in Seq(X)
    BY <1>2
  <2>3. 0 \in T
    <3>1. f[1] = ss[1] /\ ss[1] \in Seq(X)
      BY <2>1, <2>2
    <3>2. Upto(1) = Range(ss[1])
      <4>1. 1 .. 1 = {1}
        OBVIOUS
      <4> QED
        BY <4>1
    <3>3. Apart => IsInjective(ss[1])
      <4>1. 1 \in DOMAIN ss
        BY <2>2
      <4> QED
        BY <4>1
    <3> HIDE DEF Upto, Apart
    <3> QED
      BY <3>1, <3>2, <3>3
  <2>4. ASSUME NEW n \in T PROVE n + 1 \in T
    <3> DEFINE k == n + 1
    <3> SUFFICES ASSUME k + 1 <= Len(ss) PROVE P(k + 1)
      OBVIOUS
    <3>1. P(k) /\ k \in 1 .. Len(ss) /\ k + 1 \in 1 .. Len(ss) /\ k + 1 # 1
      OBVIOUS
    <3> HIDE DEF k
    <3>2. f[k + 1] = f[k] \o ss[k + 1] /\ ss[k + 1] \in Seq(X)
      <4>1. (k + 1) - 1 = k
        BY <3>1
      <4> QED
        BY <2>1, <2>2, <3>1, <4>1
    <3>3. Upto(k + 1) = Upto(k) \cup Range(ss[k + 1])
      <4>1. 1 .. k + 1 = (1 .. k) \cup {k + 1}
        BY <3>1
      <4> QED
        BY <4>1
    <3>4. Apart => IsInjective(ss[k + 1]) /\ Upto(k) \cap Range(ss[k + 1]) = {}
      <4> SUFFICES ASSUME Apart PROVE IsInjective(ss[k + 1]) /\ Upto(k) \cap Range(ss[k + 1]) = {}
        OBVIOUS
      <4>1. ASSUME NEW h \in 1 .. k PROVE Range(ss[h]) \cap Range(ss[k + 1]) = {}
        <5>1. h \in DOMAIN ss /\ k + 1 \in DOMAIN ss /\ h # k + 1
          BY <2>2, <3>1
        <5> QED
          BY <5>1
      <4>2. IsInjective(ss[k + 1])
        BY <2>2, <3>1
      <4> QED
        BY <4>1, <4>2
    <3> HIDE DEF Upto, Apart
    <3>5. /\ f[k + 1] \in Seq(X) /\ Range(f[k + 1]) = Range(f[k]) \cup Range(ss[k + 1])
          /\ IsInjective(f[k]) /\ IsInjective(ss[k + 1]) /\ Range(f[k]) \cap Range(ss[k + 1]) = {} => IsInjective(f[k + 1])
      BY <3>1, <3>2, ConcatRange
    <3> QED
      BY <3>1, <3>3, <3>4, <3>5
  <2>5. P(Len(ss))
    <3>1. T \in SUBSET Nat
      OBVIOUS
    <3>2. T = Nat
      <4> HIDE DEF T
      <4> QED
        BY <2>3, <2>4, <3>1, Induction
    <3>3. Len(ss) - 1 \in Nat /\ (Len(ss) - 1) + 1 = Len(ss)
      BY <2>2
    <3>4. (Len(ss) - 1) + 1 <= Len(ss) => P((Len(ss) - 1) + 1)
      <4> HIDE DEF P
      <4> QED
        BY <3>2, <3>3
    <3>5. Len(ss) <= Len(ss)
      BY <2>2
    <3> HIDE DEF P
    <3> QED
      BY <3>3, <3>4, <3>5
  <2>6. Upto(Len(ss)) = UNION {Range(ss[i]) : i \in DOMAIN ss}
    BY <2>2
  <2> HIDE DEF Upto
  <2> QED
    BY <2>1, <2>5, <2>6
<1> QED
  BY <1>1, <1>2

-----------------------------------------------------------------------------
(* Items: sequences of ids, each id in one of them.                        *)

\* The facts of OnceEach that are used below.
LEMMA OnceEachFacts ==
  ASSUME NEW groups, NEW ids, OnceEach(groups, ids)
  PROVE  /\ groups \in Seq(Seq(Test)) /\ DOMAIN groups = 1 .. Len(groups) /\ Len(groups) \in Nat
         /\ Range(groups) \subseteq Seq(Test)
         /\ ids = UNION {Range(g) : g \in Range(groups)} /\ ids \subseteq Test
<1>1. groups \in Seq(Seq(Test)) /\ Ids(groups) = ids
  BY DEF OnceEach
<1>2. DOMAIN groups = 1 .. Len(groups) /\ Len(groups) \in Nat /\ \A i \in DOMAIN groups : groups[i] \in Seq(Test)
  BY <1>1
<1>3. Range(groups) \subseteq Seq(Test)
  BY <1>2 DEF Range
<1>4. ids = UNION {Range(g) : g \in Range(groups)}
  <2>1. {Range(groups[i]) : i \in DOMAIN groups} = {Range(g) : g \in {groups[x] : x \in DOMAIN groups}}
    OBVIOUS
  <2> QED
    BY <1>1, <2>1 DEF Ids, Range
<1>5. \A g \in Seq(Test) : Range(g) \subseteq Test
  BY DEF Range
<1> QED
  BY <1>1, <1>2, <1>3, <1>4, <1>5

\* Whether each id is there once is a matter of which items there are.
LEMMA OnceEachBySet ==
  ASSUME NEW some \in Seq(Seq(Test)), IsInjective(some), NEW groups, NEW ids, OnceEach(groups, ids),
         Range(some) = Range(groups)
  PROVE  OnceEach(some, ids)
<1>1. Ids(some) = UNION {Range(g) : g \in Range(some)}
  <2>1. {Range(some[i]) : i \in DOMAIN some} = {Range(g) : g \in {some[x] : x \in DOMAIN some}}
    OBVIOUS
  <2> QED
    BY <2>1 DEF Ids, Range
<1>2. Ids(some) = ids
  BY <1>1, OnceEachFacts
<1> QED
  BY <1>2 DEF OnceEach

\* What a state's items are flattened to: each id once.
LEMMA FlattenedOnce ==
  ASSUME NEW groups, NEW ids, OnceEach(groups, ids)
  PROVE  /\ Range(FlattenSeq(groups)) = ids
         /\ Len(FlattenSeq(groups)) = Cardinality(Range(FlattenSeq(groups)))
<1> DEFINE flat == FlattenSeq(groups)
<1>1. groups \in Seq(Seq(Test)) /\ Ids(groups) = ids /\ DOMAIN groups = 1 .. Len(groups)
  BY OnceEachFacts DEF OnceEach
<1>2. \A i \in DOMAIN groups : IsInjective(groups[i])
  BY DEF OnceEach, Range
<1>3. ASSUME NEW i \in DOMAIN groups, NEW j \in DOMAIN groups, i # j
      PROVE  Range(groups[i]) \cap Range(groups[j]) = {}
  <2>1. groups[i] # groups[j]
    BY <1>3 DEF OnceEach, IsInjective
  <2>2. groups[i] \in Range(groups) /\ groups[j] \in Range(groups)
    BY DEF Range
  <2> QED
    BY <2>1, <2>2 DEF OnceEach
<1>4. /\ flat \in Seq(Test) /\ IsInjective(flat)
      /\ Range(flat) = UNION {Range(groups[i]) : i \in DOMAIN groups}
  BY <1>1, <1>2, <1>3, FlattenKeeps
<1>5. Range(flat) = ids
  BY <1>1, <1>4 DEF Ids
<1> HIDE DEF flat
<1>6. Len(flat) \in Nat /\ DOMAIN flat = 1 .. Len(flat) /\ flat \in [1 .. Len(flat) -> Range(flat)]
  BY <1>4 DEF Range
<1>7. flat \in Bijection(1 .. Len(flat), Range(flat))
  <2>1. \A t \in Range(flat) : \E i \in 1 .. Len(flat) : flat[i] = t
    BY <1>6 DEF Range
  <2> QED
    BY <1>4, <1>6, <2>1 DEF Bijection, Injection, Surjection, IsInjective
<1>8. Cardinality(Range(flat)) = Len(flat)
  BY <1>6, <1>7, FS_CountingElements DEF ExistsBijection
<1> QED
  BY <1>5, <1>8 DEF flat

\* Items that have disjoint sets of ids, one after the other.
LEMMA OnceEachJoined ==
  ASSUME NEW ss \in Seq(Seq(Seq(Test))), NEW ids,
         \A i \in DOMAIN ss : OnceEach(ss[i], ids[i]),
         \A i, j \in DOMAIN ss : i # j => ids[i] \cap ids[j] = {}
  PROVE  OnceEach(FlattenSeq(ss), UNION {ids[i] : i \in DOMAIN ss})
<1> DEFINE all == FlattenSeq(ss)
<1>1. ASSUME NEW i \in DOMAIN ss, NEW g \in Range(ss[i])
      PROVE  g \in Seq(Test) /\ g # <<>> /\ Range(g) # {} /\ Range(g) \subseteq ids[i] /\ IsInjective(g)
  <2>0. OnceEach(ss[i], ids[i])
    OBVIOUS
  <2>1. g \in Seq(Test) /\ g # <<>> /\ IsInjective(g) /\ Range(g) \subseteq ids[i]
    <3>1. Range(ss[i]) \subseteq Seq(Test) /\ ids[i] = UNION {Range(h) : h \in Range(ss[i])}
      BY <2>0, OnceEachFacts
    <3>2. g # <<>> /\ IsInjective(g)
      BY <2>0 DEF OnceEach
    <3> QED
      BY <3>1, <3>2
  <2>2. 1 \in DOMAIN g
    BY <2>1
  <2> QED
    BY <2>1, <2>2 DEF Range
<1>2. ASSUME NEW i \in DOMAIN ss, NEW j \in DOMAIN ss, i # j PROVE Range(ss[i]) \cap Range(ss[j]) = {}
  <2> SUFFICES ASSUME NEW g \in Range(ss[i]), g \in Range(ss[j]) PROVE FALSE
    OBVIOUS
  <2>1. Range(g) # {} /\ Range(g) \subseteq ids[i] /\ Range(g) \subseteq ids[j]
    BY <1>1
  <2>2. ids[i] \cap ids[j] = {}
    BY <1>2
  <2> QED
    BY <2>1, <2>2
<1>3. \A i \in DOMAIN ss : IsInjective(ss[i])
  BY DEF OnceEach
<1>4. all \in Seq(Seq(Test)) /\ IsInjective(all) /\ Range(all) = UNION {Range(ss[i]) : i \in DOMAIN ss}
  BY <1>2, <1>3, FlattenKeeps
<1> HIDE DEF all
<1>5. \A g \in Range(all) : g # <<>> /\ IsInjective(g)
  BY <1>1, <1>4
<1>6. ASSUME NEW g \in Range(all), NEW h \in Range(all), g # h PROVE Range(g) \cap Range(h) = {}
  <2>1. PICK i \in DOMAIN ss : g \in Range(ss[i])
    BY <1>4
  <2>2. PICK j \in DOMAIN ss : h \in Range(ss[j])
    BY <1>4
  <2>3. CASE i = j
    BY <1>6, <2>1, <2>2, <2>3 DEF OnceEach
  <2>4. CASE i # j
    BY <1>1, <2>1, <2>2, <2>4
  <2> QED
    BY <2>3, <2>4
<1>7. Ids(all) = UNION {ids[i] : i \in DOMAIN ss}
  <2>1. Ids(all) = UNION {Range(g) : g \in Range(all)}
    <3>1. {Range(all[i]) : i \in DOMAIN all} = {Range(g) : g \in {all[x] : x \in DOMAIN all}}
      OBVIOUS
    <3> QED
      BY <3>1 DEF Ids, Range
  <2>2. \A i \in DOMAIN ss : ids[i] = UNION {Range(g) : g \in Range(ss[i])}
    BY OnceEachFacts
  <2>3. ASSUME NEW x \in Ids(all) PROVE \E i \in DOMAIN ss : x \in ids[i]
    BY <1>1, <1>4, <2>1
  <2>4. ASSUME NEW i \in DOMAIN ss, NEW x \in ids[i] PROVE x \in Ids(all)
    <3>1. PICK g \in Range(ss[i]) : x \in Range(g)
      BY <2>2
    <3>2. g \in Range(all)
      BY <1>4
    <3> QED
      BY <2>1, <3>1, <3>2
  <2> QED
    BY <2>3, <2>4
<1> QED
  BY <1>4, <1>5, <1>6, <1>7 DEF OnceEach, all

\* Items that are taken out take their ids with them.
LEMMA OnceEachWithout ==
  ASSUME NEW groups, NEW ids, OnceEach(groups, ids), NEW drop
  PROVE  OnceEach(Without(groups, drop), ids \ UNION {Range(g) : g \in drop \cap Range(groups)})
<1> DEFINE left == Without(groups, drop)
<1>1. groups \in Seq(Seq(Test)) /\ IsInjective(groups) /\ ids = UNION {Range(g) : g \in Range(groups)}
  BY OnceEachFacts DEF OnceEach
<1>2. left \in Seq(Seq(Test)) /\ Range(left) = Range(groups) \ drop /\ IsInjective(left)
  BY <1>1, WithoutKeeps
<1> HIDE DEF left
<1>3. /\ \A g \in Range(left) : g # <<>> /\ IsInjective(g)
      /\ \A g, h \in Range(left) : g # h => Range(g) \cap Range(h) = {}
  BY <1>2 DEF OnceEach
<1>4. Ids(left) = UNION {Range(g) : g \in Range(left)}
  <2>1. {Range(left[i]) : i \in DOMAIN left} = {Range(g) : g \in {left[x] : x \in DOMAIN left}}
    OBVIOUS
  <2> QED
    BY <2>1 DEF Ids, Range
<1>5. UNION {Range(g) : g \in Range(left)} = ids \ UNION {Range(g) : g \in drop \cap Range(groups)}
  <2>1. \A g, h \in Range(groups) : g # h => Range(g) \cap Range(h) = {}
    BY DEF OnceEach
  <2> QED
    BY <1>1, <1>2, <2>1
<1> QED
  BY <1>2, <1>3, <1>4, <1>5 DEF OnceEach, left

\* One item of what is left.
LEMMA ItemOnce ==
  ASSUME NEW g \in Seq(Test), IsInjective(g)
  PROVE  OnceEach(Item(g), Range(g))
<1>1. CASE g = <<>>
  <2>1. Item(g) = <<>>
    BY <1>1 DEF Item
  <2>2. <<>> \in Seq(Seq(Test)) /\ Range(<<>>) = {} /\ IsInjective(<<>>) /\ Ids(<<>>) = {}
    BY DEF Range, IsInjective, Ids
  <2> QED
    BY <1>1, <2>1, <2>2 DEF OnceEach
<1>2. CASE g # <<>>
  <2>1. Item(g) = <<g>>
    BY <1>2 DEF Item
  <2>2. <<g>> \in Seq(Seq(Test)) /\ DOMAIN <<g>> = {1} /\ <<g>>[1] = g
    OBVIOUS
  <2>3. Range(<<g>>) = {g} /\ IsInjective(<<g>>) /\ Ids(<<g>>) = Range(g)
    BY <2>2 DEF Range, IsInjective, Ids
  <2> QED
    BY <1>2, <2>1, <2>2, <2>3 DEF OnceEach
<1> QED
  BY <1>1, <1>2

\* Items of other ids after these.
LEMMA TwoOnce ==
  ASSUME NEW a, NEW b, NEW s, NEW t, OnceEach(a, s), OnceEach(b, t), s \cap t = {}
  PROVE  OnceEach(a \o b, s \cup t)
<1>1. a \in Seq(Seq(Test)) /\ IsInjective(a) /\ s = UNION {Range(g) : g \in Range(a)}
  BY OnceEachFacts DEF OnceEach
<1>2. b \in Seq(Seq(Test)) /\ IsInjective(b) /\ t = UNION {Range(g) : g \in Range(b)}
  BY OnceEachFacts DEF OnceEach
<1>3. ASSUME NEW g \in Range(a) \cup Range(b) PROVE g # <<>> /\ IsInjective(g) /\ Range(g) # {}
  <2>1. g \in Seq(Test) /\ g # <<>> /\ IsInjective(g)
    BY OnceEachFacts DEF OnceEach
  <2>2. 1 \in DOMAIN g
    BY <2>1
  <2> QED
    BY <2>1, <2>2 DEF Range
<1>4. Range(a) \cap Range(b) = {}
  BY <1>1, <1>2, <1>3
<1> DEFINE c == a \o b
<1>5. c \in Seq(Seq(Test)) /\ Range(c) = Range(a) \cup Range(b) /\ IsInjective(c)
  BY <1>1, <1>2, <1>4, ConcatRange
<1> HIDE DEF c
<1>6. Ids(c) = UNION {Range(g) : g \in Range(c)}
  <2>1. {Range(c[i]) : i \in DOMAIN c} = {Range(g) : g \in {c[x] : x \in DOMAIN c}}
    OBVIOUS
  <2> QED
    BY <2>1 DEF Ids, Range
<1>7. Ids(c) = s \cup t
  BY <1>1, <1>2, <1>5, <1>6
<1>8. \A g, h \in Range(c) : g # h => Range(g) \cap Range(h) = {}
  <2>1. \A g, h \in Range(a) : g # h => Range(g) \cap Range(h) = {}
    BY DEF OnceEach
  <2>2. \A g, h \in Range(b) : g # h => Range(g) \cap Range(h) = {}
    BY DEF OnceEach
  <2>3. \A g \in Range(a), h \in Range(b) : Range(g) \subseteq s /\ Range(h) \subseteq t
    BY <1>1, <1>2
  <2>4. \A g \in Range(a), h \in Range(b) : Range(g) \cap Range(h) = {} /\ Range(h) \cap Range(g) = {}
    BY <2>3
  <2> QED
    BY <1>5, <2>1, <2>2, <2>4
<1> QED
  BY <1>3, <1>5, <1>7, <1>8 DEF OnceEach, c

\* An item that was cut, in its two halves.
LEMMA HalvesOnce ==
  ASSUME NEW g \in Seq(Test), IsInjective(g)
  PROVE  OnceEach(Halves(g), Range(g))
<1>0. Len(g) \in Nat /\ (Len(g) + 1) \div 2 \in 0 .. Len(g)
  OBVIOUS
<1>1. PICK half \in 0 .. Len(g) : half = (Len(g) + 1) \div 2
  BY <1>0
<1> DEFINE a == SubSeq(g, 1, half)
           b == SubSeq(g, half + 1, Len(g))
<1>1a. half \in 0 .. Len(g) /\ Len(g) \in Nat /\ DOMAIN g = 1 .. Len(g)
  BY <1>0
<1>2. /\ a \in Seq(Test) /\ Len(a) = half /\ \A i \in 1 .. half : a[i] = g[i]
      /\ b \in Seq(Test) /\ Len(b) = Len(g) - half /\ \A i \in 1 .. Len(g) - half : b[i] = g[half + i]
  <2>1. a \in Seq(Test) /\ Len(a) = half /\ \A i \in 1 .. half : a[i] = g[i]
    BY <1>1a
  <2>2. b \in Seq(Test) /\ Len(b) = Len(g) - half
    <3>1. half + 1 \in Int /\ Len(g) \in Int /\ half + 1 <= Len(g) + 1 /\ 1 <= half + 1
      BY <1>1a
    <3>2. \A i \in half + 1 .. Len(g) : g[i] \in Test
      BY <1>1a
    <3>3. /\ SubSeq(g, half + 1, Len(g)) \in Seq(Test)
          /\ Len(SubSeq(g, half + 1, Len(g))) = IF half + 1 <= Len(g) THEN Len(g) - (half + 1) + 1 ELSE 0
      BY <3>1, <3>2, SubSeqProperties
    <3>4. (half + 1 <= Len(g) => Len(g) - half = Len(g) - (half + 1) + 1) /\ (~(half + 1 <= Len(g)) => Len(g) - half = 0)
      <4>1. PICK n \in Nat : n = Len(g)
        BY <1>1a
      <4>2. half \in Nat /\ half <= n
        BY <1>1a, <4>1
      <4>3. (half + 1 <= n => n - half = n - (half + 1) + 1) /\ (~(half + 1 <= n) => n - half = 0)
        BY <4>2
      <4> QED
        BY <4>1, <4>3
    <3> QED
      BY <3>3, <3>4
  <2>3. \A i \in 1 .. Len(g) - half : b[i] = g[half + i]
    BY <1>1a
  <2> QED
    BY <2>1, <2>2, <2>3
<1> HIDE DEF a, b
<1>3. DOMAIN a = 1 .. half /\ DOMAIN b = 1 .. Len(g) - half
  BY <1>2
<1>4. IsInjective(a)
  BY <1>1a, <1>2, <1>3 DEF IsInjective
<1>5. IsInjective(b)
  <2> SUFFICES ASSUME NEW i \in DOMAIN b, NEW j \in DOMAIN b, b[i] = b[j] PROVE i = j
    BY DEF IsInjective
  <2>1. half + i \in DOMAIN g /\ half + j \in DOMAIN g /\ g[half + i] = g[half + j]
    BY <1>1a, <1>2, <1>3
  <2>2. half + i = half + j
    BY <2>1 DEF IsInjective
  <2> QED
    BY <1>1a, <1>3, <2>2
<1>6. Range(a) \cap Range(b) = {}
  <2> SUFFICES ASSUME NEW i \in DOMAIN a, NEW j \in DOMAIN b, a[i] = b[j] PROVE FALSE
    BY DEF Range
  <2>1. i \in DOMAIN g /\ half + j \in DOMAIN g /\ g[i] = g[half + j]
    BY <1>1a, <1>2, <1>3
  <2>2. i = half + j
    BY <2>1 DEF IsInjective
  <2> QED
    BY <1>1a, <1>3, <2>2
<1>7. Range(a) \cup Range(b) = Range(g)
  <2>1. ASSUME NEW i \in DOMAIN g PROVE g[i] \in Range(a) \cup Range(b)
    <3>1. CASE i <= half
      BY <1>1a, <1>2, <1>3, <3>1 DEF Range
    <3>2. CASE i > half
      <4>1. i - half \in DOMAIN b /\ b[i - half] = g[i]
        BY <1>1a, <1>2, <1>3, <3>2
      <4> QED
        BY <4>1 DEF Range
    <3> QED
      BY <1>1, <3>1, <3>2
  <2>2. \A i \in DOMAIN a : a[i] \in Range(g)
    BY <1>1a, <1>2, <1>3 DEF Range
  <2>3. ASSUME NEW i \in DOMAIN b PROVE b[i] \in Range(g)
    <3>1. half + i \in DOMAIN g /\ b[i] = g[half + i]
      BY <1>1a, <1>2, <1>3
    <3> QED
      BY <3>1 DEF Range
  <2>4. Range(g) \subseteq Range(a) \cup Range(b)
    BY <2>1 DEF Range
  <2>5. Range(a) \subseteq Range(g) /\ Range(b) \subseteq Range(g)
    BY <2>2, <2>3 DEF Range
  <2> QED
    BY <2>4, <2>5
<1>8. OnceEach(Item(a) \o Item(b), Range(a) \cup Range(b))
  BY <1>2, <1>4, <1>5, <1>6, ItemOnce, TwoOnce
<1>9. Halves(g) = Item(a) \o Item(b)
  BY <1>1 DEF Halves, a, b
<1> QED
  BY <1>7, <1>8, <1>9

-----------------------------------------------------------------------------
(* What a fold and a plan do with the items of a run.                      *)

\* A sequence without its first element.
LEMMA TailKeeps ==
  ASSUME NEW X, NEW s \in Seq(X), s # <<>>, IsInjective(s)
  PROVE  /\ Tail(s) \in Seq(X) /\ IsInjective(Tail(s))
         /\ Range(Tail(s)) = Range(s) \ {s[1]} /\ s[1] \in Range(s)
<1> DEFINE t == Tail(s)
<1>1. /\ t \in Seq(X) /\ DOMAIN t = 1 .. Len(s) - 1 /\ DOMAIN s = 1 .. Len(s) /\ Len(s) \in Nat /\ Len(s) >= 1
      /\ \A i \in 1 .. Len(s) - 1 : t[i] = s[i + 1]
  OBVIOUS
<1> HIDE DEF t
<1>2. \A i \in DOMAIN t : i + 1 \in DOMAIN s /\ i + 1 # 1 /\ t[i] = s[i + 1]
  BY <1>1
<1>3. \A j \in DOMAIN s : j # 1 => j - 1 \in DOMAIN t /\ t[j - 1] = s[j]
  BY <1>1
<1>4. IsInjective(t)
  <2> SUFFICES ASSUME NEW i \in DOMAIN t, NEW j \in DOMAIN t, t[i] = t[j] PROVE i = j
    BY DEF IsInjective
  <2>1. i + 1 = j + 1
    BY <1>2 DEF IsInjective
  <2> QED
    BY <1>1, <2>1
<1>5. 1 \in DOMAIN s
  BY <1>1
<1>6. Range(t) \subseteq Range(s) \ {s[1]}
  BY <1>2, <1>5 DEF Range, IsInjective
<1>7. Range(s) \ {s[1]} \subseteq Range(t)
  BY <1>3 DEF Range
<1> QED
  BY <1>1, <1>4, <1>5, <1>6, <1>7 DEF Range, t

\* A function on 1 .. n is a sequence.
LEMMA AsSequence ==
  ASSUME NEW X, NEW n \in Nat, NEW s \in [1 .. n -> X]
  PROVE  s \in Seq(X) /\ DOMAIN s = 1 .. n /\ Len(s) = n
OBVIOUS

\* What a round decides of an item's ids, and what of them runs again: each id in one of the two.
LEMMA ItemFolds ==
  ASSUME NEW round, NEW streams, NEW seen, NEW i \in DOMAIN round.items,
         round.items[i] \in Seq(Test), IsInjective(round.items[i]),
         NEW f, f = Folded(round, streams, seen, i), ~ (f.kind = "top" /\ f.rest = <<>>)
  PROVE  /\ f.told \cup DOMAIN Verdicts(f) \subseteq Range(round.items[i])
         /\ OnceEach(Again(f), Range(round.items[i]) \ (f.told \cup DOMAIN Verdicts(f)))
<1> DEFINE g == round.items[i]
           rest == Without(g, streams[i].told)
<1>1. /\ f.rest = rest /\ f.told = streams[i].told \cap Range(g) /\ f.hit = streams[i].started
      /\ f.kind \in {"exit", "closed", "top", "hog", "cut"}
      /\ f.kind = "exit" => f.hit \in Range(f.rest)
  BY DEF Folded
<1>2. /\ rest \in Seq(Test) /\ IsInjective(rest) /\ Range(rest) = Range(g) \ streams[i].told
  BY WithoutKeeps
<1> HIDE DEF rest, g
<1>3. Range(f.rest) = Range(g) \ f.told /\ f.rest \in Seq(Test) /\ IsInjective(f.rest) /\ f.told \subseteq Range(g)
  BY <1>1, <1>2
<1>4. SUFFICES /\ DOMAIN Verdicts(f) \subseteq Range(f.rest)
               /\ OnceEach(Again(f), Range(f.rest) \ DOMAIN Verdicts(f))
  <2>1. Range(f.rest) \ DOMAIN Verdicts(f) = Range(g) \ (f.told \cup DOMAIN Verdicts(f))
    BY <1>3
  <2> QED
    BY <1>3, <1>4, <2>1 DEF g
<1>5. OnceEach(<<>>, {})
  <2>1. <<>> \in Seq(Test) /\ IsInjective(<<>>) /\ Range(<<>>) = {}
    BY DEF Range, IsInjective
  <2>2. Item(<<>>) = <<>>
    BY DEF Item
  <2>3. OnceEach(Item(<<>>), Range(<<>>))
    BY <2>1, ItemOnce
  <2> QED
    BY <2>1, <2>2, <2>3
<1>6. CASE f.kind = "exit"
  <2>1. DOMAIN Verdicts(f) = {f.hit} /\ Again(f) = Item(Without(f.rest, {f.hit}))
    BY <1>6 DEF Verdicts, Again, Cells
  <2>2. /\ Without(f.rest, {f.hit}) \in Seq(Test) /\ IsInjective(Without(f.rest, {f.hit}))
        /\ Range(Without(f.rest, {f.hit})) = Range(f.rest) \ {f.hit}
    BY <1>3, WithoutKeeps
  <2>3. OnceEach(Item(Without(f.rest, {f.hit})), Range(f.rest) \ {f.hit})
    BY <2>2, ItemOnce
  <2> QED
    BY <1>1, <1>6, <2>1, <2>3
<1>7. CASE f.kind = "closed" \/ f.kind = "hog"
  <2>1. DOMAIN Verdicts(f) = Range(f.rest) /\ Again(f) = <<>>
    BY <1>7 DEF Verdicts, Again, Cells
  <2> QED
    BY <1>5, <2>1
<1>8. CASE f.kind = "top"
  <2>1. DOMAIN Verdicts(f) = {f.rest[1]} /\ Again(f) = Item(Tail(f.rest))
    BY <1>8 DEF Verdicts, Again, Cells
  <2>2. /\ Tail(f.rest) \in Seq(Test) /\ IsInjective(Tail(f.rest))
        /\ Range(Tail(f.rest)) = Range(f.rest) \ {f.rest[1]} /\ f.rest[1] \in Range(f.rest)
    BY <1>3, <1>8, TailKeeps
  <2>3. OnceEach(Item(Tail(f.rest)), Range(f.rest) \ {f.rest[1]})
    BY <2>2, ItemOnce
  <2> QED
    BY <2>1, <2>2, <2>3
<1>9. CASE f.kind = "cut"
  <2>1. DOMAIN Verdicts(f) = {} /\ Again(f) = Halves(f.rest)
    BY <1>9 DEF Verdicts, Again, Cells
  <2>2. OnceEach(Halves(f.rest), Range(f.rest))
    BY <1>3, HalvesOnce
  <2>3. Range(f.rest) \ DOMAIN Verdicts(f) = Range(f.rest)
    BY <2>1
  <2> QED
    BY <2>1, <2>2, <2>3
<1> QED
  BY <1>1, <1>6, <1>7, <1>8, <1>9

\* A finished round: every id of it has its cell, or is owed once.
LEMMA RoundFolds ==
  ASSUME NEW round, NEW streams, NEW seen, NEW ids, OnceEach(round.items, ids),
         \A i \in DOMAIN round.items :
           LET f == Folded(round, streams, seen, i) IN ~ (f.kind = "top" /\ f.rest = <<>>),
         NEW report, report = Report(round, streams, seen)
  PROVE  /\ DOMAIN report.cells \subseteq ids
         /\ OnceEach(report.owed, ids \ DOMAIN report.cells)
<1> DEFINE f == [i \in DOMAIN round.items |-> Folded(round, streams, seen, i)]
           decided(i) == f[i].told \cup DOMAIN Verdicts(f[i])
           left == [i \in DOMAIN round.items |-> Range(round.items[i]) \ decided(i)]
           again == [i \in DOMAIN f |-> Again(f[i])]
<1>1. /\ round.items \in Seq(Seq(Test)) /\ DOMAIN round.items = 1 .. Len(round.items) /\ Len(round.items) \in Nat
      /\ ids = UNION {Range(round.items[i]) : i \in DOMAIN round.items}
  BY OnceEachFacts DEF OnceEach, Ids
<1>2. DOMAIN f = DOMAIN round.items /\ DOMAIN again = DOMAIN round.items
  OBVIOUS
<1>3. \A i \in DOMAIN round.items :
        /\ f[i] = Folded(round, streams, seen, i) /\ ~ (f[i].kind = "top" /\ f[i].rest = <<>>)
        /\ left[i] = Range(round.items[i]) \ decided(i) /\ again[i] = Again(f[i])
  OBVIOUS
<1>4. /\ report.owed = FlattenSeq(again)
      /\ DOMAIN report.cells = (UNION {f[i].told : i \in DOMAIN f}) \cup (UNION {DOMAIN Verdicts(f[i]) : i \in DOMAIN f})
  BY DEF Report, Updated, Cells
<1>5. again \in [1 .. Len(round.items) -> {again[i] : i \in DOMAIN round.items}]
  BY <1>1
<1> HIDE DEF f, left, again
<1>6. DOMAIN report.cells = UNION {decided(i) : i \in DOMAIN round.items}
  <2>1. \A n : (\E i \in DOMAIN f : n \in decided(i)) <=> n \in DOMAIN report.cells
    BY <1>4
  <2> HIDE DEF decided
  <2> QED
    BY <1>2, <2>1
<1>7. \A i \in DOMAIN round.items : round.items[i] \in Seq(Test) /\ IsInjective(round.items[i])
  BY <1>1 DEF OnceEach, Range
<1>8. ASSUME NEW i \in DOMAIN round.items
      PROVE  decided(i) \subseteq Range(round.items[i]) /\ OnceEach(again[i], left[i])
  <2>1. PICK e : e = f[i]
    OBVIOUS
  <2>2. e = Folded(round, streams, seen, i) /\ ~ (e.kind = "top" /\ e.rest = <<>>)
    BY <1>3, <2>1
  <2>3. /\ e.told \cup DOMAIN Verdicts(e) \subseteq Range(round.items[i])
        /\ OnceEach(Again(e), Range(round.items[i]) \ (e.told \cup DOMAIN Verdicts(e)))
    BY <1>7, <2>2, ItemFolds
  <2>4. decided(i) = e.told \cup DOMAIN Verdicts(e)
    BY <2>1
  <2> HIDE DEF decided
  <2> QED
    BY <1>3, <2>1, <2>3, <2>4
<1> HIDE DEF decided
<1>9. ASSUME NEW i \in DOMAIN round.items, NEW j \in DOMAIN round.items, i # j
      PROVE  Range(round.items[i]) \cap Range(round.items[j]) = {}
  <2>1. round.items[i] # round.items[j]
    BY <1>9 DEF OnceEach, IsInjective
  <2>2. round.items[i] \in Range(round.items) /\ round.items[j] \in Range(round.items)
    BY DEF Range
  <2> QED
    BY <2>1, <2>2 DEF OnceEach
<1>10. again \in Seq(Seq(Seq(Test)))
  <2>1. \A i \in DOMAIN round.items : again[i] \in Seq(Seq(Test))
    BY <1>8 DEF OnceEach
  <2>2. again \in [1 .. Len(round.items) -> Seq(Seq(Test))]
    BY <1>5, <2>1
  <2> QED
    BY <1>1, <2>2, AsSequence
<1>11. OnceEach(FlattenSeq(again), UNION {left[i] : i \in DOMAIN again})
  <2>1. \A i \in DOMAIN again : OnceEach(again[i], left[i])
    BY <1>2, <1>8
  <2>2. \A i, j \in DOMAIN again : i # j => left[i] \cap left[j] = {}
    <3>1. \A i \in DOMAIN again : left[i] \subseteq Range(round.items[i])
      BY <1>2, <1>3
    <3>2. \A i, j \in DOMAIN again : i # j => Range(round.items[i]) \cap Range(round.items[j]) = {}
      BY <1>2, <1>9
    <3> QED
      BY <3>1, <3>2
  <2> QED
    BY <1>10, <2>1, <2>2, OnceEachJoined
<1>12. UNION {left[i] : i \in DOMAIN again} = ids \ DOMAIN report.cells
  <2>1. ASSUME NEW i \in DOMAIN round.items, NEW n \in left[i], NEW j \in DOMAIN round.items, n \in decided(j)
        PROVE  FALSE
    BY <1>3, <1>8, <1>9, <2>1
  <2>2. \A i \in DOMAIN round.items : \A n \in left[i] : n \in ids
    BY <1>1, <1>3
  <2>3. \A n \in ids : (\A j \in DOMAIN round.items : n \notin decided(j)) => \E i \in DOMAIN round.items : n \in left[i]
    BY <1>1, <1>3
  <2>4. \A n : n \in UNION {left[i] : i \in DOMAIN round.items} <=> n \in ids \ UNION {decided(i) : i \in DOMAIN round.items}
    BY <2>1, <2>2, <2>3
  <2> QED
    BY <1>2, <1>6, <2>4
<1>13. DOMAIN report.cells \subseteq ids
  BY <1>1, <1>6, <1>8
<1> QED
  BY <1>4, <1>11, <1>12, <1>13

\* The largest of some numbers up to n.
LEMMA LargestOf ==
  ASSUME NEW n \in Nat, NEW S \in SUBSET (0 .. n), S # {}
  PROVE  \E m \in S : \A k \in S : k <= m
<1> DEFINE T == {b \in Nat : \A U \in SUBSET (0 .. b) : U # {} => \E m \in U : \A k \in U : k <= m}
<1>1. 0 \in T
  <2>1. \A U \in SUBSET (0 .. 0) : U # {} => 0 \in U /\ \A k \in U : k <= 0
    <3>1. 0 .. 0 = {0}
      OBVIOUS
    <3>2. \A U \in SUBSET {0} : U # {} => U = {0}
      OBVIOUS
    <3> QED
      BY <3>1, <3>2
  <2> QED
    BY <2>1
<1>2. ASSUME NEW b \in T PROVE b + 1 \in T
  <2> SUFFICES ASSUME NEW U \in SUBSET (0 .. b + 1), U # {} PROVE \E m \in U : \A k \in U : k <= m
    OBVIOUS
  <2>1. CASE b + 1 \in U
    BY <2>1
  <2>2. CASE b + 1 \notin U
    BY <2>2
  <2> QED
    BY <2>1, <2>2
<1>3. T = Nat
  <2>1. T \in SUBSET Nat
    OBVIOUS
  <2> HIDE DEF T
  <2> QED
    BY <1>1, <1>2, <2>1, Induction
<1>4. n \in T
  <2> HIDE DEF T
  <2> QED
    BY <1>3
<1> QED
  BY <1>4

\* What a state asks for its items: no more than the most any grant gives.
Granted(st) == st.grown \in [Test -> Nat] /\ \A n \in Test : Base[n] + st.grown[n] <= Top
LEMMA AsksAreGranted ==
  ASSUME NEW st, Granted(st), NEW g \in Seq(Test), g # <<>>
  PROVE  Ask(st, g) \in 0 .. Top
<1> DEFINE S == {Base[n] + st.grown[n] : n \in Range(g)}
<1>1. Top \in Nat /\ \A n \in Test : Base[n] \in Nat /\ st.grown[n] \in Nat /\ Base[n] + st.grown[n] <= Top
  BY RunAssumption DEF Granted
<1>2. Range(g) \subseteq Test /\ g[1] \in Range(g)
  BY DEF Range
<1>3. S \in SUBSET (0 .. Top)
  BY <1>1, <1>2
<1>4. S # {}
  BY <1>2
<1>5. \E m \in S : \A k \in S : k <= m
  <2> HIDE DEF S
  <2> QED
    BY <1>1, <1>3, <1>4, LargestOf
<1>6. \E m \in S : \A n \in Range(g) : Base[n] + st.grown[n] <= m
  BY <1>5
<1>7. Ask(st, g) = CHOOSE m \in S : \A n \in Range(g) : Base[n] + st.grown[n] <= m
  BY DEF Ask
<1>8. Ask(st, g) \in S
  <2> HIDE DEF S
  <2> QED
    BY <1>6, <1>7
<1> QED
  BY <1>3, <1>8

\* Planned by memory class, the items are the same.
LEMMA PlannedOnce ==
  ASSUME NEW st, Granted(st), NEW ids, OnceEach(st.owed, ids),
         NEW class, class = [k \in 1 .. Top + 1 |->
                      Without(st.owed, {g \in Range(st.owed) : Ask(st, g) # Top - (k - 1)})]
  PROVE  OnceEach(FlattenSeq(class), ids)
<1>1. /\ st.owed \in Seq(Seq(Test)) /\ IsInjective(st.owed)
      /\ \A g \in Range(st.owed) : g \in Seq(Test) /\ g # <<>>
  BY OnceEachFacts DEF OnceEach
<1>2. Top \in Nat /\ Top + 1 \in Nat
  BY RunAssumption
<1>3. ASSUME NEW k \in 1 .. Top + 1
      PROVE  /\ class[k] \in Seq(Seq(Test)) /\ IsInjective(class[k])
             /\ Range(class[k]) = {g \in Range(st.owed) : Ask(st, g) = Top - (k - 1)}
  <2> DEFINE drop == {g \in Range(st.owed) : Ask(st, g) # Top - (k - 1)}
  <2>1. class[k] = Without(st.owed, drop)
    OBVIOUS
  <2>2. Range(st.owed) \ drop = {g \in Range(st.owed) : Ask(st, g) = Top - (k - 1)}
    OBVIOUS
  <2> HIDE DEF drop
  <2> QED
    BY <1>1, <2>1, <2>2, WithoutKeeps
<1>4. DOMAIN class = 1 .. Top + 1 /\ class \in [1 .. Top + 1 -> {class[k] : k \in 1 .. Top + 1}]
  OBVIOUS
<1>5. class \in Seq(Seq(Seq(Test)))
  <2>1. class \in [1 .. Top + 1 -> Seq(Seq(Test))]
    BY <1>3, <1>4
  <2> QED
    BY <1>2, <2>1, AsSequence
<1>6. \A k, l \in DOMAIN class : k # l => Range(class[k]) \cap Range(class[l]) = {}
  <2> SUFFICES ASSUME NEW k \in DOMAIN class, NEW l \in DOMAIN class, k # l,
                      NEW g \in Range(class[k]), g \in Range(class[l])
               PROVE  FALSE
    OBVIOUS
  <2>1. k \in 1 .. Top + 1 /\ l \in 1 .. Top + 1
    BY <1>4
  <2>2. Ask(st, g) = Top - (k - 1) /\ Ask(st, g) = Top - (l - 1)
    BY <1>3, <2>1
  <2> QED
    BY <1>2, <2>1, <2>2
<1>7. /\ FlattenSeq(class) \in Seq(Seq(Test)) /\ IsInjective(FlattenSeq(class))
      /\ Range(FlattenSeq(class)) = UNION {Range(class[k]) : k \in DOMAIN class}
  <2>1. \A k \in DOMAIN class : IsInjective(class[k])
    BY <1>3, <1>4
  <2>2. \A ss \in Seq(Seq(Seq(Test))) :
          /\ \A k \in DOMAIN ss : IsInjective(ss[k])
          /\ \A k, l \in DOMAIN ss : k # l => Range(ss[k]) \cap Range(ss[l]) = {}
          => /\ FlattenSeq(ss) \in Seq(Seq(Test)) /\ IsInjective(FlattenSeq(ss))
             /\ Range(FlattenSeq(ss)) = UNION {Range(ss[k]) : k \in DOMAIN ss}
    BY FlattenKeeps
  <2> QED
    BY <1>5, <1>6, <2>1, <2>2
<1>8. UNION {Range(class[k]) : k \in DOMAIN class} = Range(st.owed)
  <2>1. ASSUME NEW g \in Range(st.owed) PROVE \E k \in 1 .. Top + 1 : g \in Range(class[k])
    <3>1. Ask(st, g) \in 0 .. Top
      BY <1>1, AsksAreGranted
    <3>2. PICK k \in 1 .. Top + 1 : Ask(st, g) = Top - (k - 1)
      <4>1. Top - Ask(st, g) + 1 \in 1 .. Top + 1 /\ Ask(st, g) = Top - ((Top - Ask(st, g) + 1) - 1)
        BY <1>2, <3>1
      <4> QED
        BY <4>1
    <3> QED
      BY <1>3, <3>2
  <2>2. \A k \in 1 .. Top + 1 : Range(class[k]) \subseteq Range(st.owed)
    BY <1>3
  <2> QED
    BY <1>4, <2>1, <2>2
<1> QED
  BY <1>7, <1>8, OnceEachBySet

-----------------------------------------------------------------------------
(* Every id has a place.                                                   *)

\* A state of a run: its fields, and the cells and classes of this part's tests.
StateIs(st) ==
  /\ DOMAIN st = {"rounds", "cells", "current", "waiting", "owed", "polls", "oomLost", "grown", "record"}
  /\ DOMAIN st.cells \subseteq Test /\ Granted(st)

Unrun(st) == Test \ DOMAIN st.cells
Accounted(st) ==
  IF st.record THEN DOMAIN st.cells = Test ELSE OnceEach(Owed(st), Unrun(st))

\* No cell is lost from one state to the next, or changed.
Extends(cells, old) == \A n \in DOMAIN old : n \in DOMAIN cells /\ cells[n] = old[n]

\* What a call holds: the ids without a cell are, once each, in the round it
\* folds, in what it plans, in the round it submits, in the state it saves.
Holds(k) ==
  /\ DOMAIN k = {"pc", "st", "seen", "round", "bands"}
  /\ k.pc \in {"idle", "look", "fold", "plan", "bands", "save"}
  /\ k.pc # "idle" => StateIs(k.st)
  /\ k.pc \in {"look", "fold"} =>
       ~k.st.waiting /\ ~k.st.record /\ OnceEach(k.st.current.items, Unrun(k.st))
  /\ k.pc \in {"plan", "bands"} => ~k.st.record /\ OnceEach(k.st.owed, Unrun(k.st))
  /\ k.pc = "bands" =>
       {"items", "jobs"} \subseteq DOMAIN k.round /\ OnceEach(k.round.items, Unrun(k.st))
  /\ k.pc = "save" => Accounted(k.st)

\* The inductive invariant.
PlaceInv ==
  /\ asked \in Requests
  /\ disk = NoState \/ (StateIs(disk) /\ Accounted(disk))
  /\ DOMAIN call = Caller /\ \A c \in Caller : Holds(call[c])

\* A record has a cell for every id.
LEMMA RecordsAll ==
  ASSUME NEW st, StateIs(st), OnceEach(st.owed, Unrun(st)), NEW cell
  PROVE  LET new == Recorded(st, cell)
         IN  StateIs(new) /\ Accounted(new) /\ Extends(new.cells, st.cells)
<1> DEFINE new == Recorded(st, cell)
<1>1. /\ DOMAIN new = DOMAIN st /\ new.record = TRUE /\ new.grown = st.grown
      /\ new.cells = Updated(st.cells, Cells(Ids(st.owed), cell))
  BY DEF Recorded, StateIs
<1> HIDE DEF new
<1>2. Ids(st.owed) = Test \ DOMAIN st.cells /\ DOMAIN st.cells \subseteq Test
  BY DEF OnceEach, StateIs, Unrun
<1>3. DOMAIN new.cells = Test /\ Extends(new.cells, st.cells)
  BY <1>1, <1>2 DEF Updated, Cells, Extends
<1>4. StateIs(new) /\ Accounted(new)
  BY <1>1, <1>3 DEF StateIs, Granted, Accounted
<1> QED
  BY <1>3, <1>4 DEF new

\* A state after its round is folded.
LEMMA FoldKeeps ==
  ASSUME NEW st, StateIs(st), OnceEach(st.current.items, Unrun(st)), NEW streams, NEW seen,
         \A i \in DOMAIN st.current.items :
           LET f == Folded(st.current, streams, seen, i) IN ~ (f.kind = "top" /\ f.rest = <<>>)
  PROVE  LET new == AfterFold(st, Report(st.current, streams, seen), seen)
         IN  /\ StateIs(new) /\ OnceEach(new.owed, Unrun(new)) /\ new.record = st.record
             /\ Extends(new.cells, st.cells)
<1> DEFINE report  == Report(st.current, streams, seen)
           new     == AfterFold(st, report, seen)
           counted == IF report.oom
                      THEN {n \in Alone(st.current, seen) : <<n>> \in Range(report.owed)} ELSE {}
           lost    == [n \in Test |-> st.oomLost[n] + IF n \in counted THEN 1 ELSE 0]
           given   == Given(counted, lost)
           cells   == Updated(Updated(st.cells, report.cells), Cells(given, "out_of_memory"))
           cut     == report.killed \cup IF report.oom THEN CutIds(st.current, seen, cells) ELSE {}
<1>1. /\ DOMAIN report.cells \subseteq Unrun(st)
      /\ OnceEach(report.owed, Unrun(st) \ DOMAIN report.cells)
  <2>1. \A round : OnceEach(round.items, Unrun(st)) /\
                   (\A i \in DOMAIN round.items :
                      LET f == Folded(round, streams, seen, i) IN ~ (f.kind = "top" /\ f.rest = <<>>))
                   => /\ DOMAIN Report(round, streams, seen).cells \subseteq Unrun(st)
                      /\ OnceEach(Report(round, streams, seen).owed,
                                  Unrun(st) \ DOMAIN Report(round, streams, seen).cells)
    BY RoundFolds
  <2> QED
    BY <2>1
<1>2. /\ DOMAIN new = DOMAIN st /\ new.record = st.record /\ new.cells = cells
      /\ new.owed = Without(report.owed, {<<n>> : n \in given})
      /\ new.grown = [n \in Test |-> IF n \in cut /\ Base[n] + st.grown[n] < Top
                                     THEN st.grown[n] + 1 ELSE st.grown[n]]
  BY DEF AfterFold, StateIs
<1>3. \A n \in given : <<n>> \in Range(report.owed)
  BY DEF Given
<1> HIDE DEF new, report, cut, given
<1>4. Granted(new)
  <2>1. \A n \in Test : st.grown[n] \in Nat /\ Base[n] + st.grown[n] <= Top /\ Base[n] \in Nat
    BY RunAssumption DEF StateIs, Granted
  <2>2. \A n \in Test : \/ new.grown[n] = st.grown[n]
                        \/ new.grown[n] = st.grown[n] + 1 /\ Base[n] + st.grown[n] < Top
    BY <1>2
  <2>3. \A n \in Test : new.grown[n] \in Nat /\ Base[n] + new.grown[n] <= Top
    BY <2>1, <2>2, RunAssumption
  <2>4. new.grown = [n \in Test |-> new.grown[n]]
    BY <1>2
  <2> QED
    BY <2>3, <2>4 DEF Granted
<1>5. \A n : Range(<<n>>) = {n}
  BY DEF Range
<1>6. given \subseteq Unrun(st) \ DOMAIN report.cells
  <2> DEFINE left == Unrun(st) \ DOMAIN report.cells
  <2>1. OnceEach(report.owed, left)
    BY <1>1
  <2> HIDE DEF left
  <2>2. left = UNION {Range(g) : g \in Range(report.owed)}
    BY <2>1, OnceEachFacts
  <2> SUFFICES ASSUME NEW n \in given PROVE n \in left
    BY DEF left
  <2>3. n \in Range(<<n>>) /\ <<n>> \in Range(report.owed)
    BY <1>3, <1>5
  <2> QED
    BY <2>2, <2>3
<1>7. DOMAIN cells = DOMAIN st.cells \cup DOMAIN report.cells \cup given /\ Extends(cells, st.cells)
  BY <1>1, <1>6 DEF Updated, Cells, Extends, Unrun
<1>8. OnceEach(new.owed, (Unrun(st) \ DOMAIN report.cells) \ given)
  <2> DEFINE drop == {<<n>> : n \in given}
  <2>1. UNION {Range(g) : g \in drop \cap Range(report.owed)} = given
    <3>1. drop \cap Range(report.owed) = drop
      BY <1>3
    <3>2. \A n : n \in UNION {Range(g) : g \in drop} <=> n \in given
      <4>1. (\A g \in drop : \E m \in given : g = <<m>>) /\ \A m \in given : <<m>> \in drop
        OBVIOUS
      <4> HIDE DEF drop
      <4>2. \A g \in drop : \E m \in given : Range(g) = {m}
        BY <1>5, <4>1
      <4>3. \A m \in given : \E g \in drop : m \in Range(g)
        BY <1>5, <4>1
      <4> QED
        BY <4>2, <4>3
    <3> HIDE DEF drop
    <3> QED
      BY <3>1, <3>2
  <2>2. new.owed = Without(report.owed, drop)
    BY <1>2
  <2> HIDE DEF drop
  <2>3. OnceEach(Without(report.owed, drop),
                 (Unrun(st) \ DOMAIN report.cells) \ UNION {Range(g) : g \in drop \cap Range(report.owed)})
    BY <1>1, OnceEachWithout
  <2> QED
    BY <2>1, <2>2, <2>3
<1>9. Unrun(new) = (Unrun(st) \ DOMAIN report.cells) \ given
  BY <1>2, <1>7 DEF Unrun
<1>10. DOMAIN new.cells \subseteq Test
  BY <1>1, <1>2, <1>6, <1>7 DEF StateIs, Unrun
<1>11. StateIs(new)
  BY <1>2, <1>4, <1>10 DEF StateIs
<1>12. Extends(new.cells, st.cells)
  BY <1>2, <1>7
<1> QED
  BY <1>2, <1>8, <1>9, <1>11, <1>12 DEF new, report

\* A call that returns leaves its caller idle; one that goes on holds its state.
LEMMA HoldsOn ==
  ASSUME PlaceInv, NEW c \in Caller
  PROVE  /\ Quit(c) => DOMAIN call' = Caller /\ \A d \in Caller : Holds(call'[d])
         /\ \A pc, st : Goto(c, pc, st) =>
              /\ DOMAIN call' = Caller /\ \A d \in Caller \ {c} : call'[d] = call[d]
              /\ call'[c].pc = pc /\ call'[c].st = st /\ call'[c].round = call[c].round
              /\ DOMAIN call'[c] = {"pc", "st", "seen", "round", "bands"}
<1>1. DOMAIN call = Caller /\ \A d \in Caller : Holds(call[d])
  BY DEF PlaceInv
<1>2. Holds(Idle)
  BY DEF Idle, Holds
<1>3. ASSUME Quit(c) PROVE DOMAIN call' = Caller /\ \A d \in Caller : Holds(call'[d])
  BY <1>1, <1>2, <1>3 DEF Quit
<1>4. ASSUME NEW pc, NEW st, Goto(c, pc, st)
      PROVE  /\ DOMAIN call' = Caller /\ \A d \in Caller \ {c} : call'[d] = call[d]
             /\ call'[c].pc = pc /\ call'[c].st = st /\ call'[c].round = call[c].round
             /\ DOMAIN call'[c] = {"pc", "st", "seen", "round", "bands"}
  BY <1>1, <1>4 DEF Goto, Holds
<1> QED
  BY <1>3, <1>4

\* A call that goes on to save, and one that goes on to plan.
LEMMA SavesOn ==
  ASSUME PlaceInv, NEW c \in Caller, NEW st, StateIs(st), Accounted(st), Goto(c, "save", st)
  PROVE  DOMAIN call' = Caller /\ \A d \in Caller : Holds(call'[d])
<1>1. /\ DOMAIN call' = Caller /\ \A d \in Caller \ {c} : call'[d] = call[d]
      /\ call'[c].pc = "save" /\ call'[c].st = st
      /\ DOMAIN call'[c] = {"pc", "st", "seen", "round", "bands"}
  BY HoldsOn
<1>2. Holds(call'[c])
  BY <1>1 DEF Holds
<1> QED
  BY <1>1, <1>2 DEF PlaceInv

LEMMA PlansOn ==
  ASSUME PlaceInv, NEW c \in Caller, NEW st, StateIs(st), ~st.record, OnceEach(st.owed, Unrun(st)),
         Goto(c, "plan", st)
  PROVE  DOMAIN call' = Caller /\ \A d \in Caller : Holds(call'[d])
<1>1. /\ DOMAIN call' = Caller /\ \A d \in Caller \ {c} : call'[d] = call[d]
      /\ call'[c].pc = "plan" /\ call'[c].st = st
      /\ DOMAIN call'[c] = {"pc", "st", "seen", "round", "bands"}
  BY HoldsOn
<1>2. Holds(call'[c])
  BY <1>1 DEF Holds
<1> QED
  BY <1>1, <1>2 DEF PlaceInv

\* What has no room is not submitted, waits, or is recorded.
LEMMA NoRoomHolds ==
  ASSUME PlaceInv, NEW c \in Caller, call[c].pc \in {"plan", "bands"}, NoRoom(c)
  PROVE  DOMAIN call' = Caller /\ \A d \in Caller : Holds(call'[d])
<1> DEFINE old == call[c].st
<1>1. StateIs(old) /\ ~old.record /\ OnceEach(old.owed, Unrun(old))
  BY DEF PlaceInv, Holds
<1>2. \/ Quit(c)
      \/ Goto(c, "save", [old EXCEPT !.waiting = TRUE, !.polls = 0])
      \/ old.waiting /\ Goto(c, "save", [old EXCEPT !.polls = @ + 1])
      \/ Goto(c, "save", Recorded(old, "unrun"))
  BY DEF NoRoom
<1> HIDE DEF old
<1>3. CASE Quit(c)
  BY <1>3, HoldsOn
<1>4. CASE Goto(c, "save", [old EXCEPT !.waiting = TRUE, !.polls = 0])
  <2> DEFINE st == [old EXCEPT !.waiting = TRUE, !.polls = 0]
  <2>1. StateIs(st) /\ Accounted(st)
    BY <1>1 DEF StateIs, Granted, Accounted, Owed, Unrun
  <2> HIDE DEF st
  <2> QED
    BY <1>4, <2>1, SavesOn DEF st
<1>5. CASE old.waiting /\ Goto(c, "save", [old EXCEPT !.polls = @ + 1])
  <2> DEFINE st == [old EXCEPT !.polls = @ + 1]
  <2>1. StateIs(st) /\ Accounted(st)
    BY <1>1, <1>5 DEF StateIs, Granted, Accounted, Owed, Unrun
  <2> HIDE DEF st
  <2> QED
    BY <1>5, <2>1, SavesOn DEF st
<1>6. CASE Goto(c, "save", Recorded(old, "unrun"))
  BY <1>1, <1>6, RecordsAll, SavesOn
<1> QED
  BY <1>2, <1>3, <1>4, <1>5, <1>6

\* The state a run begins with.
LEMMA FirstState ==
  ASSUME asked \in Requests
  PROVE  /\ StateIs([NewState EXCEPT !.owed = asked.packed])
         /\ ~[NewState EXCEPT !.owed = asked.packed].record
         /\ OnceEach([NewState EXCEPT !.owed = asked.packed].owed, Unrun([NewState EXCEPT !.owed = asked.packed]))
         /\ asked.packed = <<>> =>
              /\ StateIs([NewState EXCEPT !.record = TRUE])
              /\ Accounted([NewState EXCEPT !.record = TRUE])
<1>1. asked.carried \subseteq Test /\ OnceEach(asked.packed, Test \ asked.carried)
  BY RunAssumption
<1>2. /\ DOMAIN NewState = {"rounds", "cells", "current", "waiting", "owed", "polls", "oomLost", "grown", "record"}
      /\ DOMAIN NewState.cells = asked.carried /\ NewState.grown = [n \in Test |-> 0] /\ NewState.record = FALSE
  BY DEF NewState
<1>3. \A n \in Test : Base[n] + 0 <= Top /\ Base[n] \in Nat
  BY RunAssumption
<1>4. Granted(NewState)
  BY <1>2, <1>3 DEF Granted
<1> HIDE DEF NewState
<1>5. /\ StateIs([NewState EXCEPT !.owed = asked.packed]) /\ ~[NewState EXCEPT !.owed = asked.packed].record
      /\ [NewState EXCEPT !.owed = asked.packed].owed = asked.packed
      /\ Unrun([NewState EXCEPT !.owed = asked.packed]) = Test \ asked.carried
  BY <1>1, <1>2, <1>4 DEF StateIs, Granted, Unrun
<1>6. ASSUME asked.packed = <<>>
      PROVE  StateIs([NewState EXCEPT !.record = TRUE]) /\ Accounted([NewState EXCEPT !.record = TRUE])
  <2>1. Test \ asked.carried = {}
    BY <1>1, <1>6 DEF OnceEach, Ids
  <2>2. asked.carried = Test
    BY <1>1, <2>1
  <2> QED
    BY <1>2, <1>4, <2>2 DEF StateIs, Granted, Accounted
<1> QED
  BY <1>1, <1>5, <1>6

\* No id has anywhere to be before there is a run.
LEMMA PlaceInit == Init => PlaceInv
<1> SUFFICES ASSUME Init PROVE PlaceInv
  OBVIOUS
<1>1. Holds(Idle)
  BY DEF Idle, Holds
<1> QED
  BY <1>1 DEF Init, PlaceInv

\* Every step of a call, of Slurm or of the user leaves each id with its place.
LEMMA PlaceNext ==
  ASSUME PlaceInv, [Next]_vars
  PROVE  PlaceInv'
<1> USE DEF cluster
<1>1. asked \in Requests /\ DOMAIN call = Caller /\ \A d \in Caller : Holds(call[d])
  BY DEF PlaceInv
<1>2. disk # NoState => StateIs(disk) /\ Accounted(disk)
  BY DEF PlaceInv
<1>3. ASSUME asked' = asked, DOMAIN call' = Caller, \A d \in Caller : Holds(call'[d]),
             disk' = disk \/ (StateIs(disk') /\ Accounted(disk'))
      PROVE  PlaceInv'
  <2>1. NoState' = NoState
    BY <1>3 DEF NoState, NewState
  <2>2. disk' = NoState' \/ (StateIs(disk') /\ Accounted(disk'))
    BY <1>2, <1>3, <2>1
  <2> HIDE DEF NoState
  <2> QED
    BY <1>1, <1>3, <2>2 DEF PlaceInv
<1>4. ASSUME NEW c \in Caller, SubmitRun(c) PROVE PlaceInv'
  <2>1. UNCHANGED <<asked, disk>>
    BY <1>4 DEF SubmitRun
  <2>2. CASE asked.packed = <<>>
    <3>1. Goto(c, "save", [NewState EXCEPT !.record = TRUE])
      BY <1>4, <2>2 DEF SubmitRun
    <3> QED
      BY <1>1, <1>3, <2>1, <2>2, <3>1, FirstState, SavesOn
  <2>3. CASE asked.packed # <<>>
    <3>1. Goto(c, "plan", [NewState EXCEPT !.owed = asked.packed])
      BY <1>4, <2>3 DEF SubmitRun
    <3> QED
      BY <1>1, <1>3, <2>1, <3>1, FirstState, PlansOn
  <2> QED
    BY <2>2, <2>3
<1>5. ASSUME NEW c \in Caller, Gather(c) PROVE PlaceInv'
  <2>1. UNCHANGED <<asked, disk>> /\ disk # NoState /\ ~disk.record
    BY <1>5 DEF Gather
  <2>2. StateIs(disk) /\ OnceEach(Owed(disk), Unrun(disk))
    BY <1>2, <2>1 DEF Accounted
  <2>3. CASE disk.waiting
    <3>1. Goto(c, "plan", disk) /\ OnceEach(disk.owed, Unrun(disk))
      BY <1>5, <2>2, <2>3 DEF Gather, Owed
    <3> QED
      BY <1>3, <2>1, <2>2, <3>1, PlansOn
  <2>4. CASE ~disk.waiting
    <3>1. Goto(c, "look", disk) /\ OnceEach(disk.current.items, Unrun(disk))
      BY <1>5, <2>2, <2>4 DEF Gather, Owed
    <3>2. /\ DOMAIN call' = Caller /\ \A d \in Caller \ {c} : call'[d] = call[d]
          /\ call'[c].pc = "look" /\ call'[c].st = disk
          /\ DOMAIN call'[c] = {"pc", "st", "seen", "round", "bands"}
      BY <3>1, HoldsOn
    <3>3. Holds(call'[c])
      BY <2>1, <2>2, <2>4, <3>1, <3>2 DEF Holds
    <3> QED
      BY <1>1, <1>3, <2>1, <3>2, <3>3
  <2> QED
    BY <2>3, <2>4
<1>6. ASSUME NEW c \in Caller, Look(c) PROVE PlaceInv'
  <2> DEFINE k == call[c]
  <2>1. UNCHANGED <<asked, disk>> /\ k.pc = "look"
    BY <1>6 DEF Look, At
  <2>2. Holds(k) /\ StateIs(k.st) /\ ~k.st.waiting /\ ~k.st.record /\ OnceEach(k.st.current.items, Unrun(k.st))
    BY <1>1, <2>1 DEF Holds
  <2>3. \/ Quit(c) \/ Goto(c, "save", k.st)
        \/ \E seen : call' = [call EXCEPT ![c].pc = "fold", ![c].seen = seen]
    BY <1>6 DEF Look
  <2>4. CASE Quit(c)
    BY <1>3, <2>1, <2>4, HoldsOn
  <2>5. CASE Goto(c, "save", k.st)
    <3>1. Accounted(k.st)
      BY <2>2 DEF Accounted, Owed
    <3> QED
      BY <1>3, <2>1, <2>2, <2>5, <3>1, SavesOn
  <2>6. CASE \E seen : call' = [call EXCEPT ![c].pc = "fold", ![c].seen = seen]
    <3>1. PICK seen : call' = [call EXCEPT ![c].pc = "fold", ![c].seen = seen]
      BY <2>6
    <3>2. DOMAIN k = {"pc", "st", "seen", "round", "bands"}
      BY <2>2 DEF Holds
    <3>3. /\ DOMAIN call' = Caller /\ \A d \in Caller \ {c} : call'[d] = call[d]
          /\ call'[c].pc = "fold" /\ call'[c].st = k.st
          /\ DOMAIN call'[c] = {"pc", "st", "seen", "round", "bands"}
      BY <1>1, <3>1, <3>2
    <3>4. Holds(call'[c])
      <4> HIDE DEF k
      <4> QED
        BY <2>2, <3>3 DEF Holds
    <3> QED
      BY <1>1, <1>3, <2>1, <3>3, <3>4
  <2> QED
    BY <2>3, <2>4, <2>5, <2>6
<1>7. ASSUME NEW c \in Caller, Fold(c) PROVE PlaceInv'
  <2> DEFINE st == call[c].st
             seen == call[c].seen
             streams == [i \in DOMAIN st.current.items |->
                    IF st.current.tag \in DOMAIN stream /\ i \in DOMAIN stream[st.current.tag]
                    THEN stream[st.current.tag][i] ELSE Unwritten]
             raises == \E i \in DOMAIN st.current.items :
                   LET f == Folded(st.current, streams, seen, i)
                   IN  f.kind = "top" /\ f.rest = <<>>
             new == AfterFold(st, Report(st.current, streams, seen), seen)
  <2>1. UNCHANGED <<asked, disk>> /\ call[c].pc = "fold"
    BY <1>7 DEF Fold, At
  <2>2. StateIs(st) /\ ~st.record /\ OnceEach(st.current.items, Unrun(st))
    BY <1>1, <2>1 DEF Holds
  <2>3. \/ Quit(c)
        \/ ~raises /\ (Goto(c, "plan", new) \/ Goto(c, "save", Recorded(new, "lost")))
    BY <1>7 DEF Fold
  <2> HIDE DEF st, seen, streams
  <2>4. ASSUME ~raises PROVE StateIs(new) /\ ~new.record /\ OnceEach(new.owed, Unrun(new))
    BY <2>2, <2>4, FoldKeeps
  <2> HIDE DEF raises, new
  <2>5. CASE Quit(c)
    BY <1>3, <2>1, <2>5, HoldsOn
  <2>6. CASE ~raises /\ Goto(c, "plan", new)
    BY <1>3, <2>1, <2>4, <2>6, PlansOn
  <2>7. CASE ~raises /\ Goto(c, "save", Recorded(new, "lost"))
    BY <1>3, <2>1, <2>4, <2>7, RecordsAll, SavesOn
  <2> QED
    BY <2>3, <2>5, <2>6, <2>7
<1>8. ASSUME NEW c \in Caller, Plan(c) PROVE PlaceInv'
  <2> DEFINE st == call[c].st
             class == [k \in 1 .. Top + 1 |->
                         Without(st.owed, {ids \in Range(st.owed) : Ask(st, ids) # Top - (k - 1)})]
             items == FlattenSeq(class)
  <2>1. UNCHANGED <<asked, disk>> /\ call[c].pc = "plan"
    BY <1>8 DEF Plan, At
  <2>2. Holds(call[c]) /\ StateIs(st) /\ ~st.record /\ OnceEach(st.owed, Unrun(st))
    BY <1>1, <2>1 DEF Holds
  <2>3. PICK round, bands : /\ {"items", "jobs"} \subseteq DOMAIN round /\ round.items = items
                            /\ call' = [call EXCEPT ![c].pc = "bands", ![c].round = round, ![c].bands = bands]
    <3>1. \E shard, top, bands :
            call' = [call EXCEPT ![c].pc = "bands",
                       ![c].round = [tag |-> st.rounds, items |-> items, shard |-> shard, top |-> top, jobs |-> {}],
                       ![c].bands = bands]
      <4> DEFINE classes == {Ask(st, items[i]) : i \in DOMAIN items}
                 shard(each) == [i \in DOMAIN items |->
                           IF each THEN i
                           ELSE Cardinality({m \in classes : m >= Ask(st, items[i])})]
                 top(each) == [n \in Range(shard(each)) |-> Ceiling /\
                           \E i \in DOMAIN items : shard(each)[i] = n /\ Ask(st, items[i]) = Top]
                 some(each) == [k \in 1 .. Cardinality(classes) |->
                       {shard(each)[i] : i \in {h \in DOMAIN items :
                          Cardinality({m \in classes : m >= Ask(st, items[h])}) = k}}]
      <4>1. \E each \in BOOLEAN :
              call' = [call EXCEPT ![c].pc = "bands",
                         ![c].round = [tag |-> st.rounds, items |-> items, shard |-> shard(each),
                                       top |-> top(each), jobs |-> {}],
                         ![c].bands = some(each)]
        BY <1>8 DEF Plan
      <4>2. PICK each \in BOOLEAN :
              call' = [call EXCEPT ![c].pc = "bands",
                         ![c].round = [tag |-> st.rounds, items |-> items, shard |-> shard(each),
                                       top |-> top(each), jobs |-> {}],
                         ![c].bands = some(each)]
        BY <4>1
      <4> WITNESS shard(each), top(each), some(each)
      <4> HIDE DEF shard, top, some, items, st
      <4> QED
        BY <4>2
    <3> HIDE DEF items
    <3> QED
      BY <3>1
  <2>4. OnceEach(items, Unrun(st))
    <3> HIDE DEF st
    <3> QED
      BY <2>2, PlannedOnce DEF StateIs
  <2>5. DOMAIN call[c] = {"pc", "st", "seen", "round", "bands"}
    BY <2>2 DEF Holds
  <2> HIDE DEF items
  <2>6. /\ DOMAIN call' = Caller /\ \A d \in Caller \ {c} : call'[d] = call[d]
        /\ call'[c].pc = "bands" /\ call'[c].st = st /\ call'[c].round = round
        /\ DOMAIN call'[c] = {"pc", "st", "seen", "round", "bands"}
    BY <1>1, <2>3, <2>5
  <2>7. Holds(call'[c])
    <3> HIDE DEF st
    <3> QED
      BY <2>2, <2>3, <2>4, <2>6 DEF Holds
  <2> QED
    BY <1>1, <1>3, <2>1, <2>6, <2>7
<1>9. ASSUME NEW c \in Caller, PlanRefused(c) PROVE PlaceInv'
  <2>1. UNCHANGED <<asked, disk>> /\ call[c].pc = "plan"
    BY <1>9 DEF PlanRefused, At
  <2>2. \/ NoRoom(c) \/ Quit(c) \/ Goto(c, "save", Recorded(call[c].st, "placement"))
    BY <1>9 DEF PlanRefused
  <2>3. StateIs(call[c].st) /\ OnceEach(call[c].st.owed, Unrun(call[c].st))
    BY <1>1, <2>1 DEF Holds
  <2>4. CASE NoRoom(c)
    BY <1>3, <2>1, <2>4, NoRoomHolds
  <2>5. CASE Quit(c)
    BY <1>3, <2>1, <2>5, HoldsOn
  <2>6. CASE Goto(c, "save", Recorded(call[c].st, "placement"))
    BY <1>3, <2>1, <2>3, <2>6, RecordsAll, SavesOn
  <2> QED
    BY <2>2, <2>4, <2>5, <2>6
<1>10. ASSUME NEW c \in Caller, SubmitBand(c) PROVE PlaceInv'
  <2> DEFINE k == call[c]
             j1 == Fresh
  <2>1. UNCHANGED <<asked, disk>> /\ k.pc = "bands"
        /\ call' = [call EXCEPT ![c].bands = Tail(@), ![c].round.jobs = @ \cup {j1}]
    BY <1>10 DEF SubmitBand, At
  <2>2. /\ Holds(k) /\ StateIs(k.st) /\ ~k.st.record /\ OnceEach(k.st.owed, Unrun(k.st))
        /\ {"items", "jobs"} \subseteq DOMAIN k.round /\ OnceEach(k.round.items, Unrun(k.st))
        /\ DOMAIN k = {"pc", "st", "seen", "round", "bands"}
    BY <1>1, <2>1 DEF Holds
  <2> HIDE DEF j1
  <2>3. /\ DOMAIN call' = Caller /\ \A d \in Caller \ {c} : call'[d] = call[d]
        /\ call'[c].pc = "bands" /\ call'[c].st = k.st
        /\ DOMAIN call'[c].round = DOMAIN k.round /\ call'[c].round.items = k.round.items
        /\ DOMAIN call'[c] = {"pc", "st", "seen", "round", "bands"}
    BY <1>1, <2>1, <2>2
  <2>4. Holds(call'[c])
    <3> HIDE DEF k
    <3> QED
      BY <2>2, <2>3 DEF Holds
  <2> QED
    BY <1>1, <1>3, <2>1, <2>3, <2>4
<1>11. ASSUME NEW c \in Caller, SubmitLimit(c) PROVE PlaceInv'
  <2>1. UNCHANGED <<asked, disk>> /\ call[c].pc = "bands" /\ NoRoom(c)
    BY <1>11 DEF SubmitLimit, At
  <2> QED
    BY <1>3, <2>1, NoRoomHolds
<1>12. ASSUME NEW c \in Caller, Submitted(c) PROVE PlaceInv'
  <2> DEFINE k == call[c]
             st == [k.st EXCEPT !.rounds = @ + 1, !.owed = <<>>, !.waiting = FALSE,
                                !.polls = 0, !.current = k.round]
  <2>1. UNCHANGED <<asked, disk>> /\ k.pc = "bands" /\ Goto(c, "save", st)
    BY <1>12 DEF Submitted, At
  <2>2. StateIs(k.st) /\ ~k.st.record /\ OnceEach(k.round.items, Unrun(k.st))
    BY <1>1, <2>1 DEF Holds
  <2>3. /\ DOMAIN st = DOMAIN k.st /\ st.cells = k.st.cells /\ st.grown = k.st.grown
        /\ st.record = k.st.record /\ st.waiting = FALSE /\ st.current = k.round
    BY <2>2 DEF StateIs
  <2> HIDE DEF st, k
  <2>4. StateIs(st) /\ Accounted(st)
    BY <2>2, <2>3 DEF StateIs, Granted, Accounted, Owed, Unrun
  <2> QED
    BY <1>3, <2>1, <2>4, SavesOn
<1>13. ASSUME NEW c \in Caller, Save(c) PROVE PlaceInv'
  <2>1. asked' = asked /\ call[c].pc = "save" /\ disk' = call[c].st /\ Quit(c)
    BY <1>13 DEF Save, At
  <2>2. StateIs(call[c].st) /\ Accounted(call[c].st)
    BY <1>1, <2>1 DEF Holds
  <2> QED
    BY <1>3, <2>1, <2>2, HoldsOn
<1>14. ASSUME NEW c \in Caller, Drop(c) \/ Outage(c) PROVE PlaceInv'
  <2>1. UNCHANGED <<asked, disk>> /\ Quit(c)
    BY <1>14 DEF Drop, Outage
  <2> QED
    BY <1>3, <2>1, HoldsOn
<1>15. ASSUME UNCHANGED <<asked, disk, call>> PROVE PlaceInv'
  BY <1>1, <1>3, <1>15
<1>16. CASE CancelRun \/ WithdrawPending
  BY <1>15, <1>16 DEF CancelRun, WithdrawPending
<1>17. ASSUME NEW j \in DOMAIN jobs, NEW n \in DOMAIN jobs[j].tasks, Runs(j, n) PROVE PlaceInv'
  BY <1>15, <1>17 DEF Runs, Start, NeverStarts, RunItem
<1>18. CASE UNCHANGED vars
  BY <1>15, <1>18 DEF vars
<1> QED
  BY <1>4, <1>5, <1>6, <1>7, <1>8, <1>9, <1>10, <1>11, <1>12, <1>13, <1>14, <1>16, <1>17, <1>18
     DEF Next, Step

\* The invariant holds in every reachable state.
LEMMA PlaceInvHolds == Spec => []PlaceInv
<1>1. PlaceInv /\ [Next]_vars => PlaceInv'
  BY PlaceNext
<1> QED
  BY <1>1, PlaceInit, PTL DEF Spec

\* gather.py:56-58: whatever ends, is refused or cut short, and however many
\* gathers there are, no id is lost and none is owed that has its cell: a state
\* that is saved has, once each, the ids still to run, and a record all cells.
THEOREM EveryTestKeepsAPlace == Spec => []EveryTestIsAccountedFor
<1>1. PlaceInv => EveryTestIsAccountedFor
  <2> SUFFICES ASSUME PlaceInv, disk # NoState, ~disk.record
               PROVE  LET groups == FlattenSeq(Owed(disk))
                      IN  /\ Range(groups) = Test \ DOMAIN disk.cells
                          /\ Len(groups) = Cardinality(Range(groups))
    BY DEF EveryTestIsAccountedFor, PlaceInv, Accounted
  <2>1. OnceEach(Owed(disk), Test \ DOMAIN disk.cells)
    BY DEF PlaceInv, Accounted, Unrun
  <2> QED
    BY <2>1, FlattenedOnce
<1> QED
  BY <1>1, PlaceInvHolds, PTL

-----------------------------------------------------------------------------
(* A cell stands.                                                          *)

\* One caller, so one call at a time.
OneCaller == \E c : Caller = {c}

\* The state a call works on has every cell the saved one has.
CellsInv ==
  /\ PlaceInv
  /\ disk # NoState => \A c \in Caller : call[c].pc # "idle" => Extends(call[c].st.cells, disk.cells)

\* A step of a call that does not save leaves it idle, or with the cells it had.
LEMMA CallKeepsCells ==
  ASSUME PlaceInv, NEW c \in Caller,
         \/ Look(c) \/ Fold(c) \/ Plan(c) \/ PlanRefused(c) \/ SubmitBand(c) \/ SubmitLimit(c) \/ Submitted(c)
  PROVE  /\ call[c].pc # "idle" /\ UNCHANGED <<asked, disk>>
         /\ \/ call'[c].pc = "idle"
            \/ Extends(call'[c].st.cells, call[c].st.cells)
<1> DEFINE k == call[c]
<1>1. /\ DOMAIN call = Caller /\ Holds(k) /\ DOMAIN k = {"pc", "st", "seen", "round", "bands"}
      /\ k.pc # "idle" => StateIs(k.st)
  BY DEF PlaceInv, Holds
<1>2. \A cells : Extends(cells, cells)
  BY DEF Extends
<1>3. ASSUME Quit(c) PROVE call'[c].pc = "idle"
  BY <1>1, <1>3 DEF Quit, Idle
<1>4. ASSUME NEW pc, NEW st, Goto(c, pc, st) PROVE call'[c].st = st
  BY <1>4, HoldsOn
<1>5. ASSUME k.pc \in {"plan", "bands"}, NoRoom(c)
      PROVE  call'[c].pc = "idle" \/ Extends(call'[c].st.cells, k.st.cells)
  <2> DEFINE old == k.st
  <2>1. StateIs(old) /\ OnceEach(old.owed, Unrun(old))
    BY <1>1, <1>5 DEF Holds
  <2>2. \/ Quit(c)
        \/ Goto(c, "save", [old EXCEPT !.waiting = TRUE, !.polls = 0])
        \/ Goto(c, "save", [old EXCEPT !.polls = @ + 1])
        \/ Goto(c, "save", Recorded(old, "unrun"))
    BY <1>5 DEF NoRoom
  <2> HIDE DEF k
  <2>3. /\ [old EXCEPT !.waiting = TRUE, !.polls = 0].cells = old.cells
        /\ [old EXCEPT !.polls = @ + 1].cells = old.cells
    BY <2>1 DEF StateIs
  <2>4. Extends(Recorded(old, "unrun").cells, old.cells)
    BY <2>1, RecordsAll
  <2> HIDE DEF old
  <2>5. CASE Quit(c)
    BY <1>3, <2>5
  <2>6. CASE Goto(c, "save", [old EXCEPT !.waiting = TRUE, !.polls = 0])
    BY <1>2, <1>4, <2>3, <2>6 DEF old
  <2>7. CASE Goto(c, "save", [old EXCEPT !.polls = @ + 1])
    BY <1>2, <1>4, <2>3, <2>7 DEF old
  <2>8. CASE Goto(c, "save", Recorded(old, "unrun"))
    BY <1>4, <2>4, <2>8 DEF old
  <2> QED
    BY <2>2, <2>5, <2>6, <2>7, <2>8
<1> USE DEF cluster
<1>6. CASE Look(c)
  <2>1. UNCHANGED <<asked, disk>> /\ k.pc = "look"
    BY <1>6 DEF Look, At
  <2>2. \/ Quit(c) \/ Goto(c, "save", k.st)
        \/ \E seen : call' = [call EXCEPT ![c].pc = "fold", ![c].seen = seen]
    BY <1>6 DEF Look
  <2>3. ASSUME NEW seen, call' = [call EXCEPT ![c].pc = "fold", ![c].seen = seen] PROVE call'[c].st = k.st
    BY <1>1, <2>3
  <2>4. CASE Quit(c)
    BY <1>3, <2>1, <2>4
  <2>5. CASE Goto(c, "save", k.st)
    BY <1>2, <1>4, <2>1, <2>5
  <2>6. CASE \E seen : call' = [call EXCEPT ![c].pc = "fold", ![c].seen = seen]
    BY <1>2, <2>1, <2>3, <2>6
  <2> QED
    BY <2>2, <2>4, <2>5, <2>6
<1>7. CASE Fold(c)
  <2> DEFINE st == call[c].st
             seen == call[c].seen
             streams == [i \in DOMAIN st.current.items |->
                    IF st.current.tag \in DOMAIN stream /\ i \in DOMAIN stream[st.current.tag]
                    THEN stream[st.current.tag][i] ELSE Unwritten]
             raises == \E i \in DOMAIN st.current.items :
                   LET f == Folded(st.current, streams, seen, i)
                   IN  f.kind = "top" /\ f.rest = <<>>
             new == AfterFold(st, Report(st.current, streams, seen), seen)
  <2>1. UNCHANGED <<asked, disk>> /\ k.pc = "fold"
    BY <1>7 DEF Fold, At
  <2>2. StateIs(st) /\ OnceEach(st.current.items, Unrun(st))
    BY <1>1, <2>1 DEF Holds
  <2>3. \/ Quit(c)
        \/ ~raises /\ (Goto(c, "plan", new) \/ Goto(c, "save", Recorded(new, "lost")))
    BY <1>7 DEF Fold
  <2> HIDE DEF st, seen, streams
  <2>4. ASSUME ~raises
        PROVE  StateIs(new) /\ OnceEach(new.owed, Unrun(new)) /\ Extends(new.cells, st.cells)
    BY <2>2, <2>4, FoldKeeps
  <2> HIDE DEF raises, new
  <2>5. ASSUME ~raises PROVE Extends(Recorded(new, "lost").cells, st.cells)
    <3>1. Extends(Recorded(new, "lost").cells, new.cells)
      BY <2>4, <2>5, RecordsAll
    <3> QED
      BY <2>4, <2>5, <3>1 DEF Extends
  <2>6. CASE Quit(c)
    BY <1>3, <2>1, <2>6
  <2>7. CASE ~raises /\ Goto(c, "plan", new)
    BY <1>4, <2>1, <2>4, <2>7 DEF st
  <2>8. CASE ~raises /\ Goto(c, "save", Recorded(new, "lost"))
    BY <1>4, <2>1, <2>5, <2>8 DEF st
  <2> QED
    BY <2>3, <2>6, <2>7, <2>8
<1>8. CASE Plan(c)
  <2>1. UNCHANGED <<asked, disk>> /\ k.pc = "plan"
    BY <1>8 DEF Plan, At
  <2>2. PICK round, bands : call' = [call EXCEPT ![c].pc = "bands", ![c].round = round, ![c].bands = bands]
    BY <1>8 DEF Plan
  <2>3. call'[c].st = k.st
    BY <1>1, <2>2
  <2> QED
    BY <1>2, <2>1, <2>3
<1>9. CASE PlanRefused(c)
  <2>1. UNCHANGED <<asked, disk>> /\ k.pc = "plan"
    BY <1>9 DEF PlanRefused, At
  <2>2. StateIs(k.st) /\ OnceEach(k.st.owed, Unrun(k.st))
    BY <1>1, <2>1 DEF Holds
  <2>3. \/ NoRoom(c) \/ Quit(c) \/ Goto(c, "save", Recorded(k.st, "placement"))
    BY <1>9 DEF PlanRefused
  <2>4. CASE Goto(c, "save", Recorded(k.st, "placement"))
    BY <1>4, <2>1, <2>2, <2>4, RecordsAll
  <2> QED
    BY <1>3, <1>5, <2>1, <2>3, <2>4
<1>10. CASE SubmitBand(c)
  <2> DEFINE j1 == Fresh
  <2>1. UNCHANGED <<asked, disk>> /\ k.pc = "bands"
        /\ call' = [call EXCEPT ![c].bands = Tail(@), ![c].round.jobs = @ \cup {j1}]
    BY <1>10 DEF SubmitBand, At
  <2> HIDE DEF j1
  <2>2. call'[c].st = k.st
    BY <1>1, <2>1
  <2> QED
    BY <1>2, <2>1, <2>2
<1>11. CASE SubmitLimit(c)
  <2>1. UNCHANGED <<asked, disk>> /\ k.pc = "bands" /\ NoRoom(c)
    BY <1>11 DEF SubmitLimit, At
  <2> QED
    BY <1>5, <2>1
<1>12. CASE Submitted(c)
  <2> DEFINE st == [k.st EXCEPT !.rounds = @ + 1, !.owed = <<>>, !.waiting = FALSE,
                                !.polls = 0, !.current = k.round]
  <2>1. UNCHANGED <<asked, disk>> /\ k.pc = "bands" /\ Goto(c, "save", st)
    BY <1>12 DEF Submitted, At
  <2>2. st.cells = k.st.cells
    BY <1>1, <2>1 DEF StateIs
  <2> HIDE DEF st
  <2> QED
    BY <1>2, <1>4, <2>1, <2>2
<1> QED
  BY <1>6, <1>7, <1>8, <1>9, <1>10, <1>11, <1>12

\* A step of the run keeps every cell, and what a call knows of them.
LEMMA CellsNext ==
  ASSUME OneCaller, CellsInv, [Next]_vars
  PROVE  /\ CellsInv'
         /\ disk # NoState => Extends(disk'.cells, disk.cells)
<1>1. PICK c : Caller = {c}
  BY DEF OneCaller
<1>2. /\ c \in Caller /\ PlaceInv /\ PlaceInv' /\ DOMAIN call = Caller
      /\ disk # NoState /\ call[c].pc # "idle" => Extends(call[c].st.cells, disk.cells)
  BY <1>1, PlaceNext DEF CellsInv, PlaceInv
<1>3. asked' = asked => NoState' = NoState
  BY DEF NoState, NewState
<1>4. \A cells : Extends(cells, cells)
  BY DEF Extends
<1> HIDE DEF NoState
<1>5. ASSUME UNCHANGED <<asked, disk>>,
             \/ disk = NoState
             \/ call'[c].pc = "idle"
             \/ call[c].pc # "idle" /\ Extends(call'[c].st.cells, call[c].st.cells)
             \/ Extends(call'[c].st.cells, disk.cells)
      PROVE  CellsInv' /\ Extends(disk'.cells, disk.cells)
  <2>1. disk # NoState /\ call'[c].pc # "idle" => Extends(call'[c].st.cells, disk.cells)
    BY <1>2, <1>5 DEF Extends
  <2> QED
    BY <1>1, <1>2, <1>3, <1>4, <1>5, <2>1 DEF CellsInv
<1> USE DEF cluster
<1>6. CASE SubmitRun(c)
  BY <1>5, <1>6 DEF SubmitRun
<1>7. CASE Gather(c)
  <2>1. UNCHANGED <<asked, disk>> /\ Goto(c, IF disk.waiting THEN "plan" ELSE "look", disk)
    BY <1>7 DEF Gather
  <2>2. call'[c].st = disk
    BY <1>2, <2>1, HoldsOn
  <2> QED
    BY <1>4, <1>5, <2>1, <2>2
<1>8. CASE \/ Look(c) \/ Fold(c) \/ Plan(c) \/ PlanRefused(c) \/ SubmitBand(c) \/ SubmitLimit(c) \/ Submitted(c)
  BY <1>2, <1>5, <1>8, CallKeepsCells
<1>9. CASE Save(c)
  <2>1. asked' = asked /\ call[c].pc = "save" /\ disk' = call[c].st /\ call'[c] = Idle
    BY <1>2, <1>9 DEF Save, At, Quit
  <2>2. call'[c].pc = "idle"
    BY <2>1 DEF Idle
  <2> QED
    BY <1>1, <1>2, <2>1, <2>2 DEF CellsInv
<1>10. CASE Drop(c) \/ Outage(c)
  <2>1. UNCHANGED <<asked, disk>> /\ call'[c] = Idle
    BY <1>2, <1>10 DEF Drop, Outage, Quit
  <2> QED
    BY <1>5, <2>1 DEF Idle
<1>11. ASSUME UNCHANGED <<asked, disk, call>> PROVE CellsInv' /\ Extends(disk'.cells, disk.cells)
  BY <1>4, <1>5, <1>11
<1>12. CASE CancelRun \/ WithdrawPending
  BY <1>11, <1>12 DEF CancelRun, WithdrawPending
<1>13. ASSUME NEW j \in DOMAIN jobs, NEW n \in DOMAIN jobs[j].tasks, Runs(j, n)
       PROVE  CellsInv' /\ Extends(disk'.cells, disk.cells)
  BY <1>11, <1>13 DEF Runs, Start, NeverStarts, RunItem
<1>14. CASE UNCHANGED vars
  BY <1>11, <1>14 DEF vars
<1> QED
  BY <1>1, <1>6, <1>7, <1>8, <1>9, <1>10, <1>12, <1>13, <1>14 DEF Next, Step

\* run.py:27-33: a test that has its cell keeps it, whatever runs again.  One
\* gather at a time: a second would save over the cells of the first.
THEOREM CellsAreKept ==
  ASSUME OneCaller
  PROVE  Spec => CellsStand
<1>1. Init => CellsInv
  BY PlaceInit DEF Init, CellsInv
<1>2. CellsInv /\ [Next]_vars => CellsInv'
  BY CellsNext
<1>3. CellsInv /\ [Next]_vars =>
        [disk # NoState =>
           \A n \in DOMAIN disk.cells : n \in DOMAIN disk'.cells /\ disk'.cells[n] = disk.cells[n]]_vars
  BY CellsNext DEF Extends
<1> QED
  BY <1>1, <1>2, <1>3, PTL DEF Spec, CellsStand

-----------------------------------------------------------------------------
(* An array that may run has its owner.                                    *)

\* The fields the steps below read and write are there.
StateShape(st) == {"rounds", "current", "waiting", "record"} \subseteq DOMAIN st
CallShape(k) ==
  /\ {"pc", "st", "seen", "round", "bands"} \subseteq DOMAIN k
  /\ k.pc \in {"idle", "look", "fold", "plan", "bands", "save"}
  /\ StateShape(k.st) /\ "jobs" \in DOMAIN k.round
JobsShape(js) ==
  \A j \in DOMAIN js :
    /\ {"tag", "tasks"} \subseteq DOMAIN js[j]
    /\ \A n \in DOMAIN js[j].tasks : "state" \in DOMAIN js[j].tasks[n]
Shape ==
  /\ StateShape(disk) /\ JobsShape(jobs)
  /\ DOMAIN call = Caller /\ \A c \in Caller : CallShape(call[c])

\* Where the arrays that may still run belong, by where the call is.
OwnedBy(k) ==
  /\ k.pc = "idle" => /\ Live(jobs) \subseteq disk.current.jobs
                      /\ disk.waiting => Live(jobs) = {}
  /\ k.pc = "look" => /\ Live(jobs) \subseteq disk.current.jobs
                      /\ k.st = disk /\ ~disk.waiting
  /\ k.pc \in {"fold", "plan"} => Live(jobs) = {}
  /\ k.pc = "bands" => Live(jobs) \subseteq k.round.jobs
  /\ k.pc = "save" => /\ Live(jobs) \subseteq k.st.current.jobs
                      /\ k.st.waiting => Live(jobs) = {}
                      /\ \/ Live(jobs) \subseteq disk.current.jobs
                         \/ Live(jobs) \subseteq k.round.jobs

\* The inductive invariant.
OwnerInv ==
  /\ Shape /\ outages \in Nat
  /\ outages = 0 /\ ~dropped => \A c \in Caller : OwnedBy(call[c])

-----------------------------------------------------------------------------
\* What is cancelled may run no more, and nothing else begins to.
LEMMA CancelledMayNotRun ==
  ASSUME JobsShape(jobs), NEW some
  PROVE  /\ JobsShape(Cancelled(some))
         /\ Live(Cancelled(some)) \subseteq Live(jobs) \ some
<1> DEFINE js == Cancelled(some)
<1>1. DOMAIN js = DOMAIN jobs
  BY DEF Cancelled
<1>2. ASSUME NEW j \in DOMAIN jobs, j \notin some
      PROVE  js[j] = jobs[j]
  BY <1>2 DEF Cancelled
<1>3. ASSUME NEW j \in DOMAIN jobs, j \in some
      PROVE  /\ {"tag", "tasks"} \subseteq DOMAIN js[j]
             /\ DOMAIN js[j].tasks = DOMAIN jobs[j].tasks
             /\ \A n \in DOMAIN js[j].tasks : /\ "state" \in DOMAIN js[j].tasks[n]
                                              /\ js[j].tasks[n].state \notin Active
  <2>1. {"tag", "tasks"} \subseteq DOMAIN jobs[j]
    BY DEF JobsShape
  <2>2. js[j] = [jobs[j] EXCEPT !.tasks =
             [n \in DOMAIN @ |-> IF @[n].state \in Active
                                 THEN [state |-> "LOST", todo |-> <<>>, killed |-> FALSE]
                                 ELSE @[n]]]
    BY <1>3 DEF Cancelled
  <2>3. js[j].tasks = [n \in DOMAIN jobs[j].tasks |->
                         IF jobs[j].tasks[n].state \in Active
                         THEN [state |-> "LOST", todo |-> <<>>, killed |-> FALSE]
                         ELSE jobs[j].tasks[n]]
    BY <2>1, <2>2
  <2>4. \A n \in DOMAIN jobs[j].tasks : "state" \in DOMAIN jobs[j].tasks[n]
    BY DEF JobsShape
  <2> QED
    BY <2>1, <2>2, <2>3, <2>4 DEF Active
<1> HIDE DEF js
<1>4. JobsShape(js)
  BY <1>1, <1>2, <1>3 DEF JobsShape
<1>5. Live(js) \subseteq Live(jobs) \ some
  <2> SUFFICES ASSUME NEW j \in Live(js)
               PROVE  j \in Live(jobs) /\ j \notin some
    OBVIOUS
  <2>1. PICK n \in DOMAIN js[j].tasks : js[j].tasks[n].state \in Active
    BY DEF Live
  <2>2. j \in DOMAIN jobs
    BY <1>1 DEF Live
  <2>3. j \notin some
    BY <1>3, <2>1, <2>2
  <2> QED
    BY <1>2, <2>1, <2>2, <2>3 DEF Live
<1> QED
  BY <1>4, <1>5 DEF js

\* A task that may still run is given its next state: no array begins to run.
LEMMA TaskMovesOn ==
  ASSUME JobsShape(jobs), NEW j \in DOMAIN jobs, NEW n \in DOMAIN jobs[j].tasks,
         Task(j, n).state \in Active,
         NEW task, "state" \in DOMAIN task, SetTask(j, n, task)
  PROVE  JobsShape(jobs') /\ Live(jobs') \subseteq Live(jobs)
<1>1. {"tag", "tasks"} \subseteq DOMAIN jobs[j]
  BY DEF JobsShape
<1>2. /\ DOMAIN jobs' = DOMAIN jobs
      /\ \A i \in DOMAIN jobs \ {j} : jobs'[i] = jobs[i]
      /\ DOMAIN jobs'[j] = DOMAIN jobs[j]
      /\ jobs'[j].tasks = [jobs[j].tasks EXCEPT ![n] = task]
  BY <1>1 DEF SetTask
<1>3. JobsShape(jobs')
  BY <1>1, <1>2 DEF JobsShape
<1>4. j \in Live(jobs)
  BY DEF Live, Task
<1>5. \A i \in DOMAIN jobs \ {j} : i \in Live(jobs') => i \in Live(jobs)
  BY <1>2 DEF Live
<1> QED
  BY <1>2, <1>3, <1>4, <1>5 DEF Live

\* Fewer arrays are left: what is forgotten may run no more.
LEMMA ForgottenMayNotRun ==
  ASSUME JobsShape(jobs), NEW some, some \subseteq DOMAIN jobs
  PROVE  JobsShape(Restrict(jobs, some)) /\ Live(Restrict(jobs, some)) \subseteq Live(jobs)
BY DEF Restrict, JobsShape, Live

\* A call that returns leaves its caller idle; one that goes on has its state.
LEMMA CallsMove ==
  ASSUME Shape, NEW c \in Caller, NEW pc, NEW st
  PROVE  /\ Quit(c) => /\ DOMAIN call' = Caller /\ call'[c] = Idle
                       /\ \A d \in Caller \ {c} : call'[d] = call[d]
         /\ Goto(c, pc, st) => /\ DOMAIN call' = Caller
                               /\ \A d \in Caller \ {c} : call'[d] = call[d]
                               /\ DOMAIN call'[c] = DOMAIN call[c]
                               /\ call'[c].pc = pc /\ call'[c].st = st
                               /\ call'[c].seen = call[c].seen
                               /\ call'[c].round = call[c].round
                               /\ call'[c].bands = call[c].bands
<1>1. DOMAIN call = Caller /\ {"pc", "st", "seen", "round", "bands"} \subseteq DOMAIN call[c]
  BY DEF Shape, CallShape
<1>2. ASSUME Quit(c)
      PROVE  /\ DOMAIN call' = Caller /\ call'[c] = Idle
             /\ \A d \in Caller \ {c} : call'[d] = call[d]
  BY <1>1, <1>2 DEF Quit
<1>3. ASSUME Goto(c, pc, st)
      PROVE  /\ DOMAIN call' = Caller
             /\ \A d \in Caller \ {c} : call'[d] = call[d]
             /\ DOMAIN call'[c] = DOMAIN call[c]
             /\ call'[c].pc = pc /\ call'[c].st = st
             /\ call'[c].seen = call[c].seen
             /\ call'[c].round = call[c].round
             /\ call'[c].bands = call[c].bands
  BY <1>1, <1>3 DEF Goto
<1> QED
  BY <1>2, <1>3

\* The shapes of what a call begins with.
LEMMA FirstShapes ==
  /\ CallShape(Idle) /\ Idle.pc = "idle"
  /\ StateShape(NewState) /\ NewState.waiting = FALSE /\ NewState.current.jobs = {}
  /\ StateShape(NoState) /\ NoState.waiting = FALSE /\ NoState.current.jobs = {}
<1>1. StateShape(NewState) /\ NewState.waiting = FALSE /\ NewState.current.jobs = {}
  BY DEF NewState, StateShape, NoRound
<1>2. StateShape(NoState) /\ NoState.waiting = FALSE /\ NoState.current.jobs = {}
  BY <1>1 DEF NoState, StateShape
<1> HIDE DEF NewState
<1>3. CallShape(Idle) /\ Idle.pc = "idle"
  BY <1>2 DEF Idle, CallShape, NoRound
<1> QED
  BY <1>1, <1>2, <1>3

\* No array runs before there is a run.
LEMMA OwnerInit == Init => OwnerInv
<1> SUFFICES ASSUME Init
             PROVE  OwnerInv
  OBVIOUS
<1>1. Live(jobs) = {} /\ JobsShape(jobs)
  BY DEF Init, Live, JobsShape
<1>2. DOMAIN call = Caller /\ \A c \in Caller : call[c] = Idle
  BY DEF Init
<1>3. disk = NoState
  BY DEF Init
<1>4. outages = 0
  BY DEF Init
<1>5. Shape
  BY <1>1, <1>2, <1>3, FirstShapes DEF Shape
<1>6. \A c \in Caller : OwnedBy(call[c])
  BY <1>1, <1>2, <1>3, FirstShapes DEF OwnedBy
<1> QED
  BY <1>4, <1>5, <1>6 DEF OwnerInv

\* Every step leaves each array that may still run with its owner.
LEMMA OwnerNext ==
  ASSUME OneCaller, OwnerInv, [Next]_vars
  PROVE  OwnerInv'
<1> USE DEF cluster
<1>1. Shape /\ StateShape(disk) /\ JobsShape(jobs) /\ DOMAIN call = Caller
  BY DEF OwnerInv, Shape
<1>2. PICK c : Caller = {c}
  BY DEF OneCaller
<1>3. c \in Caller /\ CallShape(call[c])
  BY <1>1, <1>2 DEF Shape
<1>4. outages = 0 /\ ~dropped => OwnedBy(call[c])
  BY <1>3 DEF OwnerInv
<1>0. outages \in Nat /\ outages + 1 \in Nat /\ outages + 1 # 0
  BY DEF OwnerInv
<1>5. ASSUME StateShape(disk'), JobsShape(jobs'), DOMAIN call' = Caller, CallShape(call'[c]),
             outages' \in {outages, outages + 1},
             outages' = 0 /\ ~dropped' => OwnedBy(call[c])'
      PROVE  OwnerInv'
  BY <1>2, <1>5, <1>0 DEF OwnerInv, Shape
<1>6. CASE SubmitRun(c)
  <2>1. /\ Live(jobs') = {} /\ JobsShape(jobs')
        /\ UNCHANGED <<disk, dropped, outages>>
    BY <1>6 DEF SubmitRun, Restrict, Live, JobsShape
  <2>2. PICK pc, st : pc \in {"save", "plan"} /\ Goto(c, pc, st) /\ StateShape(st)
    <3>1. CASE asked.packed = <<>>
      <4>1. Goto(c, "save", [NewState EXCEPT !.record = TRUE])
        BY <1>6, <3>1 DEF SubmitRun
      <4>2. StateShape([NewState EXCEPT !.record = TRUE])
        BY FirstShapes DEF StateShape
      <4> QED
        BY <4>1, <4>2
    <3>2. CASE asked.packed # <<>>
      <4>1. Goto(c, "plan", [NewState EXCEPT !.owed = asked.packed])
        BY <1>6, <3>2 DEF SubmitRun
      <4>2. StateShape([NewState EXCEPT !.owed = asked.packed])
        BY FirstShapes DEF StateShape
      <4> QED
        BY <4>1, <4>2
    <3> QED
      BY <3>1, <3>2
  <2>3. DOMAIN call' = Caller /\ CallShape(call'[c]) /\ call'[c].pc \in {"save", "plan"}
    BY <1>1, <1>3, <2>2, CallsMove DEF CallShape
  <2>4. OwnedBy(call[c])'
    BY <2>1, <2>3 DEF OwnedBy
  <2> QED
    BY <1>1, <1>5, <2>1, <2>3, <2>4
<1>7. CASE Gather(c)
  <2>1. /\ Goto(c, IF disk.waiting THEN "plan" ELSE "look", disk)
        /\ UNCHANGED <<disk, jobs, dropped, outages>> /\ call[c].pc = "idle"
    BY <1>7 DEF Gather, At
  <2>2. /\ DOMAIN call' = Caller /\ CallShape(call'[c])
        /\ call'[c].pc = (IF disk.waiting THEN "plan" ELSE "look") /\ call'[c].st = disk
    BY <1>1, <1>3, <2>1, CallsMove DEF CallShape
  <2>3. outages' = 0 /\ ~dropped' => OwnedBy(call[c])'
    BY <1>4, <2>1, <2>2 DEF OwnedBy, Live
  <2> QED
    BY <1>1, <1>5, <2>1, <2>2, <2>3
<1>8. CASE Look(c)
  <2>1. UNCHANGED <<disk, jobs, dropped, outages>> /\ call[c].pc = "look"
    BY <1>8 DEF Look, At
  <2>2. CASE \E t \in TasksOf(call[c].st.current) : jobs[t[1]].tasks[t[2]].state \in Active
    <3>1. CASE Quit(c)
      <4>1. DOMAIN call' = Caller /\ call'[c] = Idle
        BY <1>1, <1>3, <3>1, CallsMove
      <4>2. outages' = 0 /\ ~dropped' => OwnedBy(call[c])'
        BY <1>4, <2>1, <4>1, FirstShapes DEF OwnedBy, Live
      <4> QED
        BY <1>1, <1>5, <2>1, <4>1, <4>2, FirstShapes
    <3>2. CASE Goto(c, "save", call[c].st)
      <4>1. DOMAIN call' = Caller /\ CallShape(call'[c]) /\ call'[c].pc = "save" /\ call'[c].st = call[c].st
        BY <1>1, <1>3, <3>2, CallsMove DEF CallShape
      <4>2. outages' = 0 /\ ~dropped' => OwnedBy(call[c])'
        BY <1>4, <2>1, <4>1 DEF OwnedBy, Live
      <4> QED
        BY <1>1, <1>5, <2>1, <4>1, <4>2
    <3> QED
      BY <1>8, <2>2, <3>1, <3>2 DEF Look
  <2>3. CASE ~\E t \in TasksOf(call[c].st.current) : jobs[t[1]].tasks[t[2]].state \in Active
    <3>1. PICK seen : call' = [call EXCEPT ![c].pc = "fold", ![c].seen = seen]
      BY <1>8, <2>3 DEF Look
    <3>2. /\ DOMAIN call' = Caller /\ call'[c].pc = "fold" /\ DOMAIN call'[c] = DOMAIN call[c]
          /\ call'[c].st = call[c].st /\ call'[c].round = call[c].round
      BY <1>1, <1>3, <3>1 DEF CallShape
    <3>3. CallShape(call'[c])
      BY <1>3, <3>2 DEF CallShape
    <3>4. outages = 0 /\ ~dropped => Live(jobs) = {}
      <4> SUFFICES ASSUME outages = 0, ~dropped, NEW j \in Live(jobs)
                   PROVE  FALSE
        OBVIOUS
      <4>1. j \in call[c].st.current.jobs
        BY <1>4, <2>1 DEF OwnedBy
      <4>2. PICK n \in DOMAIN jobs[j].tasks : j \in DOMAIN jobs /\ jobs[j].tasks[n].state \in Active
        BY DEF Live
      <4>3. <<j, n>> \in TasksOf(call[c].st.current)
        BY <4>1, <4>2 DEF TasksOf
      <4> QED
        BY <2>3, <4>2, <4>3
    <3>5. outages' = 0 /\ ~dropped' => OwnedBy(call[c])'
      BY <2>1, <3>2, <3>4 DEF OwnedBy, Live
    <3> QED
      BY <1>1, <1>5, <2>1, <3>2, <3>3, <3>5
  <2> QED
    BY <2>2, <2>3
<1>9. CASE Fold(c)
  <2>1. UNCHANGED <<disk, jobs, dropped, outages>> /\ call[c].pc = "fold"
    BY <1>9 DEF Fold, At
  <2>2. \/ Quit(c)
        \/ \E report, seen : \/ Goto(c, "plan", AfterFold(call[c].st, report, seen))
                            \/ Goto(c, "save", Recorded(AfterFold(call[c].st, report, seen), "lost"))
    BY <1>9 DEF Fold
  <2>3. CASE Quit(c)
    <3>1. DOMAIN call' = Caller /\ call'[c] = Idle
      BY <1>1, <1>3, <2>3, CallsMove
    <3>2. outages' = 0 /\ ~dropped' => OwnedBy(call[c])'
      BY <1>4, <2>1, <3>1, FirstShapes DEF OwnedBy, Live
    <3> QED
      BY <1>1, <1>5, <2>1, <3>1, <3>2, FirstShapes
  <2>4. CASE ~Quit(c)
    <3>1. PICK pc, st : pc \in {"plan", "save"} /\ Goto(c, pc, st) /\ StateShape(st)
      <4>1. ASSUME NEW report, NEW seen
            PROVE  StateShape(AfterFold(call[c].st, report, seen))
        BY <1>3 DEF AfterFold, StateShape, CallShape
      <4>2. ASSUME NEW st, StateShape(st)
            PROVE  StateShape(Recorded(st, "lost"))
        BY <4>2 DEF Recorded, StateShape
      <4> QED
        BY <2>2, <2>4, <4>1, <4>2
    <3>2. DOMAIN call' = Caller /\ CallShape(call'[c]) /\ call'[c].pc \in {"plan", "save"}
      BY <1>1, <1>3, <3>1, CallsMove DEF CallShape
    <3>3. outages' = 0 /\ ~dropped' => OwnedBy(call[c])'
      BY <1>4, <2>1, <3>2 DEF OwnedBy, Live
    <3> QED
      BY <1>1, <1>5, <2>1, <3>2, <3>3
  <2> QED
    BY <2>3, <2>4
<1>10. CASE Plan(c)
  <2>1. UNCHANGED <<disk, jobs, dropped, outages>> /\ call[c].pc = "plan"
    BY <1>10 DEF Plan, At
  <2>2. PICK round, bands : /\ "jobs" \in DOMAIN round
                           /\ call' = [call EXCEPT ![c].pc = "bands", ![c].round = round, ![c].bands = bands]
    BY <1>10 DEF Plan
  <2>3. /\ DOMAIN call' = Caller /\ DOMAIN call'[c] = DOMAIN call[c]
        /\ call'[c].pc = "bands" /\ call'[c].st = call[c].st /\ call'[c].round = round
    BY <1>1, <1>3, <2>2 DEF CallShape
  <2>4. CallShape(call'[c])
    BY <1>3, <2>2, <2>3 DEF CallShape
  <2>5. outages' = 0 /\ ~dropped' => OwnedBy(call[c])'
    BY <1>4, <2>1, <2>3 DEF OwnedBy, Live
  <2> QED
    BY <1>1, <1>5, <2>1, <2>3, <2>4, <2>5
<1>11. ASSUME NoRoom(c)
       PROVE  \/ Quit(c)
              \/ \E st : Goto(c, "save", st) /\ StateShape(st)
  <2> DEFINE old == call[c].st
  <2>1. StateShape(old)
    BY <1>3 DEF CallShape
  <2>2. \/ Quit(c)
        \/ Goto(c, "save", [old EXCEPT !.waiting = TRUE, !.polls = 0])
        \/ Goto(c, "save", [old EXCEPT !.polls = @ + 1])
        \/ Goto(c, "save", Recorded(old, "unrun"))
    BY <1>11 DEF NoRoom
  <2>3. /\ StateShape([old EXCEPT !.waiting = TRUE, !.polls = 0])
        /\ StateShape([old EXCEPT !.polls = @ + 1])
        /\ StateShape(Recorded(old, "unrun"))
    BY <2>1 DEF StateShape, Recorded
  <2> QED
    BY <2>2, <2>3
<1>11a. ASSUME \/ Quit(c)
             \/ \E st : Goto(c, "save", st) /\ StateShape(st),
             UNCHANGED <<disk, dropped, outages>>, JobsShape(jobs'),
             outages = 0 /\ ~dropped => Live(jobs') = {}
      PROVE  OwnerInv'
  <2>1. CASE Quit(c)
    <3>1. DOMAIN call' = Caller /\ call'[c] = Idle
      BY <1>1, <1>3, <2>1, CallsMove
    <3>2. outages' = 0 /\ ~dropped' => OwnedBy(call[c])'
      BY <1>11a, <3>1, FirstShapes DEF OwnedBy
    <3> QED
      BY <1>1, <1>5, <1>11a, <3>1, <3>2, FirstShapes
  <2>2. CASE ~Quit(c)
    <3>1. PICK st : Goto(c, "save", st) /\ StateShape(st)
      BY <1>11a, <2>2
    <3>2. DOMAIN call' = Caller /\ CallShape(call'[c]) /\ call'[c].pc = "save"
      BY <1>1, <1>3, <3>1, CallsMove DEF CallShape
    <3>3. outages' = 0 /\ ~dropped' => OwnedBy(call[c])'
      BY <1>11a, <3>2 DEF OwnedBy
    <3> QED
      BY <1>1, <1>5, <1>11a, <3>2, <3>3
  <2> QED
    BY <2>1, <2>2
<1>12. CASE PlanRefused(c)
  <2>1. UNCHANGED <<disk, jobs, dropped, outages>> /\ call[c].pc = "plan"
    BY <1>12 DEF PlanRefused, At
  <2>2. \/ Quit(c)
        \/ \E st : Goto(c, "save", st) /\ StateShape(st)
    <3>1. StateShape(Recorded(call[c].st, "placement"))
      BY <1>3 DEF CallShape, StateShape, Recorded
    <3> QED
      BY <1>11, <1>12, <3>1 DEF PlanRefused
  <2>3. outages = 0 /\ ~dropped => Live(jobs') = {}
    BY <1>4, <2>1 DEF OwnedBy, Live
  <2> QED
    BY <1>1, <1>11a, <2>1, <2>2, <2>3
<1>13. CASE SubmitBand(c)
  <2>1. UNCHANGED <<disk, dropped, outages>> /\ call[c].pc = "bands"
    BY <1>13 DEF SubmitBand, At
  <2>2. PICK array :
          /\ {"tag", "tasks"} \subseteq DOMAIN array
          /\ \A n \in DOMAIN array.tasks : "state" \in DOMAIN array.tasks[n]
          /\ jobs' = [j \in DOMAIN jobs \cup {Fresh} |-> IF j = Fresh THEN array ELSE jobs[j]]
    BY <1>13 DEF SubmitBand
  <2>3. call' = [call EXCEPT ![c].bands = Tail(@), ![c].round.jobs = @ \cup {Fresh}]
    BY <1>13 DEF SubmitBand
  <2> DEFINE j1 == Fresh
  <2>3a. call' = [call EXCEPT ![c].bands = Tail(@), ![c].round.jobs = @ \cup {j1}]
    BY <2>3
  <2>3b. jobs' = [j \in DOMAIN jobs \cup {j1} |-> IF j = j1 THEN array ELSE jobs[j]]
    BY <2>2
  <2> HIDE DEF j1
  <2>4. /\ DOMAIN call' = Caller /\ DOMAIN call'[c] = DOMAIN call[c]
        /\ call'[c].pc = "bands" /\ call'[c].st = call[c].st
        /\ DOMAIN call'[c].round = DOMAIN call[c].round
        /\ call'[c].round.jobs = call[c].round.jobs \cup {j1}
    BY <1>1, <1>3, <2>1, <2>3a DEF CallShape
  <2>5. CallShape(call'[c])
    BY <1>3, <2>4 DEF CallShape
  <2>6. JobsShape(jobs')
    BY <1>1, <2>2, <2>3b DEF JobsShape
  <2>7. Live(jobs') \subseteq Live(jobs) \cup {j1}
    BY <2>3b DEF Live
  <2>8. outages' = 0 /\ ~dropped' => OwnedBy(call[c])'
    BY <1>4, <2>1, <2>4, <2>7 DEF OwnedBy
  <2> QED
    BY <1>1, <1>5, <2>1, <2>4, <2>5, <2>6, <2>8
<1>14. CASE SubmitLimit(c)
  <2>1. /\ UNCHANGED <<disk, dropped, outages>> /\ call[c].pc = "bands" /\ NoRoom(c)
        /\ jobs' = Cancelled(call[c].round.jobs)
    BY <1>14 DEF SubmitLimit, At
  <2>2. JobsShape(jobs') /\ Live(jobs') \subseteq Live(jobs) \ call[c].round.jobs
    BY <1>1, <2>1, CancelledMayNotRun
  <2>3. outages = 0 /\ ~dropped => Live(jobs') = {}
    BY <1>4, <2>1, <2>2 DEF OwnedBy
  <2> QED
    BY <1>11, <1>11a, <2>1, <2>2, <2>3
<1>15. CASE Submitted(c)
  <2> DEFINE st == [call[c].st EXCEPT !.rounds = @ + 1, !.owed = <<>>, !.waiting = FALSE,
                                      !.polls = 0, !.current = call[c].round]
  <2>1. UNCHANGED <<disk, jobs, dropped, outages>> /\ call[c].pc = "bands" /\ Goto(c, "save", st)
    BY <1>15 DEF Submitted, At
  <2>2. StateShape(st) /\ st.waiting = FALSE /\ st.current = call[c].round
    BY <1>3 DEF CallShape, StateShape
  <2> HIDE DEF st
  <2>3. /\ DOMAIN call' = Caller /\ CallShape(call'[c])
        /\ call'[c].pc = "save" /\ call'[c].st = st /\ call'[c].round = call[c].round
    BY <1>1, <1>3, <2>1, <2>2, CallsMove DEF CallShape
  <2>4. outages' = 0 /\ ~dropped' => OwnedBy(call[c])'
    BY <1>4, <2>1, <2>2, <2>3 DEF OwnedBy, Live
  <2> QED
    BY <1>1, <1>5, <2>1, <2>3, <2>4
<1>16. CASE Save(c)
  <2>1. /\ call[c].pc = "save" /\ disk' = call[c].st /\ Quit(c) /\ UNCHANGED <<dropped, outages>>
        /\ \E some : jobs' = Restrict(jobs, some) /\ some \subseteq DOMAIN jobs
    BY <1>16 DEF Save, At
  <2>2. JobsShape(jobs') /\ Live(jobs') \subseteq Live(jobs)
    BY <1>1, <2>1, ForgottenMayNotRun
  <2>3. DOMAIN call' = Caller /\ call'[c] = Idle
    BY <1>1, <1>3, <2>1, CallsMove
  <2>4. StateShape(disk')
    BY <1>3, <2>1 DEF CallShape
  <2>5. outages' = 0 /\ ~dropped' => OwnedBy(call[c])'
    BY <1>4, <2>1, <2>2, <2>3, FirstShapes DEF OwnedBy
  <2> QED
    BY <1>5, <2>1, <2>2, <2>3, <2>4, <2>5, FirstShapes
<1>17. CASE Drop(c)
  <2>1. /\ UNCHANGED <<disk, outages>> /\ dropped' = TRUE /\ Quit(c)
        /\ jobs' \in {Cancelled(RunJobs), jobs}
    BY <1>17 DEF Drop
  <2>2. JobsShape(jobs')
    BY <1>1, <2>1, CancelledMayNotRun
  <2>3. DOMAIN call' = Caller /\ call'[c] = Idle
    BY <1>1, <1>3, <2>1, CallsMove
  <2> QED
    BY <1>1, <1>5, <2>1, <2>2, <2>3, FirstShapes
<1>18. CASE Outage(c)
  <2>1. /\ UNCHANGED <<disk, jobs>> /\ Quit(c) /\ outages' = outages + 1
    BY <1>18 DEF Outage
  <2>2. DOMAIN call' = Caller /\ call'[c] = Idle
    BY <1>1, <1>3, <2>1, CallsMove
  <2> QED
    BY <1>1, <1>5, <1>0, <2>1, <2>2, FirstShapes
<1>19. CASE CancelRun
  <2>1. /\ UNCHANGED <<disk, call>> /\ outages' = outages + 1 /\ jobs' = Cancelled(RunJobs)
    BY <1>19 DEF CancelRun
  <2>2. JobsShape(jobs')
    BY <1>1, <2>1, CancelledMayNotRun
  <2> QED
    BY <1>1, <1>3, <1>5, <1>0, <2>1, <2>2
<1>20. CASE WithdrawPending
  <2>1. /\ UNCHANGED <<disk, call>> /\ outages' = outages + 1
        /\ jobs' = [j \in DOMAIN jobs |->
                IF j \notin RunJobs THEN jobs[j] ELSE
                [jobs[j] EXCEPT !.tasks =
                   [n \in DOMAIN @ |-> IF @[n].state = "PENDING"
                                       THEN [state |-> "LOST", todo |-> <<>>, killed |-> FALSE]
                                       ELSE @[n]]]]
    BY <1>20 DEF WithdrawPending
  <2>2. JobsShape(jobs')
    BY <1>1, <2>1 DEF JobsShape
  <2> QED
    BY <1>1, <1>3, <1>5, <1>0, <2>1, <2>2
<1>21. ASSUME NEW j \in DOMAIN jobs, NEW n \in DOMAIN jobs[j].tasks, Runs(j, n)
       PROVE  OwnerInv'
  <2>1. UNCHANGED <<disk, call, dropped, outages>>
    BY <1>21 DEF Runs, Start, NeverStarts, RunItem
  <2>2. Task(j, n).state \in Active
    BY <1>21 DEF Runs, Start, NeverStarts, RunItem, Active
  <2>3. PICK task : SetTask(j, n, task) /\ "state" \in DOMAIN task
    <3>1. ASSUME NEW state, NEW todo, NEW killed
          PROVE  "state" \in DOMAIN [state |-> state, todo |-> todo, killed |-> killed]
      OBVIOUS
    <3>2. CASE Start(j, n)
      <4>1. \E state, todo, killed :
              SetTask(j, n, [state |-> state, todo |-> todo, killed |-> killed])
        <5> DEFINE round == manifest[jobs[j].tag]
                   mine  == Without([i \in DOMAIN round.items |-> i],
                                   {i \in DOMAIN round.items : round.shard[i] # n})
        <5>1. SetTask(j, n,
                IF mine = <<>> THEN [state |-> "LOST", todo |-> <<>>, killed |-> FALSE]
                ELSE [state |-> "RUNNING", killed |-> FALSE,
                      todo |-> [k \in DOMAIN mine |-> [item |-> mine[k], ids |-> round.items[mine[k]]]]])
          BY <3>2 DEF Start
        <5> HIDE DEF mine, round
        <5> QED
          BY <5>1
      <4> QED
        BY <3>1, <4>1
    <3>3. CASE NeverStarts(j, n)
      BY <3>3 DEF NeverStarts
    <3>4. CASE RunItem(j, n)
      <4>1. \E state, todo, killed :
              SetTask(j, n, [state |-> state, todo |-> todo, killed |-> killed])
        BY <3>4 DEF RunItem
      <4> QED
        BY <3>1, <4>1
    <3> QED
      BY <1>21, <3>2, <3>3, <3>4 DEF Runs
  <2>4. JobsShape(jobs') /\ Live(jobs') \subseteq Live(jobs)
    BY <1>1, <2>2, <2>3, TaskMovesOn
  <2>5. outages' = 0 /\ ~dropped' => OwnedBy(call[c])'
    BY <1>4, <2>1, <2>4 DEF OwnedBy
  <2> QED
    BY <1>1, <1>3, <1>5, <2>1, <2>4, <2>5
<1>22. CASE UNCHANGED vars
  <2>1. UNCHANGED <<disk, jobs, call, dropped, outages>>
    BY <1>22 DEF vars
  <2>2. outages' = 0 /\ ~dropped' => OwnedBy(call[c])'
    BY <1>4, <2>1 DEF OwnedBy, Live
  <2> QED
    BY <1>1, <1>3, <1>5, <2>1, <2>2
<1> QED
  BY <1>2, <1>6, <1>7, <1>8, <1>9, <1>10, <1>12, <1>13, <1>14, <1>15, <1>16, <1>17, <1>18, <1>19,
     <1>20, <1>21, <1>22 DEF Next, Step

\* The invariant holds in every reachable state.
LEMMA OwnerInvHolds ==
  ASSUME OneCaller
  PROVE  Spec => []OwnerInv
<1>1. Init => OwnerInv
  BY OwnerInit
<1>2. OwnerInv /\ [Next]_vars => OwnerInv'
  BY OwnerNext
<1> QED
  BY <1>1, <1>2, PTL DEF Spec

-----------------------------------------------------------------------------
\* cluster.py:343: a round is whole or not at all: with no call cut short, an
\* array that may still run belongs to the round in flight or to the call that
\* is submitting it.  Two calls at a time would each forget the other's.
THEOREM ArraysHaveOwners ==
  ASSUME OneCaller
  PROVE  Spec => []ArraysAreOwned
<1>1. OwnerInv => ArraysAreOwned
  <2> SUFFICES ASSUME OwnerInv, outages = 0, ~dropped, NEW j \in Live(jobs)
               PROVE  j \in disk.current.jobs \/ \E c \in Caller : j \in call[c].round.jobs
    BY DEF ArraysAreOwned
  <2>1. PICK c : Caller = {c}
    BY DEF OneCaller
  <2>2. c \in Caller /\ OwnedBy(call[c]) /\ CallShape(call[c])
    BY <2>1 DEF OwnerInv, Shape
  <2> QED
    BY <2>2 DEF OwnedBy, CallShape
<1> QED
  BY <1>1, OwnerInvHolds, PTL

-----------------------------------------------------------------------------
(* The demand table: what the fold of a round changes of what was learned. *)

LEMMA UnfinishedKeeps ==
  ASSUME NEW X, NEW ids \in Seq(X), NEW cells
  PROVE  Unfinished(ids, cells) \in Seq(X) /\ Range(Unfinished(ids, cells)) = Range(ids) \ cells
<1>1. Unfinished(ids, cells) = Without(ids, cells)
  BY DEF Unfinished, Without
<1> QED
  BY <1>1, WithoutKeeps

IdFacts == {"durations", "floors", "idPeaks"}
FileFacts == {"overheads", "peaks"}

\* What two dicts hold of x, and two tables of all but these ids.
SameAt(a, b, x) == (x \in DOMAIN a <=> x \in DOMAIN b) /\ (x \in DOMAIN a => a[x] = b[x])
SameBut(m, n, ids) ==
  /\ \A k \in IdFacts : \A x : x \notin ids => SameAt(m[k], n[k], x)
  /\ \A k \in FileFacts : \A x : x \notin {FileOf[i] : i \in ids} => SameAt(m[k], n[k], x)
HasFacts(m) == Facts \cup {"seen", "taught"} \subseteq DOMAIN m

LEMMA DictsElsewhere ==
  ASSUME NEW f, NEW g, NEW xs, NEW v, NEW x
  PROVE  /\ x \notin DOMAIN g => SameAt(f, Put(f, g), x)
         /\ x \notin xs => SameAt(f, RaisedTo(f, xs, v), x) /\ SameAt(f, Dropped(f, xs), x)
<1>1. x \notin DOMAIN g => SameAt(f, Put(f, g), x)
  BY DEF Put, SameAt
<1>2. x \notin xs => SameAt(f, RaisedTo(f, xs, v), x)
  <2> DEFINE new == [y \in xs |-> Most(Fact(f, y), v)]
  <2>1. DOMAIN new = xs
    OBVIOUS
  <2> HIDE DEF new
  <2>2. x \notin xs => SameAt(f, Put(f, new), x)
    BY <2>1 DEF Put, SameAt
  <2> QED
    BY <2>2 DEF RaisedTo, new
<1>3. x \notin xs => SameAt(f, Dropped(f, xs), x)
  BY DEF Dropped, Restrict, SameAt
<1> QED
  BY <1>1, <1>2, <1>3

LEMMA SameTwice ==
  ASSUME NEW a, NEW b, NEW c, NEW s, NEW t, SameBut(a, b, s), SameBut(b, c, t)
  PROVE  SameBut(a, c, s \cup t)
<1>1. \A i : i \in s => FileOf[i] \in {FileOf[j] : j \in s \cup t}
  OBVIOUS
<1>2. \A x : x \notin {FileOf[j] : j \in s \cup t} => x \notin {FileOf[j] : j \in s} /\ x \notin {FileOf[j] : j \in t}
  OBVIOUS
<1>3. \A k \in IdFacts : \A x : x \notin s \cup t => SameAt(a[k], c[k], x)
  BY DEF SameBut, SameAt
<1>4. \A k \in FileFacts : \A x : x \notin {FileOf[i] : i \in s \cup t} => SameAt(a[k], c[k], x)
  BY <1>2 DEF SameBut, SameAt
<1> QED
  BY <1>3, <1>4 DEF SameBut

\* An item that ran: what it told of is of its own ids, all of them if it ended by itself.
Told(i) ==
  /\ i.f.ids \in Seq(DOMAIN FileOf) /\ i.f.cells \subseteq Range(i.f.ids) /\ DOMAIN i.f.seconds = i.f.cells
  /\ i.f.done \in {"open", "killed", "exited"}
  /\ i.f.done = "exited" => i.f.cells = Range(i.f.ids)
Touched(i) == IF i.state = "TIMEOUT" THEN Range(i.f.ids) ELSE i.f.cells \cup CutId(i.f)

LEMMA CutIsOwn ==
  ASSUME NEW i, Told(i)
  PROVE  /\ Range(Rest(i.f)) = Range(i.f.ids) \ i.f.cells /\ CutId(i.f) \subseteq Range(i.f.ids)
         /\ i.f.cells \cup CutId(i.f) \subseteq Touched(i) /\ Touched(i) \subseteq Range(i.f.ids)
         /\ i.f.ids # <<>> => i.f.cells \cup CutId(i.f) # {}
<1>1. Rest(i.f) \in Seq(DOMAIN FileOf) /\ Range(Rest(i.f)) = Range(i.f.ids) \ i.f.cells
  BY UnfinishedKeeps DEF Told, Rest
<1>2. Rest(i.f) # <<>> => Head(Rest(i.f)) \in Range(Rest(i.f))
  BY <1>1 DEF Range
<1>3. CutId(i.f) \subseteq Range(i.f.ids)
  BY <1>1, <1>2 DEF CutId
<1>4. ASSUME i.f.ids # <<>>, i.f.cells = {} PROVE CutId(i.f) # {}
  <2>1. Range(i.f.ids) # {}
    <3>1. i.f.ids \in Seq(DOMAIN FileOf)
      BY DEF Told
    <3>2. 1 \in DOMAIN i.f.ids
      BY <1>4, <3>1
    <3> QED
      BY <3>2 DEF Range
  <2>2. Rest(i.f) # <<>>
    <3>1. Range(<<>>) = {}
      BY DEF Range
    <3> QED
      BY <1>1, <1>4, <2>1, <3>1
  <2> QED
    BY <2>2 DEF CutId
<1>5. i.f.cells \subseteq Range(i.f.ids)
  BY DEF Told
<1> QED
  BY <1>1, <1>3, <1>4, <1>5 DEF Touched

LEMMA LearnSame ==
  ASSUME NEW i, Told(i), NEW m, HasFacts(m), NEW allowed
  PROVE  HasFacts(Learn(m, i.f, allowed)) /\ SameBut(m, Learn(m, i.f, allowed), Touched(i))
<1> DEFINE f == i.f
           files == {FileOf[n] : n \in Touched(i)}
           known == [m EXCEPT !.durations = Put(@, f.seconds), !.floors = Dropped(@, DOMAIN f.seconds),
                       !.idPeaks = Dropped(@, DOMAIN f.seconds)]
           need == Most(f.peak, allowed) * OomGrowth
<1>0. f.cells \cup CutId(f) \subseteq Touched(i) /\ DOMAIN f.seconds = f.cells
  BY CutIsOwn DEF Told
<1>1. HasFacts(known) /\ SameBut(m, known, Touched(i))
  <2>1. /\ known.durations = Put(m.durations, f.seconds) /\ known.floors = Dropped(m.floors, DOMAIN f.seconds)
        /\ known.idPeaks = Dropped(m.idPeaks, DOMAIN f.seconds)
        /\ known.overheads = m.overheads /\ known.peaks = m.peaks /\ DOMAIN known = DOMAIN m
    BY DEF HasFacts, Facts
  <2> HIDE DEF known
  <2>2. ASSUME NEW x, x \notin Touched(i)
        PROVE  SameAt(m.durations, known.durations, x) /\ SameAt(m.floors, known.floors, x) /\ SameAt(m.idPeaks, known.idPeaks, x)
    BY <1>0, <2>1, <2>2, DictsElsewhere
  <2>3. \A x : SameAt(m.overheads, known.overheads, x) /\ SameAt(m.peaks, known.peaks, x)
    BY <2>1 DEF SameAt
  <2>4. HasFacts(known)
    BY <2>1 DEF HasFacts
  <2> QED
    BY <2>2, <2>3, <2>4 DEF SameBut, IdFacts, FileFacts
<1> HIDE DEF known, need
<1>2. ASSUME f.done = "killed", f.ids # <<>>
      PROVE  HasFacts(KilledPeak(known, f, need)) /\ SameBut(known, KilledPeak(known, f, need), Touched(i))
  <2> DEFINE lone == IF Cardinality(FilesOf(f.ids)) = 1 THEN FilesOf(f.ids) ELSE {}
             k == KilledPeak(known, f, need)
  <2>1. /\ k.peaks = RaisedTo(known.peaks, lone, need) /\ k.idPeaks = RaisedTo(known.idPeaks, CutId(f), need)
        /\ k.durations = known.durations /\ k.floors = known.floors /\ k.overheads = known.overheads
        /\ DOMAIN k = DOMAIN known
    BY <1>1 DEF KilledPeak, HasFacts, Facts
  <2>2. lone \subseteq files
    <3> SUFFICES ASSUME Cardinality(FilesOf(f.ids)) = 1 PROVE FilesOf(f.ids) \subseteq files
      OBVIOUS
    <3>1. IsFiniteSet(FilesOf(f.ids))
      <4> DEFINE g == [h \in 1 .. Len(f.ids) |-> FileOf[f.ids[h]]]
      <4>1. f.ids \in Seq(DOMAIN FileOf) /\ Len(f.ids) \in Int /\ Range(f.ids) = {f.ids[h] : h \in 1 .. Len(f.ids)}
        BY DEF Told, Range
      <4>2. g \in Surjection(1 .. Len(f.ids), FilesOf(f.ids))
        BY <4>1 DEF Surjection, FilesOf
      <4>3. IsFiniteSet(1 .. Len(f.ids))
        BY <4>1, FS_Interval
      <4> HIDE DEF g
      <4> QED
        BY <4>2, <4>3, FS_Surjection
    <3>2. PICK y : FilesOf(f.ids) = {y}
      BY <3>1, FS_Singleton
    <3>3. PICK n \in f.cells \cup CutId(f) : TRUE
      BY <1>2, CutIsOwn
    <3>4. n \in Range(f.ids) /\ n \in Touched(i)
      BY <1>0, <3>3, CutIsOwn DEF Told
    <3> QED
      BY <3>2, <3>4 DEF FilesOf
  <2> HIDE DEF k, lone, files
  <2>3. ASSUME NEW x, x \notin Touched(i) PROVE SameAt(known.idPeaks, k.idPeaks, x)
    BY <1>0, <2>1, <2>3, DictsElsewhere
  <2>4. ASSUME NEW x, x \notin files PROVE SameAt(known.peaks, k.peaks, x)
    BY <2>1, <2>2, <2>4, DictsElsewhere
  <2>5. \A x : /\ SameAt(known.durations, k.durations, x) /\ SameAt(known.floors, k.floors, x)
               /\ SameAt(known.overheads, k.overheads, x)
    BY <2>1 DEF SameAt
  <2>6. HasFacts(k)
    BY <1>1, <2>1 DEF HasFacts
  <2>7. SameBut(known, k, Touched(i))
    BY <2>3, <2>4, <2>5 DEF SameBut, IdFacts, FileFacts, files
  <2> QED
    BY <2>6, <2>7 DEF k
<1>3. ASSUME f.done = "exited"
      PROVE  HasFacts(Exited(known, f)) /\ SameBut(known, Exited(known, f), Touched(i))
  <2> DEFINE of == FilesOf(f.ids)
             share == Most(0, f.wall - Tests(f)) \div Cardinality(of)
             worst == IF f.peak = 0 THEN {} ELSE of
             over == [x \in of |-> share]
             peak == [x \in worst |-> IF x \in known.seen THEN Most(known.peaks[x], f.peak) ELSE f.peak]
             e == Exited(known, f)
  <2>1. /\ e.overheads = Put(known.overheads, over) /\ e.peaks = Put(known.peaks, peak)
        /\ e.durations = known.durations /\ e.floors = known.floors /\ e.idPeaks = known.idPeaks
        /\ DOMAIN e = DOMAIN known
    BY <1>1 DEF Exited, HasFacts, Facts
  <2>2. DOMAIN over = of /\ DOMAIN peak \subseteq of
    OBVIOUS
  <2>3. of \subseteq files
    BY <1>0, <1>3 DEF Told, FilesOf
  <2> HIDE DEF e, over, peak, of, files, share, worst
  <2>4. ASSUME NEW x, x \notin files
        PROVE  SameAt(known.overheads, e.overheads, x) /\ SameAt(known.peaks, e.peaks, x)
    <3>1. x \notin DOMAIN over /\ x \notin DOMAIN peak
      BY <2>2, <2>3, <2>4
    <3>2. SameAt(known.overheads, e.overheads, x)
      BY <2>1, <3>1, DictsElsewhere
    <3>3. SameAt(known.peaks, e.peaks, x)
      BY <2>1, <3>1, DictsElsewhere
    <3> QED
      BY <3>2, <3>3
  <2>5. \A x : /\ SameAt(known.durations, e.durations, x) /\ SameAt(known.floors, e.floors, x)
               /\ SameAt(known.idPeaks, e.idPeaks, x)
    BY <2>1 DEF SameAt
  <2>6. HasFacts(e)
    BY <1>1, <2>1 DEF HasFacts
  <2>7. SameBut(known, e, Touched(i))
    BY <2>4, <2>5 DEF SameBut, IdFacts, FileFacts, files
  <2> QED
    BY <2>6, <2>7 DEF e
<1>4. \/ Learn(m, f, allowed) = known
      \/ f.done = "killed" /\ f.ids # <<>> /\ Learn(m, f, allowed) = KilledPeak(known, f, need)
      \/ f.done = "exited" /\ Learn(m, f, allowed) = Exited(known, f)
  <2>1. f.done \in {"open", "killed", "exited"}
    BY DEF Told
  <2> QED
    BY <2>1 DEF Learn, known, need
<1>5. \A n : SameBut(known, n, Touched(i)) => SameBut(m, n, Touched(i))
  <2>1. Touched(i) \cup Touched(i) = Touched(i)
    OBVIOUS
  <2> QED
    BY <1>1, <2>1, SameTwice
<1> QED
  BY <1>1, <1>2, <1>3, <1>4, <1>5
LEMMA KilledSame ==
  ASSUME NEW i, Told(i), NEW m, HasFacts(m), NEW spent, NEW top
  PROVE  LET k == Killed(m, i.f, spent, i.state = "TIMEOUT", top) IN HasFacts(k) /\ SameBut(m, k, Touched(i))
<1> DEFINE f == i.f
           Explained == Tests(f) + SumFunction([x \in FilesOf(f.ids) |-> Fact(m.overheads, x)])
           floor == Least((spent - Explained) * (IF i.state = "TIMEOUT" \/ f.done = "killed" THEN TimeoutGrowth ELSE 1), top)
           floored == IF floor > 0 THEN [m EXCEPT !.floors = RaisedTo(@, CutId(f), floor)] ELSE m
           target == Least(spent * TimeoutGrowth, top)
           k == Killed(m, f, spent, i.state = "TIMEOUT", top)
<1>1. HasFacts(m) /\ SameBut(m, m, Touched(i))
  BY DEF SameBut, SameAt
<1>2. HasFacts(floored) /\ SameBut(m, floored, Touched(i))
  <2> DEFINE r == [m EXCEPT !.floors = RaisedTo(@, CutId(f), floor)]
  <2>1. /\ r.floors = RaisedTo(m.floors, CutId(f), floor) /\ DOMAIN r = DOMAIN m
        /\ \A x \in (IdFacts \cup FileFacts) \ {"floors"} : r[x] = m[x]
    BY DEF HasFacts, Facts, IdFacts, FileFacts
  <2>2. CutId(f) \subseteq Touched(i)
    BY CutIsOwn
  <2> HIDE DEF r, floor
  <2>3. \A x : x \notin Touched(i) => SameAt(m.floors, r.floors, x)
    BY <2>1, <2>2, DictsElsewhere
  <2>4. SameBut(m, r, Touched(i))
    BY <2>1, <2>3 DEF SameBut, SameAt, IdFacts, FileFacts
  <2>5. floored = r \/ floored = m
    BY DEF r
  <2> HIDE DEF floored
  <2> QED
    BY <1>1, <2>1, <2>4, <2>5 DEF HasFacts
<1>3. \/ k = m \/ k = floored
      \/ i.state = "TIMEOUT" /\ k = Outgrow(floored, Rest(f), target)
  BY DEF Killed
<1> HIDE DEF floored, target, k
<1>4. ASSUME i.state = "TIMEOUT"
      PROVE  HasFacts(Outgrow(floored, Rest(f), target)) /\ SameBut(floored, Outgrow(floored, Rest(f), target), Touched(i))
  <2> DEFINE rest == Rest(f)
             prices == [n \in Range(rest) |-> Price(floored, n)]
             short == target - SumOf(prices, Range(rest))
             each == (2 * short + Len(rest)) \div (2 * Len(rest))
             new == [n \in Range(rest) |-> prices[n] + each]
             o == Outgrow(floored, rest, target)
             r == [floored EXCEPT !.floors = Put(@, new)]
  <2>1. o = floored \/ o = r
    BY DEF Outgrow
  <2>2. DOMAIN new = Range(rest)
    OBVIOUS
  <2>3. Range(rest) \subseteq Touched(i)
    BY <1>4, CutIsOwn DEF Touched
  <2>4. /\ r.floors = Put(floored.floors, new) /\ DOMAIN r = DOMAIN floored
        /\ \A x \in (IdFacts \cup FileFacts) \ {"floors"} : r[x] = floored[x]
    BY <1>2 DEF HasFacts, Facts, IdFacts, FileFacts
  <2> HIDE DEF o, r, new, rest
  <2>5. \A x : x \notin Touched(i) => SameAt(floored.floors, r.floors, x)
    BY <2>2, <2>3, <2>4, DictsElsewhere
  <2>6. SameBut(floored, r, Touched(i)) /\ SameBut(floored, floored, Touched(i))
    BY <2>4, <2>5 DEF SameBut, SameAt, IdFacts, FileFacts
  <2> QED
    BY <1>2, <2>1, <2>4, <2>6 DEF HasFacts, o, rest
<1>5. Touched(i) \cup Touched(i) = Touched(i)
  OBVIOUS
<1> QED
  BY <1>1, <1>2, <1>3, <1>4, <1>5, SameTwice DEF k

LEMMA FoldItemSame ==
  ASSUME NEW i, Told(i), NEW m, HasFacts(m), NEW safety
  PROVE  HasFacts(FoldItem(m, i, safety)) /\ SameBut(m, FoldItem(m, i, safety), Touched(i))
<1> DEFINE learned == Learn(m, i.f, IF i.state = "OUT_OF_MEMORY" THEN i.limit \div safety ELSE 0)
           killed == Killed(learned, i.f, i.spent, i.state = "TIMEOUT", i.top)
<1>1. HasFacts(learned) /\ SameBut(m, learned, Touched(i))
  BY LearnSame
<1>2. FoldItem(m, i, safety) = learned \/ FoldItem(m, i, safety) = killed
  BY DEF FoldItem
<1> HIDE DEF learned
<1>3. HasFacts(killed) /\ SameBut(learned, killed, Touched(i))
  BY <1>1, KilledSame
<1> HIDE DEF killed
<1>4. Touched(i) \cup Touched(i) = Touched(i)
  OBVIOUS
<1> QED
  BY <1>1, <1>2, <1>3, <1>4, SameTwice

\* The fold of a round, one item after the other.
FoldsTo(f, m, items, n, safety) ==
  /\ \A k \in 0 .. n : f[k] = IF k = 0 THEN m ELSE FoldItem(f[k - 1], items[k], safety)
  /\ FoldItems(m, items, safety) = f[n]
LEMMA FoldItemsRecurs ==
  ASSUME NEW m, NEW items, NEW n \in Nat, n = Len(items), NEW safety
  PROVE  \E f : FoldsTo(f, m, items, n, safety)
<1> DEFINE Rec(f, k) == IF k = 0 THEN m ELSE FoldItem(f[k - 1], items[k], safety)
           T == {h \in Nat : \E f : f = [k \in 0 .. h |-> Rec(f, k)]}
<1>1. 0 \in T
  <2>1. [k \in 0 .. 0 |-> m] = [k \in 0 .. 0 |-> Rec([h \in 0 .. 0 |-> m], k)]
    OBVIOUS
  <2> HIDE DEF Rec
  <2> QED
    BY <2>1
<1>2. ASSUME NEW h \in T PROVE h + 1 \in T
  <2>1. PICK f : f = [k \in 0 .. h |-> Rec(f, k)]
    OBVIOUS
  <2>2. \A k \in 0 .. h : f[k] = Rec(f, k)
    <3> HIDE DEF Rec
    <3> QED
      BY <2>1
  <2> DEFINE g == [k \in 0 .. h + 1 |-> IF k = h + 1 THEN Rec(f, k) ELSE f[k]]
  <2>3. ASSUME NEW k \in 0 .. h + 1 PROVE g[k] = Rec(g, k)
    <3>1. CASE k = h + 1
      BY <3>1
    <3>2. CASE k # h + 1
      <4>1. k \in 0 .. h
        BY <3>2
      <4>2. f[k] = Rec(f, k)
        BY <2>2, <4>1
      <4>3. g[k] = f[k] /\ (k # 0 => g[k - 1] = f[k - 1])
        BY <4>1, <3>2
      <4> QED
        BY <4>2, <4>3
    <3> QED
      BY <3>1, <3>2
  <2>4. g = [k \in 0 .. h + 1 |-> Rec(g, k)]
    <3> HIDE DEF Rec
    <3> QED
      BY <2>3
  <2>5. h + 1 \in Nat
    OBVIOUS
  <2> HIDE DEF g, Rec
  <2> QED
    BY <2>4, <2>5
<1>3. n \in T
  <2>1. T \in SUBSET Nat
    OBVIOUS
  <2>2. T = Nat
    <3> HIDE DEF T
    <3> QED
      BY <1>1, <1>2, <2>1, Induction
  <2> HIDE DEF T
  <2> QED
    BY <2>2
<1> DEFINE fold == CHOOSE f : f = [k \in 0 .. Len(items) |-> IF k = 0 THEN m ELSE FoldItem(f[k - 1], items[k], safety)]
<1>4. fold = [k \in 0 .. n |-> Rec(fold, k)]
  BY <1>3
<1>5. \A k \in 0 .. n : fold[k] = Rec(fold, k)
  <2> HIDE DEF fold, Rec
  <2> QED
    BY <1>4
<1>6. FoldItems(m, items, safety) = fold[n]
  BY DEF FoldItems
<1> HIDE DEF fold
<1>7. \A k \in 0 .. n : fold[k] = IF k = 0 THEN m ELSE FoldItem(fold[k - 1], items[k], safety)
  BY <1>5
<1>8. FoldsTo(fold, m, items, n, safety)
  BY <1>6, <1>7 DEF FoldsTo
<1> QED
  BY <1>8

LEMMA FoldItemsSame ==
  ASSUME NEW m, HasFacts(m), NEW items, NEW n \in Nat, n = Len(items), \A k \in 1 .. n : Told(items[k]), NEW safety
  PROVE  HasFacts(FoldItems(m, items, safety)) /\ SameBut(m, FoldItems(m, items, safety), UNION {Touched(items[k]) : k \in 1 .. n})
<1>0. PICK f : FoldsTo(f, m, items, n, safety)
  BY FoldItemsRecurs
<1>1. /\ \A k \in 0 .. n : f[k] = IF k = 0 THEN m ELSE FoldItem(f[k - 1], items[k], safety)
      /\ FoldItems(m, items, safety) = f[n]
  BY <1>0 DEF FoldsTo
<1> DEFINE Upto(k) == UNION {Touched(items[h]) : h \in 1 .. k}
           P(k) == HasFacts(f[k]) /\ SameBut(m, f[k], Upto(k))
           T == {k \in Nat : k <= n => P(k)}
<1>2. 0 \in T
  <2>1. f[0] = m
    BY <1>1
  <2>2. P(0)
    BY <2>1 DEF SameBut, SameAt
  <2> HIDE DEF P
  <2> QED
    BY <2>2
<1>3. ASSUME NEW k \in T PROVE k + 1 \in T
  <2> SUFFICES ASSUME k + 1 <= n PROVE P(k + 1)
    OBVIOUS
  <2>1. P(k) /\ k + 1 \in 0 .. n /\ k + 1 \in 1 .. n /\ k \in Nat
    OBVIOUS
  <2>2. f[k + 1] = FoldItem(f[k], items[k + 1], safety)
    BY <1>1, <2>1
  <2>3. HasFacts(f[k + 1]) /\ SameBut(f[k], f[k + 1], Touched(items[k + 1]))
    BY <2>1, <2>2, FoldItemSame
  <2>4. Upto(k + 1) = Upto(k) \cup Touched(items[k + 1])
    <3>1. 1 .. k + 1 = (1 .. k) \cup {k + 1}
      BY <2>1
    <3> QED
      BY <3>1
  <2> HIDE DEF Upto
  <2>5. SameBut(m, f[k + 1], Upto(k) \cup Touched(items[k + 1]))
    BY <2>1, <2>3, SameTwice
  <2> QED
    BY <2>3, <2>4, <2>5
<1>4. P(n)
  <2>1. T \in SUBSET Nat
    OBVIOUS
  <2>2. T = Nat
    <3> HIDE DEF T
    <3> QED
      BY <1>2, <1>3, <2>1, Induction
  <2>3. n <= n => P(n)
    <3> HIDE DEF P
    <3> QED
      BY <2>2
  <2> QED
    BY <2>3
<1> QED
  BY <1>1, <1>4
-----------------------------------------------------------------------------
(* The runs of a repository.                                               *)

RunFields == {"pc", "measured", "before", "todo", "grown", "cells", "ran", "rounds", "ask", "seen"}
RunPlaces == {"idle", "planned", "ask", "learn", "end", "write_ask", "write_learn", "write_end", "over"}

\* A run has its fields and its items; what its fold changed is of ids that ran; and its
\* reading of the table is the newest unless another has written since.
RunStands(r) ==
  LET s == run[r]
  IN  /\ DOMAIN s = RunFields /\ s.pc \in RunPlaces /\ s.todo \in Seq(Seq(DOMAIN FileOf))
      /\ s.pc \in {"learn", "write_learn"} => SameBut(s.before, s.measured, s.ran)
      /\ Writes(r) /\ r \notin stale => s.seen = table
RunsInv == DOMAIN run = Seeded /\ \A r \in Seeded : RunStands(r)

LEMMA NewRunStands == DOMAIN NewRun = RunFields /\ NewRun.pc = "idle" /\ NewRun.todo = <<>>
BY DEF NewRun, RunFields

LEMMA TableInitStands == TableInit => RunsInv
<1> SUFFICES ASSUME TableInit PROVE RunsInv
  OBVIOUS
<1>1. DOMAIN run = Seeded /\ \A r \in Seeded : run[r] = NewRun
  BY DEF TableInit
<1>2. <<>> \in Seq(Seq(DOMAIN FileOf))
  OBVIOUS
<1> QED
  BY <1>1, <1>2, NewRunStands DEF RunsInv, RunStands, RunPlaces, Writes

\* The halves of an item are of its ids.
LEMMA HalvedKeeps ==
  ASSUME NEW X, NEW ids \in Seq(X)
  PROVE  Halved(ids) \in Seq(Seq(X))
<1> DEFINE half == (Len(ids) + 1) \div 2
           some(g) == IF g = <<>> THEN <<>> ELSE <<g>>
<1>1. half \in Nat /\ half <= Len(ids) /\ Len(ids) \in Nat
  OBVIOUS
<1>2. SubSeq(ids, 1, half) \in Seq(X) /\ SubSeq(ids, half + 1, Len(ids)) \in Seq(X)
  <2>1. \A i \in 1 .. Len(ids) : ids[i] \in X
    OBVIOUS
  <2> HIDE DEF half
  <2>2. /\ \A i \in 1 .. half : ids[i] \in X
        /\ \A i \in half + 1 .. Len(ids) : ids[i] \in X
    BY <1>1, <2>1
  <2> QED
    BY <1>1, <2>2, SubSeqProperties
<1>3. \A g \in Seq(X) : some(g) \in Seq(Seq(X))
  OBVIOUS
<1>4. Halved(ids) = some(SubSeq(ids, 1, half)) \o some(SubSeq(ids, half + 1, Len(ids)))
  BY DEF Halved
<1>5. \A a, b \in Seq(Seq(X)) : a \o b \in Seq(Seq(X))
  OBVIOUS
<1> HIDE DEF half, some
<1>6. some(SubSeq(ids, 1, half)) \in Seq(Seq(X)) /\ some(SubSeq(ids, half + 1, Len(ids))) \in Seq(Seq(X))
  BY <1>2, <1>3
<1> QED
  BY <1>4, <1>5, <1>6

\* How an item may end.
LEMMA EndsTold ==
  ASSUME NEW ids \in Seq(DOMAIN FileOf), NEW limit, NEW i \in Ends(ids, limit)
  PROVE  i.f.ids = ids /\ Told(i)
<1>1. PICK k \in 0 .. Len(ids), done \in {"open", "killed", "exited"} :
        \E w, p : i.f = Ran(ids, k, done, w, p) /\ (done = "exited" => k = Len(ids))
  <2>0. Len(ids) \in 0 .. Len(ids) /\ 0 .. Len(ids) - 1 \subseteq 0 .. Len(ids)
    OBVIOUS
  <2>1. CASE \E p \in Peaks : i.f = Ran(ids, Len(ids), "exited", Len(ids) + 1, p)
    BY <2>0, <2>1
  <2>2. CASE \E k \in 0 .. Len(ids) - 1 : \E w, p : \/ i.f = Ran(ids, k, "killed", w, p)
                                                    \/ i.f = Ran(ids, k, "open", w, p)
    BY <2>0, <2>2
  <2>3. \/ \E p \in Peaks : i.f = Ran(ids, Len(ids), "exited", Len(ids) + 1, p)
        \/ \E k \in 0 .. Len(ids) - 1 : \E w, p : \/ i.f = Ran(ids, k, "killed", w, p)
                                                   \/ i.f = Ran(ids, k, "open", w, p)
    BY DEF Ends
  <2> QED
    BY <2>1, <2>2, <2>3
<1>0. PICK wall, peak : i.f = Ran(ids, k, done, wall, peak) /\ (done = "exited" => k = Len(ids))
  BY <1>1
<1> DEFINE cells == {ids[j] : j \in 1 .. k}
<1>2. i.f.ids = ids /\ i.f.cells = cells /\ i.f.done = done /\ DOMAIN i.f.seconds = cells
  BY <1>0 DEF Ran
<1>3. cells \subseteq Range(ids) /\ (k = Len(ids) => cells = Range(ids))
  BY DEF Range
<1> HIDE DEF cells
<1> QED
  BY <1>0, <1>2, <1>3 DEF Told

\* A fold leaves what did not run as it was, and what runs again is of the same ids.
LEMMA FoldStands ==
  ASSUME DemandAssumption, RunsInv, NEW r \in Seeded, FoldRound(r)
  PROVE  RunsInv'
<1> DEFINE s == run[r]
           X == DOMAIN FileOf
<1>0. DOMAIN run = Seeded /\ RunStands(r) /\ s.pc = "planned" /\ UNCHANGED <<table, stale>>
  BY DEF RunsInv, FoldRound, RunAt
<1>. PICK ended \in Outcomes(s.todo, Limits(r)) :
       \E c : run' = [run EXCEPT ![r] = FoldedRun(@, ended, FoldItems(Folding(s.measured), ended, Safety), c)]
  BY DEF FoldRound
<1>1. PICK cells : run' = [run EXCEPT ![r] = FoldedRun(@, ended, FoldItems(Folding(s.measured), ended, Safety), cells)]
  OBVIOUS
<1>2. /\ s.todo \in Seq(Seq(X)) /\ DOMAIN s.todo = 1 .. Len(s.todo) /\ Len(s.todo) \in Nat
      /\ \A k \in DOMAIN s.todo : s.todo[k] \in Seq(X)
  <2>1. s.todo \in Seq(Seq(X))
    BY <1>0 DEF RunStands
  <2> QED
    BY <2>1
<1> DEFINE n == Len(s.todo)
<1>3. DOMAIN ended = 1 .. n /\ Len(ended) = n /\ \A k \in 1 .. n : ended[k] \in Ends(s.todo[k], Limits(r)[k])
  <2> DEFINE All == UNION {Ends(s.todo[k], Limits(r)[k]) : k \in DOMAIN s.todo}
  <2>1. ended \in [1 .. n -> All] /\ \A k \in DOMAIN ended : ended[k] \in Ends(s.todo[k], Limits(r)[k])
    BY <1>2 DEF Outcomes
  <2> HIDE DEF All, s
  <2>2. DOMAIN ended = 1 .. n /\ Len(ended) = n
    BY <1>2, <2>1, AsSequence
  <2> QED
    BY <2>1, <2>2
<1>4. \A k \in 1 .. n : Told(ended[k]) /\ ended[k].f.ids = s.todo[k]
  BY <1>2, <1>3, EndsTold
<1> DEFINE m == FoldItems(Folding(s.measured), ended, Safety)
           t == FoldedRun(s, ended, m, cells)
<1>5. run'[r] = t /\ \A q \in Seeded \ {r} : run'[q] = run[q]
  BY <1>0, <1>1
<1>6. DOMAIN run' = Seeded
  BY <1>0, <1>1
<1>7. HasFacts(Folding(s.measured)) /\ \A k \in Facts : Folding(s.measured)[k] = s.measured[k]
  BY DEF HasFacts, Folding, Facts
<1>8. SameBut(Folding(s.measured), m, UNION {Touched(ended[k]) : k \in 1 .. n})
  <2>1. n \in Nat /\ n = Len(ended) /\ \A k \in 1 .. n : Told(ended[k])
    BY <1>2, <1>3, <1>4
  <2>2. HasFacts(Folding(s.measured))
    BY <1>7
  <2> HIDE DEF n, s
  <2> QED
    BY <2>1, <2>2, FoldItemsSame
<1> HIDE DEF m
<1>9. /\ DOMAIN t = RunFields /\ t.pc = "learn" /\ t.before = s.measured /\ t.measured = Record(m)
      /\ t.ran = UNION {IF ended[k].state = "TIMEOUT" THEN Range(s.todo[k]) ELSE ended[k].f.cells \cup CutId(ended[k].f) :
                          k \in DOMAIN ended}
      /\ t.todo = FlattenSeq([k \in DOMAIN ended |-> Halved(Unfinished(s.todo[k], cells))])
  BY <1>0 DEF FoldedRun, RunStands, RunFields
<1>10. t.ran = UNION {Touched(ended[k]) : k \in 1 .. n}
  <2>1. \A k \in 1 .. n : (IF ended[k].state = "TIMEOUT" THEN Range(s.todo[k]) ELSE ended[k].f.cells \cup CutId(ended[k].f))
                            = Touched(ended[k])
    BY <1>4 DEF Touched
  <2>2. DOMAIN ended = 1 .. n
    BY <1>3
  <2>3. t.ran = UNION {IF ended[k].state = "TIMEOUT" THEN Range(s.todo[k]) ELSE ended[k].f.cells \cup CutId(ended[k].f) : k \in 1 .. n}
    BY <1>9, <2>2
  <2> HIDE DEF t, s, n
  <2> QED
    BY <2>1, <2>3
<1>11. SameBut(t.before, t.measured, t.ran)
  <2>1. \A k \in Facts : t.measured[k] = m[k]
    BY <1>9 DEF Record
  <2> QED
    BY <1>7, <1>8, <1>9, <1>10, <2>1 DEF SameBut, Facts, IdFacts, FileFacts
<1>12. t.todo \in Seq(Seq(X))
  <2> DEFINE parts == [k \in 1 .. n |-> Halved(Unfinished(s.todo[k], cells))]
  <2>1. \A k \in 1 .. n : Halved(Unfinished(s.todo[k], cells)) \in Seq(Seq(X))
    BY <1>2, UnfinishedKeeps, HalvedKeeps
  <2>2. parts \in Seq(Seq(Seq(X)))
    BY <1>2, <2>1, AsSequence
  <2>3. t.todo = FlattenSeq(parts)
    BY <1>3, <1>9
  <2> HIDE DEF parts
  <2> QED
    BY <2>2, <2>3, FlattenKeeps
<1>13. RunStands(r)'
  BY <1>5, <1>9, <1>11, <1>12 DEF RunStands, RunPlaces, Writes
<1>14. ASSUME NEW q \in Seeded \ {r} PROVE RunStands(q)'
  BY <1>0, <1>5, <1>14 DEF RunsInv, RunStands, Writes
<1> QED
  BY <1>6, <1>13, <1>14 DEF RunsInv
LEMMA RunsStep ==
  ASSUME DemandAssumption, RunsInv, [TableNext]_tableVars
  PROVE  RunsInv'
<1>1. CASE UNCHANGED tableVars
  BY <1>1 DEF tableVars, RunsInv, RunStands, Writes
<1>2. ASSUME NEW r \in Seeded, Submit(r) PROVE RunsInv'
  <2>1. DOMAIN run = Seeded /\ RunStands(r) /\ Items[r] \in Seq(Seq(DOMAIN FileOf))
    BY DEF RunsInv, DemandAssumption
  <2>2. /\ DOMAIN run' = Seeded /\ \A q \in Seeded \ {r} : run'[q] = run[q]
        /\ DOMAIN run'[r] = RunFields /\ run'[r].pc = "planned" /\ run'[r].todo = Items[r]
    BY <1>2, <2>1 DEF Submit, RunStands, RunFields
  <2>3. UNCHANGED <<table, stale>>
    BY <1>2 DEF Submit
  <2> QED
    BY <2>1, <2>2, <2>3 DEF RunsInv, RunStands, RunPlaces, Writes
<1>3. ASSUME NEW r \in Seeded, Refuse(r) PROVE RunsInv'
  <2>1. DOMAIN run = Seeded /\ RunStands(r)
    BY DEF RunsInv
  <2>2. /\ DOMAIN run' = Seeded /\ \A q \in Seeded \ {r} : run'[q] = run[q]
        /\ DOMAIN run'[r] = RunFields /\ run'[r].pc = "ask" /\ run'[r].todo = run[r].todo
    BY <1>3, <2>1 DEF Refuse, RunStands, RunFields
  <2>3. UNCHANGED <<table, stale>>
    BY <1>3 DEF Refuse
  <2> QED
    BY <2>1, <2>2, <2>3 DEF RunsInv, RunStands, RunPlaces, Writes
<1>4. ASSUME NEW r \in Seeded, FoldRound(r) PROVE RunsInv'
  BY <1>4, FoldStands
<1>5. ASSUME NEW r \in Seeded, Read(r) PROVE RunsInv'
  <2>1. DOMAIN run = Seeded /\ RunStands(r)
    BY DEF RunsInv
  <2>2. run[r].pc \in {"ask", "learn", "end"} /\ run' = [run EXCEPT ![r].seen = table, ![r].pc = Writing[@]]
        /\ table' = table /\ stale' = stale \ {r}
    BY <1>5 DEF Read
  <2>3. /\ DOMAIN run' = Seeded /\ \A q \in Seeded \ {r} : run'[q] = run[q]
        /\ DOMAIN run'[r] = RunFields /\ run'[r].pc = Writing[run[r].pc] /\ run'[r].seen = table
        /\ \A x \in {"todo", "before", "measured", "ran"} : run'[r][x] = run[r][x]
    BY <2>1, <2>2 DEF RunStands, RunFields
  <2>4. run'[r].pc \in {"write_ask", "write_learn", "write_end"} /\ (run'[r].pc = "write_learn" => run[r].pc = "learn")
    BY <2>2, <2>3 DEF Writing
  <2>5. RunStands(r)'
    BY <2>1, <2>2, <2>3, <2>4 DEF RunStands, RunPlaces, Writes
  <2>6. ASSUME NEW q \in Seeded \ {r} PROVE RunStands(q)'
    BY <2>2, <2>3, <2>6 DEF RunsInv, RunStands, Writes
  <2> QED
    BY <2>3, <2>5, <2>6 DEF RunsInv
<1>6. ASSUME NEW r \in Seeded, WriteTable(r) PROVE RunsInv'
  <2>1. DOMAIN run = Seeded /\ RunStands(r)
    BY DEF RunsInv
  <2> DEFINE s == run[r]
             t == [s EXCEPT !.seen = NewRun.seen, !.before = NewTable, !.ran = {},
                     !.pc = IF s.pc = "write_learn" /\ (s.todo = <<>> \/ s.rounds = RoundsOf[r]) THEN "end" ELSE "planned"]
             over == [NewRun EXCEPT !.pc = "over"]
  <2>2. /\ run' = [run EXCEPT ![r] = IF s.pc = "write_end" THEN over ELSE t]
        /\ stale' = stale \cup {q \in Seeded \ {r} : Writes(q)}
    BY <1>6 DEF WriteTable
  <2>3. DOMAIN t = RunFields /\ t.pc \in {"end", "planned"} /\ t.todo = s.todo
    BY <2>1 DEF RunStands, RunFields
  <2>4. DOMAIN over = RunFields /\ over.pc = "over" /\ over.todo = <<>>
    BY NewRunStands DEF RunFields
  <2> HIDE DEF t, over
  <2>5. /\ DOMAIN run' = Seeded /\ run'[r] \in {t, over}
        /\ \A q \in Seeded \ {r} : run'[q] = run[q]
    BY <2>1, <2>2
  <2>6. <<>> \in Seq(Seq(DOMAIN FileOf))
    OBVIOUS
  <2>7. RunStands(r)'
    BY <2>1, <2>3, <2>4, <2>5, <2>6 DEF RunStands, RunPlaces, Writes
  <2>8. ASSUME NEW q \in Seeded \ {r} PROVE RunStands(q)'
    BY <2>2, <2>5, <2>8 DEF RunsInv, RunStands, Writes
  <2> QED
    BY <2>5, <2>7, <2>8 DEF RunsInv
<1> QED
  BY <1>1, <1>2, <1>3, <1>4, <1>5, <1>6 DEF TableNext

\* What the file holds of what did not run is what the writer has read.
LEMMA LearnRoundLeaves ==
  ASSUME NEW seen, NEW before, NEW after, NEW k \in Facts, NEW x, SameAt(before[k], after[k], x)
  PROVE  Fact(LearnRound(seen, before, after)[k], x) = Fact(seen[k], x)
<1> DEFINE kept == {y \in DOMAIN seen[k] : y \in DOMAIN after[k] \/ y \notin DOMAIN before[k]}
           changed == {y \in DOMAIN after[k] : y \notin DOMAIN before[k] \/ after[k][y] # before[k][y]}
           a == Restrict(seen[k], kept)
           b == Restrict(after[k], changed)
<1>1. LearnRound(seen, before, after)[k] = Put(a, b)
  BY DEF LearnRound, Facts
<1>2. x \notin changed /\ (x \in DOMAIN seen[k] <=> x \in kept)
  BY DEF SameAt
<1>3. DOMAIN a = kept /\ DOMAIN b = changed /\ (x \in kept => a[x] = seen[k][x])
  BY DEF Restrict
<1> HIDE DEF a, b, kept, changed
<1>4. (x \in DOMAIN Put(a, b) <=> x \in kept) /\ (x \in kept => Put(a, b)[x] = a[x])
  BY <1>2, <1>3 DEF Put
<1> QED
  BY <1>1, <1>2, <1>3, <1>4 DEF Fact

\* learned.py:190-194: a round changes of the table what it ran, whatever the other runs of the
\* repository have written before, so that what an earlier kill taught of the rest stands; when
\* no write fell between its reading and its own.
THEOREM RoundsWriteTheirOwn == ASSUME DemandAssumption PROVE TableSpec => RoundsWriteWhatRan
<1>1. ASSUME RunsInv, [TableNext]_tableVars
      PROVE  [RoundWritesWhatRan]_tableVars
  <2> SUFFICES ASSUME NEW r \in Seeded, run[r].pc = "write_learn", run'[r].pc # run[r].pc, r \notin stale
               PROVE  /\ \A k \in IdFacts : \A n \in DOMAIN FileOf \ run[r].ran : Fact(table'[k], n) = Fact(table[k], n)
                      /\ \A k \in FileFacts : \A x \in DOMAIN FolderOf \ {FileOf[n] : n \in run[r].ran} :
                           Fact(table'[k], x) = Fact(table[k], x)
    BY DEF RoundWritesWhatRan, IdFacts, FileFacts
  <2>1. DOMAIN run = Seeded /\ RunStands(r)
    BY <1>1 DEF RunsInv
  <2>2. ASSUME NEW q \in Seeded, Submit(q) \/ Refuse(q) \/ FoldRound(q) \/ Read(q) \/ (WriteTable(q) /\ q # r)
        PROVE  FALSE
    <3>1. q # r
      BY <2>2 DEF Submit, Refuse, FoldRound, Read, RunAt
    <3>2. \E t : run' = [run EXCEPT ![q] = t]
      BY <2>2 DEF Submit, Refuse, FoldRound, Read, WriteTable
    <3> QED
      BY <2>1, <3>1, <3>2
  <2>3. WriteTable(r)
    <3>1. ~UNCHANGED tableVars
      BY DEF tableVars
    <3>2. TableNext
      BY <1>1, <3>1
    <3>3. PICK q \in Seeded : Submit(q) \/ Refuse(q) \/ FoldRound(q) \/ Read(q) \/ WriteTable(q)
      BY <3>2 DEF TableNext
    <3>4. CASE WriteTable(q) /\ q = r
      BY <3>4
    <3>5. CASE ~(WriteTable(q) /\ q = r)
      <4>1. Submit(q) \/ Refuse(q) \/ FoldRound(q) \/ Read(q) \/ (WriteTable(q) /\ q # r)
        BY <3>3, <3>5
      <4> QED
        BY <4>1, <2>2
    <3> QED
      BY <3>4, <3>5
  <2>4. table' = LearnRound(run[r].seen, run[r].before, run[r].measured)
    BY <2>3 DEF WriteTable
  <2>5. run[r].seen = table /\ SameBut(run[r].before, run[r].measured, run[r].ran)
    BY <2>1 DEF RunStands, Writes
  <2>6. ASSUME NEW k \in IdFacts, NEW n \in DOMAIN FileOf \ run[r].ran
        PROVE  Fact(table'[k], n) = Fact(table[k], n)
    <3>1. SameAt(run[r].before[k], run[r].measured[k], n) /\ k \in Facts
      BY <2>5 DEF SameBut, IdFacts, Facts
    <3> QED
      BY <2>4, <2>5, <3>1, LearnRoundLeaves
  <2>7. ASSUME NEW k \in FileFacts, NEW x \in DOMAIN FolderOf \ {FileOf[n] : n \in run[r].ran}
        PROVE  Fact(table'[k], x) = Fact(table[k], x)
    <3>1. SameAt(run[r].before[k], run[r].measured[k], x) /\ k \in Facts
      BY <2>5 DEF SameBut, FileFacts, Facts
    <3> QED
      BY <2>4, <2>5, <3>1, LearnRoundLeaves
  <2> QED
    BY <2>6, <2>7
<1>2. TableInit => RunsInv
  BY TableInitStands
<1>3. RunsInv /\ [TableNext]_tableVars => RunsInv'
  BY RunsStep
<1>4. RunsInv /\ [TableNext]_tableVars => [RoundWritesWhatRan]_tableVars
  BY <1>1
<1> QED
  BY <1>2, <1>3, <1>4, PTL DEF TableSpec, RoundsWriteWhatRan

=============================================================================
