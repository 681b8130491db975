---------------------------- MODULE JoinWork_proofs ----------------------------
(***************************************************************************)
(* Every work that the code handles makes the table it is to make, for all    *)
(* tables, snippets, filters and sizes of a batch: first lemmas about finite  *)
(* sequences (sorted, filtered, flattened), then what one batch adds for each *)
(* type of work, then the steps.                                              *)
(*                                                                           *)
(* Recursive functions are unfolded by induction over a set of numbers: a set *)
(* that has 0 and with n also n + 1 has every number (Inductive).             *)
(***************************************************************************)
EXTENDS JoinWork, TLAPS, SequenceTheorems, FiniteSetTheorems, FunctionTheorems,
        WellFoundedInduction

------------------------------------------------------------------------------
(* Induction and recursion.                                                    *)

\* Induction over numbers, for a set of them.
LEMMA Inductive ==
  ASSUME NEW S, 0 \in S, \A n \in Nat : n \in S => n + 1 \in S
  PROVE  \A n \in Nat : n \in S
<1> SUFFICES ASSUME NEW m \in Nat, m \notin S PROVE FALSE
  OBVIOUS
<1> DEFINE T == Nat \ S
<1>1. IsWellFoundedOn(OpToRel(<, Nat), Nat)
  BY NatLessThanWellFounded
<1>2. PICK x \in T : \A y \in T : ~ (<<y, x>> \in OpToRel(<, Nat))
  <2>1. T \subseteq Nat /\ T # {}
    OBVIOUS
  <2> HIDE DEF T
  <2>2. QED
    BY <1>1, <2>1, WFMin
<1>3. x - 1 \in Nat /\ x - 1 \in T
  OBVIOUS
<1>4. <<x - 1, x>> \in OpToRel(<, Nat)
  BY <1>3 DEF OpToRel
<1>5. QED
  BY <1>2, <1>3, <1>4

\* A step of a recursion: from what is made so far and the round to what is made next.
StepOf(A, n) == [A \X (1..n) -> A]

\* What such steps make of `a', round by round.
HasRun(A, a, n, h) ==
  \E g \in [0..n -> A] : g[0] = a /\ \A i \in 1..n : g[i] = h[<<g[i - 1], i>>]

\* A step that is a function gives a function by recursion: from `a', in n steps.
LEMMA Recursion ==
  ASSUME NEW A, NEW a \in A, NEW n \in Nat, NEW h \in StepOf(A, n)
  PROVE  HasRun(A, a, n, h)
<1> DEFINE Up(m) == \E g \in [0..m -> A] : g[0] = a /\ \A i \in 1..m : g[i] = h[<<g[i - 1], i>>]
           S == {m \in Nat : m <= n => Up(m)}
<1>1. 0 \in S
  <2> DEFINE g == [i \in 0..0 |-> a]
  <2>1. g \in [0..0 -> A] /\ g[0] = a
    OBVIOUS
  <2> HIDE DEF g
  <2>2. Up(0)
    BY <2>1
  <2> HIDE DEF Up
  <2>3. QED
    BY <2>2
<1>2. ASSUME NEW m \in Nat, m \in S PROVE m + 1 \in S
  <2> SUFFICES ASSUME m + 1 <= n PROVE Up(m + 1)
    OBVIOUS
  <2>1. PICK g \in [0..m -> A] : g[0] = a /\ \A i \in 1..m : g[i] = h[<<g[i - 1], i>>]
    BY <1>2
  <2> DEFINE f == [i \in 0..(m + 1) |-> IF i = m + 1 THEN h[<<g[m], m + 1>>] ELSE g[i]]
  <2>2. <<g[m], m + 1>> \in A \X (1..n)
    OBVIOUS
  <2>3. h[<<g[m], m + 1>>] \in A
    BY <2>2 DEF StepOf
  <2>4. f \in [0..(m + 1) -> A]
    BY <2>3
  <2>5. f[0] = a
    BY <2>1
  <2>6. ASSUME NEW i \in 1..(m + 1) PROVE f[i] = h[<<f[i - 1], i>>]
    <3>1. CASE i = m + 1
      <4>1. f[i] = h[<<g[m], m + 1>>] /\ i - 1 = m /\ f[m] = g[m]
        BY <3>1
      <4> HIDE DEF f
      <4>2. QED
        BY <3>1, <4>1
    <3>2. CASE i # m + 1
      BY <2>1, <3>2
    <3>3. QED
      BY <3>1, <3>2
  <2>7. QED
    BY <2>4, <2>5, <2>6
<1> HIDE DEF S
<1>3. n \in S
  BY <1>1, <1>2, Inductive
<1>4. QED
  BY <1>3 DEF S, HasRun

------------------------------------------------------------------------------
\* R puts the members of U in a line.
Lines(R, U) ==
  /\ \A x, y \in U : x # y => <<x, y>> \in R \/ <<y, x>> \in R
  /\ \A x, y, z \in U : <<x, y>> \in R /\ <<y, z>> \in R => <<x, z>> \in R

\* Then a finite part of it has a last member,
LEMMA LastInLine ==
  ASSUME NEW U, NEW R, Lines(R, U)
  PROVE  \A n \in Nat : \A T \in SUBSET U : IsFiniteSet(T) /\ Cardinality(T) = n + 1
           => \E x \in T : \A y \in T \ {x} : <<y, x>> \in R
<1> DEFINE Has(n) == \A T \in SUBSET U : IsFiniteSet(T) /\ Cardinality(T) = n + 1
                       => \E x \in T : \A y \in T \ {x} : <<y, x>> \in R
           S == {n \in Nat : Has(n)}
<1>1. Has(0)
  BY FS_Singleton
<1>2. ASSUME NEW n \in Nat, Has(n) PROVE Has(n + 1)
  <2> SUFFICES ASSUME NEW T \in SUBSET U, IsFiniteSet(T), Cardinality(T) = n + 2
               PROVE  \E x \in T : \A y \in T \ {x} : <<y, x>> \in R
    OBVIOUS
  <2>1. PICK x : x \in T
    BY FS_EmptySet
  <2>2. IsFiniteSet(T \ {x}) /\ Cardinality(T \ {x}) = n + 1
    BY <2>1, FS_RemoveElement
  <2>3. PICK m \in T \ {x} : \A y \in (T \ {x}) \ {m} : <<y, m>> \in R
    BY <1>2, <2>2
  <2>4. CASE <<x, m>> \in R
    BY <2>3, <2>4
  <2>5. CASE <<m, x>> \in R
    <3>1. \A y \in T \ {x} : <<y, x>> \in R
      BY <2>1, <2>3, <2>5 DEF Lines
    <3>2. QED
      BY <2>1, <3>1
  <2>6. QED
    BY <2>1, <2>3, <2>4, <2>5 DEF Lines
<1> HIDE DEF Has
<1>3. \A n \in Nat : n \in S
  <2>1. 0 \in S /\ \A n \in Nat : n \in S => n + 1 \in S
    BY <1>1, <1>2
  <2> HIDE DEF S
  <2>2. QED
    BY <2>1, Inductive
<1>4. QED
  BY <1>3 DEF Has

\* and can be put in order.
LEMMA PutInLine ==
  ASSUME NEW U, NEW R, Lines(R, U)
  PROVE  \A n \in Nat : \A T \in SUBSET U : IsFiniteSet(T) /\ Cardinality(T) = n
           => \E s \in [1..n -> T] : \A i, j \in 1..n : i < j => <<s[i], s[j]>> \in R
<1> DEFINE Can(n) == \A T \in SUBSET U : IsFiniteSet(T) /\ Cardinality(T) = n
             => \E s \in [1..n -> T] : \A i, j \in 1..n : i < j => <<s[i], s[j]>> \in R
           S == {n \in Nat : Can(n)}
<1>1. Can(0)
  <2> SUFFICES ASSUME NEW T \in SUBSET U PROVE \E s \in [1..0 -> T] :
                        \A i, j \in 1..0 : i < j => <<s[i], s[j]>> \in R
    OBVIOUS
  <2>1. 1..0 = {}
    OBVIOUS
  <2>2. PICK s : s \in [1..0 -> T]
    <3>1. [i \in 1..0 |-> i] \in [1..0 -> T]
      BY <2>1
    <3>2. QED
      BY <3>1
  <2>3. QED
    BY <2>1, <2>2
<1>2. ASSUME NEW n \in Nat, Can(n) PROVE Can(n + 1)
  <2> SUFFICES ASSUME NEW T \in SUBSET U, IsFiniteSet(T), Cardinality(T) = n + 1
               PROVE  \E s \in [1..(n + 1) -> T] : \A i, j \in 1..(n + 1) : i < j => <<s[i], s[j]>> \in R
    OBVIOUS
  <2> DEFINE HasLast(m) == \A Z \in SUBSET U : IsFiniteSet(Z) /\ Cardinality(Z) = m + 1
                            => \E x \in Z : \A y \in Z \ {x} : <<y, x>> \in R
  <2>0. HasLast(n)
    <3>1. \A m \in Nat : HasLast(m)
      BY LastInLine
    <3> HIDE DEF HasLast
    <3>2. QED
      BY <3>1
  <2>1. PICK x \in T : \A y \in T \ {x} : <<y, x>> \in R
    BY <2>0
  <2>2. IsFiniteSet(T \ {x}) /\ Cardinality(T \ {x}) = n
    BY <2>1, FS_RemoveElement
  <2>3. PICK s \in [1..n -> T \ {x}] : \A i, j \in 1..n : i < j => <<s[i], s[j]>> \in R
    BY <1>2, <2>2
  <2> DEFINE t == [i \in 1..(n + 1) |-> IF i = n + 1 THEN x ELSE s[i]]
  <2>4. t \in [1..(n + 1) -> T]
    OBVIOUS
  <2>5. ASSUME NEW i \in 1..(n + 1), NEW j \in 1..(n + 1), i < j PROVE <<t[i], t[j]>> \in R
    <3>1. t[i] = s[i] /\ i \in 1..n /\ s[i] \in T \ {x}
      BY <2>5
    <3>2. CASE j = n + 1
      <4>1. t[j] = x
        BY <3>2
      <4>2. QED
        BY <2>1, <3>1, <4>1
    <3>3. CASE j # n + 1
      <4>1. t[j] = s[j] /\ j \in 1..n
        BY <3>3
      <4>2. QED
        BY <2>3, <2>5, <3>1, <4>1
    <3>4. QED
      BY <3>2, <3>3
  <2> HIDE DEF t
  <2>6. QED
    BY <2>4, <2>5
<1> HIDE DEF Can
<1>3. \A n \in Nat : n \in S
  <2>1. 0 \in S /\ \A n \in Nat : n \in S => n + 1 \in S
    BY <1>1, <1>2
  <2> HIDE DEF S
  <2>2. QED
    BY <2>1, Inductive
<1>4. QED
  BY <1>3 DEF Can

\* A set's numbers from the least on,
LEMMA AscendingOrder ==
  ASSUME NEW S \in SUBSET Int, IsFiniteSet(S)
  PROVE  /\ Ascending(S) \in [1..Cardinality(S) -> S]
         /\ \A i, j \in 1..Cardinality(S) : i < j => Ascending(S)[i] < Ascending(S)[j]
<1> DEFINE n == Cardinality(S)
           R == {p \in Int \X Int : p[1] < p[2]}
           Up(s) == \A i, j \in 1..n : i < j => s[i] < s[j]
<1>1. n \in Nat
  BY FS_CardinalityType
<1>2. Lines(R, Int)
  BY DEF Lines
<1>3. \E s \in [1..n -> S] : Up(s)
  <2> DEFINE Can(m) == \A T \in SUBSET Int : IsFiniteSet(T) /\ Cardinality(T) = m
               => \E s \in [1..m -> T] : \A i, j \in 1..m : i < j => <<s[i], s[j]>> \in R
  <2>0. \A m \in Nat : Can(m)
    <3> HIDE DEF R
    <3>1. QED
      BY <1>2, PutInLine
  <2>1. PICK s \in [1..n -> S] : \A i, j \in 1..n : i < j => <<s[i], s[j]>> \in R
    <3>1. Can(n)
      <4> HIDE DEF Can
      <4>1. QED
        BY <2>0, <1>1
    <3> HIDE DEF R
    <3>2. QED
      BY <3>1
  <2>2. QED
    BY <2>1
<1>4. Ascending(S) \in [1..n -> S] /\ Up(Ascending(S))
  BY <1>3 DEF Ascending
<1>5. QED
  BY <1>4

\* each once.
LEMMA AscendingIs ==
  ASSUME NEW S \in SUBSET Int, IsFiniteSet(S)
  PROVE  /\ Ascending(S) \in Seq(S)
         /\ Len(Ascending(S)) = Cardinality(S)
         /\ IsInjective(Ascending(S))
         /\ Range(Ascending(S)) = S
<1> DEFINE n == Cardinality(S)
           s == Ascending(S)
<1>1. n \in Nat
  BY FS_CardinalityType
<1>4. s \in [1..n -> S] /\ \A i, j \in 1..n : i < j => s[i] < s[j]
  BY AscendingOrder
<1>5. \A i, j \in 1..n : s[i] = s[j] => i = j
  <2>1. \A i \in 1..n : s[i] \in Int
    BY <1>4
  <2>2. QED
    BY <1>1, <1>4, <2>1
<1>6. s \in Injection(1..n, S)
  <2> HIDE DEF s, n
  <2>1. QED
    BY <1>4, <1>5, Fun_IsInj DEF s
<1>7. s \in Surjection(1..n, S)
  <2>1. Cardinality(1..n) = n
    BY <1>1, FS_Interval
  <2>2. QED
    BY <1>6, <2>1, FS_Injection
<1>8. Range(s) = S
  BY <1>7, Fun_SurjectionProperties
<1>9. s \in Seq(S) /\ Len(s) = n /\ DOMAIN s = 1..n
  BY <1>1, <1>4, SeqDef
<1>10. QED
  BY <1>5, <1>8, <1>9 DEF IsInjective

\* Range and injectivity of a sequence with one more member, and of two in a row.
LEMMA OneMore ==
  ASSUME NEW X, NEW s \in Seq(X), NEW x \in X
  PROVE  /\ Append(s, x) \in Seq(X)
         /\ Range(Append(s, x)) = Range(s) \cup {x}
         /\ IsInjective(s) /\ x \notin Range(s) => IsInjective(Append(s, x))
<1> DEFINE t == Append(s, x)
           n == Len(s)
<1>1. /\ t \in Seq(X) /\ n \in Nat /\ DOMAIN s = 1..n /\ DOMAIN t = 1..(n + 1)
      /\ t[n + 1] = x /\ \A i \in 1..n : t[i] = s[i]
  OBVIOUS
<1> HIDE DEF t, n
<1>2. Range(t) = Range(s) \cup {x}
  <2>1. ASSUME NEW y \in Range(t) PROVE y \in Range(s) \cup {x}
    BY <1>1 DEF Range
  <2>2. ASSUME NEW y \in Range(s) PROVE y \in Range(t)
    <3>1. PICK i \in 1..n : y = s[i]
      BY <1>1 DEF Range
    <3>2. i \in 1..(n + 1) /\ y = t[i]
      BY <1>1, <3>1
    <3>3. QED
      BY <1>1, <3>2 DEF Range
  <2>3. x \in Range(t)
    BY <1>1 DEF Range
  <2>4. QED
    BY <2>1, <2>2, <2>3
<1>3. ASSUME IsInjective(s), x \notin Range(s) PROVE IsInjective(t)
  <2> SUFFICES ASSUME NEW i \in 1..(n + 1), NEW j \in 1..(n + 1), t[i] = t[j] PROVE i = j
    BY <1>1 DEF IsInjective
  <2>1. \A k \in 1..n : t[k] # x
    BY <1>1, <1>3 DEF Range
  <2>2. CASE i = n + 1 \/ j = n + 1
    BY <1>1, <2>1, <2>2
  <2>3. CASE i \in 1..n /\ j \in 1..n
    BY <1>1, <1>3, <2>3 DEF IsInjective
  <2>4. QED
    BY <1>1, <2>2, <2>3
<1>4. QED
  BY <1>1, <1>2, <1>3 DEF t

\* Two sequences in a row have the members of both, once if neither has one of the
\* other.
LEMMA TwoInARow ==
  ASSUME NEW X, NEW s \in Seq(X), NEW t \in Seq(X)
  PROVE  /\ s \o t \in Seq(X)
         /\ Len(s \o t) = Len(s) + Len(t)
         /\ Range(s \o t) = Range(s) \cup Range(t)
         /\ IsInjective(s) /\ IsInjective(t) /\ Range(s) \cap Range(t) = {} => IsInjective(s \o t)
<1> DEFINE u == s \o t
           m == Len(s)
           n == Len(t)
<1>1. /\ u \in Seq(X) /\ m \in Nat /\ n \in Nat
      /\ DOMAIN s = 1..m /\ DOMAIN t = 1..n /\ DOMAIN u = 1..(m + n) /\ Len(u) = m + n
      /\ \A i \in 1..m : u[i] = s[i]
      /\ \A i \in 1..n : u[m + i] = t[i]
  OBVIOUS
<1> HIDE DEF u, m, n
<1>2. \A i \in 1..(m + n) : i \in 1..m \/ (i - m \in 1..n /\ u[i] = t[i - m])
  BY <1>1
<1>3. Range(u) = Range(s) \cup Range(t)
  <2>1. ASSUME NEW y \in Range(u) PROVE y \in Range(s) \cup Range(t)
    BY <1>1, <1>2 DEF Range
  <2>2. ASSUME NEW y \in Range(s) PROVE y \in Range(u)
    <3>1. PICK i \in 1..m : y = s[i]
      BY <1>1 DEF Range
    <3>2. i \in 1..(m + n) /\ y = u[i]
      BY <1>1, <3>1
    <3>3. QED
      BY <1>1, <3>2 DEF Range
  <2>3. ASSUME NEW y \in Range(t) PROVE y \in Range(u)
    <3>1. PICK i \in 1..n : y = t[i]
      BY <1>1 DEF Range
    <3>2. m + i \in 1..(m + n) /\ y = u[m + i]
      BY <1>1, <3>1
    <3>3. QED
      BY <1>1, <3>2 DEF Range
  <2>4. QED
    BY <2>1, <2>2, <2>3
<1>4. ASSUME IsInjective(s), IsInjective(t), Range(s) \cap Range(t) = {} PROVE IsInjective(u)
  <2> SUFFICES ASSUME NEW i \in 1..(m + n), NEW j \in 1..(m + n), u[i] = u[j] PROVE i = j
    BY <1>1 DEF IsInjective
  <2>1. \A a \in 1..m, b \in 1..n : s[a] # t[b]
    BY <1>1, <1>4 DEF Range
  <2>2. CASE i \in 1..m /\ j \in 1..m
    BY <1>1, <1>4, <2>2 DEF IsInjective
  <2>3. CASE i \in 1..m /\ j \notin 1..m
    BY <1>1, <1>2, <2>1, <2>3
  <2>4. CASE i \notin 1..m /\ j \in 1..m
    BY <1>1, <1>2, <2>1, <2>4
  <2>5. CASE i \notin 1..m /\ j \notin 1..m
    <3>1. i - m \in 1..n /\ j - m \in 1..n /\ t[i - m] = t[j - m]
      BY <1>2, <2>5
    <3>2. i - m = j - m
      BY <1>1, <1>4, <3>1 DEF IsInjective
    <3>3. QED
      BY <1>1, <3>2
  <2>6. QED
    BY <2>2, <2>3, <2>4, <2>5
<1>5. QED
  BY <1>1, <1>3, <1>4 DEF u, m, n

\* The loop of Kept, round by round.
LEMMA KeptByRounds ==
  ASSUME NEW X, NEW s \in Seq(X), NEW S
  PROVE  \E g \in [0..Len(s) -> Seq(X)] :
           /\ Kept(s, S) = g[Len(s)]
           /\ g[0] = <<>>
           /\ \A i \in 1..Len(s) : g[i] = IF s[i] \in S THEN Append(g[i - 1], s[i]) ELSE g[i - 1]
<1> DEFINE n == Len(s)
           A == Seq(X)
           none == <<>>
           h == [p \in A \X (1..n) |-> IF s[p[2]] \in S THEN Append(p[1], s[p[2]]) ELSE p[1]]
           Is(f) == f = [k \in 0..n |-> IF k = 0 THEN <<>>
                                        ELSE IF s[k] \in S THEN Append(f[k - 1], s[k]) ELSE f[k - 1]]
           K == CHOOSE f : Is(f)
<1>1. n \in Nat /\ none \in A /\ \A i \in 1..n : s[i] \in X
  OBVIOUS
<1>2. h \in StepOf(A, n)
  BY DEF StepOf
<1>3. \A p \in A, i \in 1..n : h[<<p, i>>] = IF s[i] \in S THEN Append(p, s[i]) ELSE p
  OBVIOUS
<1>4. HasRun(A, none, n, h)
  <2>1. n \in Nat
    BY <1>1
  <2>2. none \in A
    BY <1>1
  <2> HIDE DEF h, A, n, none
  <2>3. QED
    BY <1>2, <2>1, <2>2, Recursion
<1>5. PICK g \in [0..n -> A] : g[0] = none /\ \A i \in 1..n : g[i] = h[<<g[i - 1], i>>]
  <2> HIDE DEF h, A, n, none
  <2>1. QED
    BY <1>4 DEF HasRun
<1> HIDE DEF h
<1>6. \A i \in 1..n : g[i] = IF s[i] \in S THEN Append(g[i - 1], s[i]) ELSE g[i - 1]
  <2> HIDE DEF A, none
  <2>1. \A i \in 1..n : g[i - 1] \in A
    BY <1>1, <1>5
  <2>2. QED
    BY <1>3, <1>5, <2>1
<1>7. Is(g)
  <2>1. \A k \in 0..n : k # 0 => k \in 1..n
    BY <1>1
  <2>2. \A k \in 0..n : g[k] = IF k = 0 THEN <<>>
                               ELSE IF s[k] \in S THEN Append(g[k - 1], s[k]) ELSE g[k - 1]
    BY <1>5, <1>6, <2>1
  <2>3. QED
    BY <2>2
<1>8. Is(K)
  <2> HIDE DEF Is
  <2>1. QED
    BY <1>7
<1>9. Kept(s, S) = K[n]
  BY DEF Kept
<1> HIDE DEF K, n
<1>10. K = [k \in 0..n |-> IF k = 0 THEN <<>>
                           ELSE IF s[k] \in S THEN Append(K[k - 1], s[k]) ELSE K[k - 1]]
  BY <1>8
<1> HIDE DEF Is, A
<1>11. K[0] = none /\ \A i \in 1..n : K[i] = IF s[i] \in S THEN Append(K[i - 1], s[i]) ELSE K[i - 1]
  <2>1. \A i \in 1..n : i \in 0..n /\ i # 0
    BY <1>1
  <2>2. 0 \in 0..n
    BY <1>1
  <2>3. QED
    BY <1>10, <2>1, <2>2
<1> DEFINE T == {k \in Nat : k <= n => K[k] \in A}
<1>12. 0 \in T
  BY <1>1, <1>11
<1>13. ASSUME NEW k \in Nat, k \in T PROVE k + 1 \in T
  <2> SUFFICES ASSUME k + 1 <= n PROVE K[k + 1] \in A
    OBVIOUS
  <2>1. k + 1 \in 1..n /\ (k + 1) - 1 = k /\ K[k] \in A
    BY <1>1, <1>13
  <2>2. s[k + 1] \in X
    BY <1>1, <2>1
  <2>3. K[k + 1] = IF s[k + 1] \in S THEN Append(K[k], s[k + 1]) ELSE K[k]
    BY <1>11, <2>1
  <2>4. QED
    BY <2>1, <2>2, <2>3 DEF A
<1> HIDE DEF T
<1>14. \A k \in Nat : k \in T
  BY <1>12, <1>13, Inductive
<1>15. \A k \in 0..n : K[k] \in A
  BY <1>1, <1>14 DEF T
<1>16. K \in [0..n -> A]
  <2>1. DOMAIN K = 0..n /\ K = [k \in 0..n |-> K[k]]
    BY <1>10
  <2>2. QED
    BY <1>15, <2>1
<1>17. QED
  BY <1>9, <1>11, <1>16 DEF n, A

\* What is kept: in the order of the sequence, what the set has.
LEMMA KeptIs ==
  ASSUME NEW X, NEW s \in Seq(X), NEW S
  PROVE  /\ Kept(s, S) \in Seq(X)
         /\ Range(Kept(s, S)) = Range(s) \cap S
         /\ IsInjective(s) => IsInjective(Kept(s, S))
         /\ Range(s) \subseteq S => Kept(s, S) = s
<1> DEFINE n == Len(s)
<1>0. n \in Nat /\ DOMAIN s = 1..n /\ \A i \in 1..n : s[i] \in X
  OBVIOUS
<1>1. PICK g \in [0..n -> Seq(X)] :
           /\ Kept(s, S) = g[n]
           /\ g[0] = <<>>
           /\ \A i \in 1..n : g[i] = IF s[i] \in S THEN Append(g[i - 1], s[i]) ELSE g[i - 1]
  BY KeptByRounds
<1> HIDE DEF n
<1> DEFINE First(k) == {s[i] : i \in 1..k}
           Good(k) == /\ Range(g[k]) = First(k) \cap S
                      /\ IsInjective(s) => IsInjective(g[k])
                      /\ Range(s) \subseteq S => Len(g[k]) = k /\ \A i \in 1..k : g[k][i] = s[i]
           T == {k \in Nat : k <= n => Good(k)}
<1>2. 0 \in T
  <2>1. 1..0 = {} /\ DOMAIN g[0] = {}
    BY <1>1
  <2>2. Good(0)
    BY <1>1, <2>1 DEF Range, IsInjective
  <2>3. QED
    BY <2>2
<1>3. ASSUME NEW k \in Nat, k \in T PROVE k + 1 \in T
  <2> SUFFICES ASSUME k + 1 <= n PROVE Good(k + 1)
    OBVIOUS
  <2>1. /\ k + 1 \in 1..n /\ k \in 0..n /\ (k + 1) - 1 = k /\ g[k] \in Seq(X) /\ s[k + 1] \in X
    BY <1>0
  <2>2. g[k + 1] = IF s[k + 1] \in S THEN Append(g[k], s[k + 1]) ELSE g[k]
    BY <1>1, <2>1
  <2>3. Good(k)
    <3> HIDE DEF Good
    <3>1. k <= n
      BY <1>0
    <3>2. QED
      BY <1>3, <3>1
  <2>4. First(k + 1) = First(k) \cup {s[k + 1]}
    <3>1. \A i \in 1..(k + 1) : i \in 1..k \/ i = k + 1
      OBVIOUS
    <3>2. 1..k \subseteq 1..(k + 1) /\ k + 1 \in 1..(k + 1)
      OBVIOUS
    <3>3. QED
      BY <3>1, <3>2
  <2>5. CASE s[k + 1] \in S
    <3>1. g[k + 1] = Append(g[k], s[k + 1])
      BY <2>2, <2>5
    <3>2. Range(g[k + 1]) = First(k + 1) \cap S
      <4> HIDE DEF First
      <4>1. Range(g[k + 1]) = Range(g[k]) \cup {s[k + 1]}
        BY <2>1, <3>1, OneMore
      <4>2. QED
        BY <2>3, <2>4, <2>5, <4>1
    <3>3. ASSUME IsInjective(s) PROVE IsInjective(g[k + 1])
      <4>1. s[k + 1] \notin First(k)
        <5>1. ASSUME NEW i \in 1..k PROVE s[i] # s[k + 1]
          <6>1. i \in 1..n /\ i # k + 1
            BY <1>0, <2>1
          <6>2. QED
            BY <1>0, <2>1, <3>3, <6>1 DEF IsInjective
        <5>2. QED
          BY <5>1
      <4>2. s[k + 1] \notin Range(g[k]) /\ IsInjective(g[k])
        BY <2>3, <3>3, <4>1
      <4>3. QED
        BY <2>1, <3>1, <4>2, OneMore
    <3>4. ASSUME Range(s) \subseteq S
          PROVE  Len(g[k + 1]) = k + 1 /\ \A i \in 1..(k + 1) : g[k + 1][i] = s[i]
      <4>1. Len(g[k]) = k /\ \A i \in 1..k : g[k][i] = s[i]
        BY <2>3, <3>4
      <4>2. QED
        BY <2>1, <3>1, <4>1
    <3> HIDE DEF First
    <3>5. QED
      BY <3>2, <3>3, <3>4
  <2>6. CASE s[k + 1] \notin S
    <3>1. g[k + 1] = g[k]
      BY <2>2, <2>6
    <3>2. Range(g[k + 1]) = First(k + 1) \cap S
      <4> HIDE DEF First
      <4>1. QED
        BY <2>3, <2>4, <2>6, <3>1
    <3>3. ~ (Range(s) \subseteq S)
      BY <1>0, <2>1, <2>6 DEF Range
    <3> HIDE DEF First
    <3>4. QED
      BY <2>3, <3>1, <3>2, <3>3
  <2>7. QED
    BY <2>5, <2>6
<1>4. Good(n)
  <2>1. n \in T
    <3> HIDE DEF T
    <3>1. QED
      BY <1>0, <1>2, <1>3, Inductive
  <2> HIDE DEF Good
  <2>2. QED
    BY <1>0, <2>1
<1>5. First(n) = Range(s)
  BY <1>0 DEF Range
<1>6. g[n] \in Seq(X)
  BY <1>0
<1>7. ASSUME Range(s) \subseteq S PROVE g[n] = s
  <2>1. Len(g[n]) = n /\ \A i \in 1..n : g[n][i] = s[i]
    BY <1>4, <1>7
  <2>2. QED
    BY <1>6, <2>1, SeqEqual DEF n
<1> HIDE DEF First
<1>8. QED
  BY <1>1, <1>4, <1>5, <1>6, <1>7

\* FlattenSeq, sequence by sequence.
LEMMA FlattenByRounds ==
  ASSUME NEW X, NEW ss \in Seq(Seq(X)), ss # <<>>
  PROVE  \E g \in [1..Len(ss) -> Seq(X)] :
           /\ FlattenSeq(ss) = g[Len(ss)]
           /\ g[1] = ss[1]
           /\ \A i \in 2..Len(ss) : g[i] = g[i - 1] \o ss[i]
<1> DEFINE n == Len(ss)
           A == Seq(X)
           none == <<>>
           h == [p \in A \X (1..n) |-> p[1] \o ss[p[2]]]
           Is(f) == f = [i \in 1..n |-> IF i = 1 THEN ss[i] ELSE f[i - 1] \o ss[i]]
           K == CHOOSE f : Is(f)
<1>1. n \in Nat /\ n # 0 /\ none \in A /\ \A i \in 1..n : ss[i] \in A
  BY EmptySeq
<1>2. h \in StepOf(A, n)
  BY DEF StepOf
<1>3. \A p \in A, i \in 1..n : h[<<p, i>>] = p \o ss[i]
  OBVIOUS
<1>4. HasRun(A, none, n, h)
  <2>1. n \in Nat
    BY <1>1
  <2>2. none \in A
    BY <1>1
  <2> HIDE DEF h, A, n, none
  <2>3. QED
    BY <1>2, <2>1, <2>2, Recursion
<1>5. PICK u \in [0..n -> A] : u[0] = none /\ \A i \in 1..n : u[i] = h[<<u[i - 1], i>>]
  <2> HIDE DEF h, A, n, none
  <2>1. QED
    BY <1>4 DEF HasRun
<1> HIDE DEF h
<1>6. \A i \in 1..n : u[i] = u[i - 1] \o ss[i]
  <2> HIDE DEF A, none, n
  <2>1. \A i \in 1..n : u[i - 1] \in A
    BY <1>1, <1>5
  <2>2. QED
    BY <1>3, <1>5, <2>1
<1> DEFINE g == [i \in 1..n |-> u[i]]
<1>7. \A i \in 1..n : g[i] = IF i = 1 THEN ss[i] ELSE g[i - 1] \o ss[i]
  <2>1. u[1] = none \o ss[1] /\ ss[1] \in A
    <3> HIDE DEF A, none, n
    <3>1. 1 \in 1..n /\ 1 - 1 = 0
      BY <1>1
    <3>2. QED
      BY <1>1, <1>5, <1>6, <3>1
  <2>2. u[1] = ss[1]
    BY <2>1
  <2> HIDE DEF A, n
  <2>3. \A i \in 1..n : i # 1 => i - 1 \in 1..n
    BY <1>1
  <2>4. QED
    BY <1>6, <2>2, <2>3
<1>8. Is(g)
  BY <1>7
<1> HIDE DEF g
<1>9. Is(K)
  <2> HIDE DEF Is
  <2>1. QED
    BY <1>8
<1>10. FlattenSeq(ss) = K[n]
  BY <1>1 DEF FlattenSeq
<1> HIDE DEF K, n
<1>11. K = [i \in 1..n |-> IF i = 1 THEN ss[i] ELSE K[i - 1] \o ss[i]]
  BY <1>9
<1> HIDE DEF Is, A
<1>12. K[1] = ss[1] /\ \A i \in 2..n : K[i] = K[i - 1] \o ss[i]
  <2>1. 1 \in 1..n /\ \A i \in 2..n : i \in 1..n /\ i # 1
    BY <1>1
  <2>2. QED
    BY <1>11, <2>1
<1> DEFINE T == {k \in Nat : k + 1 <= n => K[k + 1] \in A}
<1>13. 0 \in T
  BY <1>1, <1>12
<1>14. ASSUME NEW k \in Nat, k \in T PROVE k + 1 \in T
  <2> SUFFICES ASSUME k + 2 <= n PROVE K[(k + 1) + 1] \in A
    OBVIOUS
  <2>1. (k + 1) + 1 \in 2..n /\ ((k + 1) + 1) - 1 = k + 1 /\ K[k + 1] \in A
    BY <1>1, <1>14
  <2>2. ss[(k + 1) + 1] \in A
    BY <1>1, <2>1
  <2>3. K[(k + 1) + 1] = K[k + 1] \o ss[(k + 1) + 1]
    BY <1>12, <2>1
  <2>4. QED
    BY <2>1, <2>2, <2>3 DEF A
<1> HIDE DEF T
<1>15. \A k \in Nat : k \in T
  BY <1>13, <1>14, Inductive
<1>16. \A k \in 1..n : K[k] \in A
  <2>1. \A k \in 1..n : k - 1 \in Nat /\ (k - 1) + 1 = k /\ k <= n
    BY <1>1
  <2>2. QED
    BY <1>15, <2>1 DEF T
<1>17. K \in [1..n -> A]
  <2>1. DOMAIN K = 1..n /\ K = [k \in 1..n |-> K[k]]
    BY <1>11
  <2>2. QED
    BY <1>16, <2>1
<1>18. QED
  BY <1>10, <1>12, <1>17 DEF n, A

\* What is in a flattened sequence, and when it is there once.
LEMMA FlattenIs ==
  ASSUME NEW X, NEW ss \in Seq(Seq(X))
  PROVE  /\ FlattenSeq(ss) \in Seq(X)
         /\ Range(FlattenSeq(ss)) = UNION {Range(ss[k]) : k \in 1..Len(ss)}
         /\ /\ \A k \in 1..Len(ss) : IsInjective(ss[k])
            /\ \A j, k \in 1..Len(ss) : j # k => Range(ss[j]) \cap Range(ss[k]) = {}
            => IsInjective(FlattenSeq(ss))
<1>1. CASE ss = <<>>
  <2>1. FlattenSeq(ss) = <<>> /\ 1..Len(ss) = {}
    BY <1>1 DEF FlattenSeq
  <2>2. Range(<<>>) = {} /\ IsInjective(<<>>)
    BY DEF Range, IsInjective
  <2>3. QED
    BY <2>1, <2>2
<1>2. CASE ss # <<>>
  <2> DEFINE n == Len(ss)
  <2>0. n \in Nat \ {0} /\ \A i \in 1..n : ss[i] \in Seq(X)
    BY <1>2, EmptySeq
  <2>1. PICK g \in [1..n -> Seq(X)] :
           /\ FlattenSeq(ss) = g[n]
           /\ g[1] = ss[1]
           /\ \A i \in 2..n : g[i] = g[i - 1] \o ss[i]
    BY <1>2, FlattenByRounds
  <2> HIDE DEF n
  <2> DEFINE Of(k) == UNION {Range(ss[i]) : i \in 1..k}
             Once == /\ \A k \in 1..n : IsInjective(ss[k])
                     /\ \A j, k \in 1..n : j # k => Range(ss[j]) \cap Range(ss[k]) = {}
             Good(k) == Range(g[k]) = Of(k) /\ (Once => IsInjective(g[k]))
             T == {k \in Nat : k + 1 <= n => Good(k + 1)}
  <2>2. 0 \in T
    <3>1. Of(1) = Range(ss[1])
      OBVIOUS
    <3> HIDE DEF Of
    <3>2. Good(1)
      BY <2>0, <2>1, <3>1
    <3> HIDE DEF Good
    <3>3. QED
      BY <3>2
  <2>3. ASSUME NEW k \in Nat, k \in T PROVE k + 1 \in T
    <3> SUFFICES ASSUME k + 2 <= n PROVE Good(k + 2)
      <4> HIDE DEF Good
      <4>1. (k + 1) + 1 = k + 2
        OBVIOUS
      <4>2. QED
        BY <4>1
    <3>1. /\ k + 2 \in 2..n /\ (k + 2) - 1 = k + 1 /\ k + 1 \in 1..n /\ k + 2 \in 1..n
          /\ g[k + 1] \in Seq(X) /\ ss[k + 2] \in Seq(X)
      BY <2>0
    <3>2. g[k + 2] = g[k + 1] \o ss[k + 2]
      BY <2>1, <3>1
    <3>3. Good(k + 1)
      <4> HIDE DEF Good
      <4>1. QED
        BY <2>0, <2>3
    <3>4. Of(k + 2) = Of(k + 1) \cup Range(ss[k + 2])
      <4>1. \A i \in 1..(k + 2) : i \in 1..(k + 1) \/ i = k + 2
        OBVIOUS
      <4>2. 1..(k + 1) \subseteq 1..(k + 2) /\ k + 2 \in 1..(k + 2)
        OBVIOUS
      <4>3. QED
        BY <4>1, <4>2
    <3>5. Range(g[k + 2]) = Range(g[k + 1]) \cup Range(ss[k + 2])
      BY <3>1, <3>2, TwoInARow
    <3>6. ASSUME Once PROVE IsInjective(g[k + 2])
      <4>1. Of(k + 1) \cap Range(ss[k + 2]) = {}
        <5>1. ASSUME NEW i \in 1..(k + 1) PROVE Range(ss[i]) \cap Range(ss[k + 2]) = {}
          <6>1. i \in 1..n /\ i # k + 2
            BY <2>0, <3>1
          <6>2. QED
            BY <3>1, <3>6, <6>1
        <5>2. QED
          BY <5>1
      <4>2. IsInjective(g[k + 1]) /\ IsInjective(ss[k + 2])
        BY <3>1, <3>3, <3>6
      <4> HIDE DEF Of
      <4>3. Range(g[k + 1]) \cap Range(ss[k + 2]) = {}
        BY <3>3, <4>1
      <4>4. QED
        BY <3>1, <3>2, <4>2, <4>3, TwoInARow
    <3> HIDE DEF Of, Once
    <3>7. QED
      BY <3>3, <3>4, <3>5, <3>6
  <2>4. Good(n)
    <3> HIDE DEF T
    <3>0. \A k \in Nat : k \in T
      BY <2>2, <2>3, Inductive
    <3>1. n - 1 \in T
      BY <2>0, <3>0
    <3> HIDE DEF Good
    <3>2. n - 1 \in Nat /\ (n - 1) + 1 = n /\ n <= n
      BY <2>0
    <3>3. QED
      BY <3>1, <3>2 DEF T
  <2>5. g[n] \in Seq(X)
    BY <2>0
  <2> HIDE DEF Of
  <2>6. Of(n) = UNION {Range(ss[k]) : k \in 1..n}
    BY DEF Of
  <2>7. QED
    BY <2>1, <2>4, <2>5, <2>6 DEF n
<1>3. QED
  BY <1>1, <1>2

\* The least and the greatest of a finite set of numbers.
LEMMA MinIs ==
  ASSUME NEW S \in SUBSET Int, IsFiniteSet(S), S # {}
  PROVE  Min(S) \in S /\ \A y \in S : Min(S) <= y
<1> DEFINE n == Cardinality(S)
           s == Ascending(S)
<1>1. n \in Nat /\ n # 0
  BY FS_CardinalityType, FS_EmptySet
<1>2. s \in [1..n -> S] /\ \A i, j \in 1..n : i < j => s[i] < s[j]
  BY AscendingOrder
<1>3. Range(s) = S
  BY AscendingIs
<1> HIDE DEF n, s
<1>4. s[1] \in S /\ \A y \in S : s[1] <= y
  <2>1. 1 \in 1..n
    BY <1>1
  <2>2. ASSUME NEW y \in S PROVE s[1] <= y
    <3>1. PICK i \in 1..n : y = s[i]
      BY <1>2, <1>3 DEF Range
    <3>2. s[1] \in Int /\ s[i] \in Int
      BY <1>2, <2>1
    <3>3. QED
      BY <1>1, <1>2, <2>1, <3>1, <3>2
  <2>3. QED
    BY <1>2, <2>1, <2>2
<1>5. QED
  BY <1>4 DEF Min

\* The greatest.
LEMMA MaxIs ==
  ASSUME NEW S \in SUBSET Int, IsFiniteSet(S), S # {}
  PROVE  Max(S) \in S /\ \A y \in S : Max(S) >= y
<1> DEFINE n == Cardinality(S)
           s == Ascending(S)
<1>1. n \in Nat /\ n # 0
  BY FS_CardinalityType, FS_EmptySet
<1>2. s \in [1..n -> S] /\ \A i, j \in 1..n : i < j => s[i] < s[j]
  BY AscendingOrder
<1>3. Range(s) = S
  BY AscendingIs
<1> HIDE DEF n, s
<1>4. s[n] \in S /\ \A y \in S : s[n] >= y
  <2>1. n \in 1..n
    BY <1>1
  <2>2. ASSUME NEW y \in S PROVE s[n] >= y
    <3>1. PICK i \in 1..n : y = s[i]
      BY <1>2, <1>3 DEF Range
    <3>2. s[n] \in Int /\ s[i] \in Int
      BY <1>2, <2>1
    <3>3. QED
      BY <1>1, <1>2, <2>1, <3>1, <3>2
  <2>3. QED
    BY <1>2, <2>1, <2>2
<1>5. QED
  BY <1>4 DEF Max

------------------------------------------------------------------------------
(* What the state says, in terms of the work and the two tables alone.        *)

LeftRow == [LeftColumn -> Int]
RightRow == [RightColumn -> Int]
LineageOf == Nat \X Nat

EqualOf(w) == Kept(w.filtering, {f \in Range(w.filtering) : f.op = "EQ"})
LeftKeysOf(w) == [k \in DOMAIN EqualOf(w) |-> EqualOf(w)[k].lv]
RightKeysOf(w) == [k \in DOMAIN EqualOf(w) |-> EqualOf(w)[k].rv]
WholeOf(w, L, R) ==
  CASE w.type \in {"INNER_JOIN", "RIGHT_OUTER_JOIN"} -> HashTable(L, LeftKeysOf(w))
    [] w.type = "LEFT_OUTER_JOIN" -> HashTable(R, RightKeysOf(w))
    [] w.type = "IN" -> HashTable(R, <<w.filtering[1].rv>>)
    [] OTHER -> {}

Pass(w, l, r) == \A f \in Range(w.filtering) : Compare(f.op, l[f.lv], r[f.rv])
Dep(w, l, r) == \A f \in Range(w.dependency) : Compare(f.op, l[f.lv], r[f.rv])
DepRows(w, l, R) == {j \in DOMAIN R : Dep(w, l, R[j])}
Least(w, l, R) == Min({R[j][w.projection] : j \in DepRows(w, l, R)})

\* Does a row of the left table stay?
StaysIn(w, l, R) ==
  (\E j \in DOMAIN R : l[w.filtering[1].lv] = R[j][w.filtering[1].rv]) = (w.filtering[1].op = "IN")
StaysExist(w, l, R) == (DepRows(w, l, R) # {}) = (w.filtering = <<>>)
StaysLeast(w, l, R) ==
  DepRows(w, l, R) # {} /\ Compare(w.filtering[1].op, l[w.filtering[1].lv], Least(w, l, R))

\* What row k of the streamed table puts into the target.
InnerOf(w, L, R, k) == {<<i, k>> : i \in {x \in DOMAIN L : Pass(w, L[x], R[k])}}
LeftOf(w, L, R, k) ==
  LET J == {j \in DOMAIN R : Pass(w, L[k], R[j])}
  IN  IF J = {} THEN {<<k, 0>>} ELSE {<<k, j>> : j \in J}
RightOf(w, L, R, k) ==
  LET I == {i \in DOMAIN L : Pass(w, L[i], R[k])}
  IN  IF I = {} THEN {<<0, k>>} ELSE {<<i, k>> : i \in I}
Stays(w, L, R, k) ==
  CASE w.type = "IN" -> StaysIn(w, L[k], R)
    [] w.type = "DEPENDENCY_EXIST" -> StaysExist(w, L[k], R)
    [] w.type = "DEPENDENCY_INNER_JOIN" -> StaysLeast(w, L[k], R)
RowsOf(w, L, R, k) ==
  CASE w.type = "INNER_JOIN" -> InnerOf(w, L, R, k)
    [] w.type = "LEFT_OUTER_JOIN" -> LeftOf(w, L, R, k)
    [] w.type = "RIGHT_OUTER_JOIN" -> RightOf(w, L, R, k)
    [] w.type = "UNION" -> {<<0, k>>}
    [] OTHER -> IF Stays(w, L, R, k) THEN {<<k, 0>>} ELSE {}
Base(w, L) == IF w.type = "UNION" THEN {<<i, 0>> : i \in DOMAIN L} ELSE {}
RowsOfAll(w, L, R, K) == UNION {RowsOf(w, L, R, k) : k \in K}
Goal(w, L, R, n) == Base(w, L) \cup RowsOfAll(w, L, R, 1..n)

\* The works that the property is about.
SoundType(w) ==
  w.type \in {"INNER_JOIN", "LEFT_OUTER_JOIN", "RIGHT_OUTER_JOIN", "UNION", "IN",
              "DEPENDENCY_EXIST", "DEPENDENCY_INNER_JOIN"}
SameText(f) == (Type[f.lv] = "float") = (Type[f.rv] = "float")
Sound(w, R) ==
  /\ SoundType(w)
  /\ w.type = "UNION" => w.filtering # <<>>
  /\ w.type = "INNER_JOIN" => \A f \in Range(w.filtering) :
       IF f.op = "EQ" THEN Type[f.rv] # "date" /\ SameText(f)
       ELSE Type[f.lv] # "date" /\ f.op \in Comparison
  /\ w.type = "LEFT_OUTER_JOIN" => \A f \in Range(w.filtering) :
       f.op = "EQ" /\ Type[f.lv] # "date" /\ SameText(f)
  /\ w.type = "RIGHT_OUTER_JOIN" => \A f \in Range(w.filtering) :
       f.op = "EQ" /\ Type[f.rv] # "date" /\ SameText(f)
  /\ w.type = "IN" => \A f \in Range(w.filtering) : Type[f.lv] # "date" /\ SameText(f)
  /\ w.type = "DEPENDENCY_EXIST" => R # <<>>
  /\ w.type \in {"DEPENDENCY_EXIST", "DEPENDENCY_INNER_JOIN"} => w.dependency # <<>>
  /\ \A f \in Range(w.dependency) : Type[f.lv] # "date"
Nested(w) == w.type = "INNER_JOIN" /\ EqualOf(w) = <<>>

FromLeft(w) == w.type \in {"LEFT_OUTER_JOIN", "IN", "DEPENDENCY_INNER_JOIN",
                           "DEPENDENCY_EXIST", "DEPENDENCY_IN"}
StreamOf(w, L, R) == IF FromLeft(w) THEN L ELSE R

Typed ==
  /\ work \in Work /\ left \in Seq(LeftRow) /\ right \in Seq(RightRow)
  /\ shown \in 0..Len(StreamOf(work, left, right))
  /\ finished \in BOOLEAN
  /\ pc \in {"read", "stream", "done", "undefined"}
  /\ row_index \in 0..shown

Made ==
  /\ target \in Seq(LineageOf)
  /\ hash_table = WholeOf(work, left, right)
  /\ Range(target) = Goal(work, left, right, row_index)
  /\ IsInjective(target) \/ Nested(work)
  /\ row_count = Len(target) \/ work.type = "UNION"

IInv ==
  /\ Typed
  /\ pc = "read" => row_index = 0
  /\ pc \in {"stream", "done"} /\ Sound(work, right) => Made
------------------------------------------------------------------------------
\* What the assumption says of one work.
LEMMA WorkFacts ==
  ASSUME NEW w \in Work
  PROVE  /\ w.type \in WorkType
         /\ w.filtering \in Seq(Filter) /\ w.dependency \in Seq(Filter)
         /\ w.projection \in RightColumn
  BY WorkAssumption

\* The properties of a filter that are looked at.
LEMMA FilterFacts ==
  ASSUME NEW w \in Work
  PROVE  /\ Range(w.filtering) \subseteq Filter /\ Range(w.dependency) \subseteq Filter
         /\ \A f \in Filter : f.lv \in LeftColumn /\ f.rv \in RightColumn
                              /\ f.op \in Comparison \cup {"IN", "NOTIN"}
                              /\ f.lv \in Column /\ f.rv \in Column
<1>1. w.filtering \in Seq(Filter) /\ w.dependency \in Seq(Filter)
  BY WorkFacts
<1>2. \A s \in Seq(Filter) : Range(s) \subseteq Filter
  BY DEF Range
<1>3. \A f \in Filter : f.lv \in LeftColumn /\ f.rv \in RightColumn
                              /\ f.op \in Comparison \cup {"IN", "NOTIN"}
  BY DEF Filter
<1> HIDE DEF Filter
<1>4. QED
  BY <1>1, <1>2, <1>3 DEF Column

\* The model's operators are these.
LEMMA EqualFiltersIs ==
  /\ EqualFilters = EqualOf(work)
  /\ LeftKeys = LeftKeysOf(work) /\ RightKeys = RightKeysOf(work)
  /\ Streamed = StreamOf(work, left, right)
  BY DEF EqualFilters, EqualOf, LeftKeys, LeftKeysOf, RightKeys, RightKeysOf, Streamed,
         LeftStreams, StreamOf, FromLeft

\* Two values are written the same when they are the same, and both or neither is a
\* float.
LEMMA TextIs ==
  ASSUME NEW c, NEW d, NEW x, NEW y
  PROVE  Text(c, x) = Text(d, y) <=> (Type[c] = "float") = (Type[d] = "float") /\ x = y
  BY DEF Text

\* Where the code does not depart, the work is one of those.
LEMMA SoundIs ==
  ASSUME Typed, ~ Departs
  PROVE  Sound(work, right)
<1>1. work \in Work /\ work.type \in WorkType
  BY WorkFacts DEF Typed
<1>2. SoundType(work) /\ (work.type = "UNION" => work.filtering # <<>>)
  BY <1>1 DEF Departs, MakesNothing, WorkType, SoundType
<1>3. \A f \in Range(work.filtering) : SameText(f) <=> Text(f.lv, 0) = Text(f.rv, 0)
  BY TextIs DEF SameText
<1>4. work.type = "INNER_JOIN" => \A f \in Range(work.filtering) :
       IF f.op = "EQ" THEN Type[f.rv] # "date" /\ SameText(f)
       ELSE Type[f.lv] # "date" /\ f.op \in Comparison
  BY <1>3 DEF Departs, LeftStreams
<1>5. work.type = "LEFT_OUTER_JOIN" => \A f \in Range(work.filtering) :
       f.op = "EQ" /\ Type[f.lv] # "date" /\ SameText(f)
  BY <1>3 DEF Departs, LeftStreams
<1>6. work.type = "RIGHT_OUTER_JOIN" => \A f \in Range(work.filtering) :
       f.op = "EQ" /\ Type[f.rv] # "date" /\ SameText(f)
  BY <1>3 DEF Departs, LeftStreams
<1>7. work.type = "IN" => \A f \in Range(work.filtering) : Type[f.lv] # "date" /\ SameText(f)
  BY <1>3 DEF Departs, LeftStreams
<1>8. /\ work.type = "DEPENDENCY_EXIST" => right # <<>>
      /\ work.type \in {"DEPENDENCY_EXIST", "DEPENDENCY_INNER_JOIN"} => work.dependency # <<>>
      /\ \A f \in Range(work.dependency) : Type[f.lv] # "date"
  BY DEF Departs
<1>9. QED
  BY <1>2, <1>4, <1>5, <1>6, <1>7, <1>8 DEF Sound
------------------------------------------------------------------------------
(* Hash tables and keys.                                                       *)

\* A key hits the rows that it was made of, each once.
LEMMA HitsAre ==
  ASSUME NEW X, NEW t \in Seq(X), NEW columns, NEW key
  PROVE  LET hits == Hits(HashTable(t, columns), key)
         IN  /\ hits \in Seq(Nat)
             /\ IsInjective(hits)
             /\ Range(hits) = {i \in DOMAIN t : KeyOf(t[i], columns) = key}
<1> DEFINE I == {i \in DOMAIN t : KeyOf(t[i], columns) = key}
<1>1. {e[2] : e \in {x \in HashTable(t, columns) : x[1] = key}} = I
  <2> DEFINE at(i) == <<KeyOf(t[i], columns), i>>
             H == {x \in HashTable(t, columns) : x[1] = key}
  <2>1. ASSUME NEW i \in I PROVE i \in {x[2] : x \in H}
    <3>1. at(i) \in H /\ at(i)[2] = i
      BY DEF HashTable
    <3> HIDE DEF H, at
    <3>2. QED
      BY <3>1
  <2>2. ASSUME NEW x \in H PROVE x[2] \in I
    <3>1. PICK i \in DOMAIN t : x = <<KeyOf(t[i], columns), i>>
      BY DEF HashTable
    <3>2. x[1] = KeyOf(t[i], columns) /\ x[2] = i /\ x[1] = key
      BY <3>1
    <3>3. QED
      BY <3>2
  <2> HIDE DEF H, I
  <2>3. {x[2] : x \in H} = I
    BY <2>1, <2>2
  <2>4. QED
    BY <2>3 DEF H
<1>2. IsFiniteSet(I) /\ I \subseteq Nat
  <2>1. DOMAIN t = 1..Len(t) /\ Len(t) \in Nat
    OBVIOUS
  <2>2. IsFiniteSet(DOMAIN t)
    BY <2>1, FS_Interval
  <2>3. QED
    BY <2>1, <2>2, FS_Subset
<1> HIDE DEF I
<1>3. Ascending(I) \in Seq(I) /\ IsInjective(Ascending(I)) /\ Range(Ascending(I)) = I
  BY <1>2, AscendingIs
<1>4. Ascending(I) \in Seq(Nat)
  BY <1>2, <1>3, SeqMonotonic
<1>5. QED
  BY <1>1, <1>3, <1>4 DEF Hits, I

\* No column of the key is a date: the key looked for is the key written.
LEMMA ProbeKeyIs ==
  ASSUME NEW columns \in Seq(Column), NEW row, \A k \in DOMAIN columns : Type[columns[k]] # "date"
  PROVE  ProbeKey(row, columns) = KeyOf(row, columns)
<1>1. Range(columns) \subseteq {c \in Column : Type[c] # "date"}
  BY DEF Range
<1>2. QED
  BY <1>1, KeptIs DEF ProbeKey

\* Keys of the same types are equal when the values are.
LEMMA SameKey ==
  ASSUME NEW E \in Seq(Filter), \A f \in Range(E) : SameText(f), NEW l, NEW r
  PROVE  KeyOf(l, [k \in DOMAIN E |-> E[k].lv]) = KeyOf(r, [k \in DOMAIN E |-> E[k].rv])
           <=> \A f \in Range(E) : l[f.lv] = r[f.rv]
<1> DEFINE a == KeyOf(l, [k \in DOMAIN E |-> E[k].lv])
           b == KeyOf(r, [k \in DOMAIN E |-> E[k].rv])
<1>1. a = [k \in DOMAIN E |-> Text(E[k].lv, l[E[k].lv])]
  BY DEF KeyOf
<1>2. b = [k \in DOMAIN E |-> Text(E[k].rv, r[E[k].rv])]
  BY DEF KeyOf
<1>3. a = b <=> \A k \in DOMAIN E : Text(E[k].lv, l[E[k].lv]) = Text(E[k].rv, r[E[k].rv])
  BY <1>1, <1>2
<1>4. ASSUME NEW k \in DOMAIN E
      PROVE  Text(E[k].lv, l[E[k].lv]) = Text(E[k].rv, r[E[k].rv]) <=> l[E[k].lv] = r[E[k].rv]
  <2>1. SameText(E[k])
    BY DEF Range
  <2>2. QED
    BY <2>1, TextIs DEF SameText
<1>5. (\A k \in DOMAIN E : l[E[k].lv] = r[E[k].rv]) <=> \A f \in Range(E) : l[f.lv] = r[f.rv]
  BY DEF Range
<1>6. QED
  BY <1>3, <1>4, <1>5

\* A sequence of row numbers, each paired with the row of the streamed table.
LEMMA PairedRight ==
  ASSUME NEW p \in Seq(Nat), NEW j \in Nat
  PROVE  LET q == [k \in DOMAIN p |-> <<p[k], j>>]
         IN  /\ q \in Seq(LineageOf)
             /\ Range(q) = {<<i, j>> : i \in Range(p)}
             /\ IsInjective(p) => IsInjective(q)
<1> DEFINE q == [k \in DOMAIN p |-> <<p[k], j>>]
           n == Len(p)
<1>1. n \in Nat /\ DOMAIN p = 1..n /\ \A k \in 1..n : p[k] \in Nat
  OBVIOUS
<1>2. q \in [1..n -> LineageOf] /\ \A k \in 1..n : q[k] = <<p[k], j>>
  BY <1>1 DEF LineageOf
<1> HIDE DEF q, n
<1>3. q \in Seq(LineageOf) /\ DOMAIN q = 1..n
  BY <1>1, <1>2, SeqDef
<1>4. Range(q) = {<<i, j>> : i \in Range(p)}
  BY <1>1, <1>2, <1>3 DEF Range
<1>5. ASSUME IsInjective(p) PROVE IsInjective(q)
  <2>1. ASSUME NEW k \in 1..n, NEW l \in 1..n, q[k] = q[l] PROVE k = l
    <3>1. p[k] = p[l]
      BY <1>2, <2>1
    <3>2. QED
      BY <1>1, <1>5, <3>1 DEF IsInjective
  <2>2. QED
    BY <1>3, <2>1 DEF IsInjective
<1>6. QED
  BY <1>3, <1>4, <1>5 DEF q

\* The same with the row of the streamed table on the left.
LEMMA PairedLeft ==
  ASSUME NEW p \in Seq(Nat), NEW i \in Nat
  PROVE  LET q == [k \in DOMAIN p |-> <<i, p[k]>>]
         IN  /\ q \in Seq(LineageOf)
             /\ Range(q) = {<<i, j>> : j \in Range(p)}
             /\ IsInjective(p) => IsInjective(q)
<1> DEFINE q == [k \in DOMAIN p |-> <<i, p[k]>>]
           n == Len(p)
<1>1. n \in Nat /\ DOMAIN p = 1..n /\ \A k \in 1..n : p[k] \in Nat
  OBVIOUS
<1>2. q \in [1..n -> LineageOf] /\ \A k \in 1..n : q[k] = <<i, p[k]>>
  BY <1>1 DEF LineageOf
<1> HIDE DEF q, n
<1>3. q \in Seq(LineageOf) /\ DOMAIN q = 1..n
  BY <1>1, <1>2, SeqDef
<1>4. Range(q) = {<<i, j>> : j \in Range(p)}
  BY <1>1, <1>2, <1>3 DEF Range
<1>5. ASSUME IsInjective(p) PROVE IsInjective(q)
  <2>1. ASSUME NEW k \in 1..n, NEW l \in 1..n, q[k] = q[l] PROVE k = l
    <3>1. p[k] = p[l]
      BY <1>2, <2>1
    <3>2. QED
      BY <1>1, <1>5, <3>1 DEF IsInjective
  <2>2. QED
    BY <1>3, <2>1 DEF IsInjective
<1>6. QED
  BY <1>3, <1>4, <1>5 DEF q

\* A batch: the rows from row_index on, each once.
LEMMA BatchIs ==
  ASSUME NEW n \in Nat, row_index \in 0..n
  PROVE  /\ Batch(n) \in Seq(Nat)
         /\ IsInjective(Batch(n))
         /\ Range(Batch(n)) = (row_index + 1)..n
         /\ DOMAIN Batch(n) = 1..(n - row_index)
         /\ \A k \in 1..(n - row_index) : Batch(n)[k] = row_index + k
<1>1. n - row_index \in Nat
  OBVIOUS
<1>2. /\ Batch(n) \in [1..(n - row_index) -> Nat]
      /\ \A k \in 1..(n - row_index) : Batch(n)[k] = row_index + k
  BY DEF Batch
<1>3. Batch(n) \in Seq(Nat) /\ DOMAIN Batch(n) = 1..(n - row_index)
  BY <1>1, <1>2, SeqDef
<1>4. Range(Batch(n)) = (row_index + 1)..n
  <2>1. ASSUME NEW x \in (row_index + 1)..n PROVE x \in Range(Batch(n))
    <3>1. x - row_index \in 1..(n - row_index) /\ row_index + (x - row_index) = x
      OBVIOUS
    <3>2. QED
      BY <1>2, <1>3, <3>1 DEF Range
  <2>2. ASSUME NEW x \in Range(Batch(n)) PROVE x \in (row_index + 1)..n
    <3>1. PICK k \in 1..(n - row_index) : x = Batch(n)[k]
      BY <1>3 DEF Range
    <3>2. QED
      BY <1>1, <1>2, <3>1
  <2>3. QED
    BY <2>1, <2>2
<1>5. QED
  BY <1>2, <1>3, <1>4 DEF IsInjective

\* What the rows of a batch add one after the other: `of' says what each adds.
LEMMA RoundsAdd ==
  ASSUME NEW n \in Nat, row_index \in 0..n,
         NEW of \in [(row_index + 1)..n -> Seq(LineageOf)],
         \A r \in (row_index + 1)..n : IsInjective(of[r]),
         \A r, s \in (row_index + 1)..n : r # s => Range(of[r]) \cap Range(of[s]) = {}
  PROVE  LET a == FlattenSeq([k \in DOMAIN Batch(n) |-> of[Batch(n)[k]]])
         IN  /\ a \in Seq(LineageOf)
             /\ IsInjective(a)
             /\ Range(a) = UNION {Range(of[r]) : r \in (row_index + 1)..n}
<1> DEFINE ss == [k \in DOMAIN Batch(n) |-> of[Batch(n)[k]]]
           m == n - row_index
           K == (row_index + 1)..n
<1>1. m \in Nat /\ DOMAIN Batch(n) = 1..m /\ \A k \in 1..m : Batch(n)[k] = row_index + k /\ row_index + k \in K
  BY BatchIs
<1>2. \A k \in 1..m : ss[k] = of[row_index + k]
  BY <1>1
<1>3. ss \in [1..m -> Seq(LineageOf)]
  BY <1>1
<1> HIDE DEF ss
<1>4. ss \in Seq(Seq(LineageOf)) /\ Len(ss) = m
  BY <1>1, <1>3, SeqDef
<1>5. \A r \in K : r - row_index \in 1..m /\ row_index + (r - row_index) = r
  OBVIOUS
<1> HIDE DEF m, K
<1>6. {Range(ss[k]) : k \in 1..m} = {Range(of[r]) : r \in K}
  <2>1. ASSUME NEW k \in 1..m PROVE Range(ss[k]) \in {Range(of[r]) : r \in K}
    BY <1>1, <1>2
  <2>2. ASSUME NEW r \in K PROVE Range(of[r]) \in {Range(ss[k]) : k \in 1..m}
    <3>1. of[r] = ss[r - row_index]
      BY <1>2, <1>5
    <3>2. QED
      BY <1>5, <3>1
  <2>3. QED
    BY <2>1, <2>2
<1>7. \A k \in 1..m : IsInjective(ss[k])
  BY <1>1, <1>2 DEF K
<1>8. ASSUME NEW j \in 1..m, NEW k \in 1..m, j # k PROVE Range(ss[j]) \cap Range(ss[k]) = {}
  <2>1. row_index + j # row_index + k
    BY <1>8, <1>1
  <2>2. QED
    BY <1>1, <1>2, <2>1 DEF K
<1>9. QED
  BY <1>4, <1>6, <1>7, <1>8, FlattenIs DEF ss, K
------------------------------------------------------------------------------
\* What a row adds is marked with the number of the row.
Mark(w, p) == IF FromLeft(w) THEN p[1] ELSE p[2]

\* The mark of a row that a streamed one made; what was there before has mark 0.
LEMMA Marked ==
  ASSUME NEW w, SoundType(w), NEW L, NEW R, NEW k \in Nat \ {0}
  PROVE  /\ \A p \in RowsOf(w, L, R, k) : Mark(w, p) = k
         /\ \A p \in Base(w, L) : Mark(w, p) = 0
<1>1. \A p \in Base(w, L) : Mark(w, p) = 0
  BY DEF Base, Mark, FromLeft
<1>2. CASE w.type = "INNER_JOIN"
  BY <1>1, <1>2 DEF RowsOf, InnerOf, Mark, FromLeft
<1>3. CASE w.type = "LEFT_OUTER_JOIN"
  BY <1>1, <1>3 DEF RowsOf, LeftOf, Mark, FromLeft
<1>4. CASE w.type = "RIGHT_OUTER_JOIN"
  BY <1>1, <1>4 DEF RowsOf, RightOf, Mark, FromLeft
<1>5. CASE w.type = "UNION"
  BY <1>1, <1>5 DEF RowsOf, Mark, FromLeft
<1>6. CASE w.type \in {"IN", "DEPENDENCY_EXIST", "DEPENDENCY_INNER_JOIN"}
  BY <1>1, <1>6 DEF RowsOf, Mark, FromLeft
<1>7. QED
  BY <1>2, <1>3, <1>4, <1>5, <1>6 DEF SoundType

\* So the rows of a batch add none that was there before.
LEMMA NoneTwice ==
  ASSUME NEW w, SoundType(w), NEW L, NEW R, NEW a \in Nat, NEW n \in Nat
  PROVE  Goal(w, L, R, a) \cap RowsOfAll(w, L, R, (a + 1)..n) = {}
<1> SUFFICES ASSUME NEW p \in Goal(w, L, R, a), NEW k \in (a + 1)..n, p \in RowsOf(w, L, R, k)
             PROVE  FALSE
  BY DEF RowsOfAll
<1>1. k \in Nat \ {0}
  OBVIOUS
<1>2. Mark(w, p) = k
  BY <1>1, Marked
<1>3. CASE p \in Base(w, L)
  BY <1>1, <1>2, <1>3, Marked
<1>4. CASE p \in RowsOfAll(w, L, R, 1..a)
  <2>1. PICK j \in 1..a : p \in RowsOf(w, L, R, j)
    BY <1>4 DEF RowsOfAll
  <2>2. Mark(w, p) = j
    BY <2>1, Marked
  <2>3. QED
    BY <1>2, <2>2
<1>5. QED
  BY <1>3, <1>4 DEF Goal

\* The goal grows by what the next rows make.
LEMMA GoalGrows ==
  ASSUME NEW w, NEW L, NEW R, NEW a \in Nat, NEW n \in Nat, a <= n
  PROVE  /\ Goal(w, L, R, n) = Goal(w, L, R, a) \cup RowsOfAll(w, L, R, (a + 1)..n)
         /\ w.type # "UNION" =>
              Goal(w, L, R, n) = Goal(w, L, R, a) \cup RowsOfAll(w, L, R, 1..n)
         /\ Goal(w, L, R, 0) = Base(w, L)
<1>1. 1..n = (1..a) \cup ((a + 1)..n) /\ 1..0 = {}
  OBVIOUS
<1>2. RowsOfAll(w, L, R, 1..n) = RowsOfAll(w, L, R, 1..a) \cup RowsOfAll(w, L, R, (a + 1)..n)
  BY <1>1 DEF RowsOfAll
<1>3. RowsOfAll(w, L, R, 1..0) = {}
  BY <1>1 DEF RowsOfAll
<1>4. QED
  BY <1>2, <1>3 DEF Goal, Base

\* If `of' says of each row of the batch what it is to make, the batch makes what its
\* rows are to make, each once.
LEMMA Rounds ==
  ASSUME NEW n \in Nat, row_index \in 0..n, SoundType(work),
         NEW of \in [(row_index + 1)..n -> Seq(LineageOf)],
         \A r \in (row_index + 1)..n :
           IsInjective(of[r]) /\ Range(of[r]) = RowsOf(work, left, right, r)
  PROVE  LET a == FlattenSeq([k \in DOMAIN Batch(n) |-> of[Batch(n)[k]]])
         IN  /\ a \in Seq(LineageOf)
             /\ IsInjective(a)
             /\ Range(a) = RowsOfAll(work, left, right, (row_index + 1)..n)
<1> DEFINE K == (row_index + 1)..n
<1>1. K \subseteq Nat \ {0}
  OBVIOUS
<1> HIDE DEF K
<1>2. ASSUME NEW r \in K, NEW s \in K, r # s PROVE Range(of[r]) \cap Range(of[s]) = {}
  <2> SUFFICES ASSUME NEW p, p \in RowsOf(work, left, right, r), p \in RowsOf(work, left, right, s)
               PROVE  FALSE
    BY DEF K
  <2>1. Mark(work, p) = r /\ Mark(work, p) = s
    BY <1>1, Marked
  <2>2. QED
    BY <1>2, <2>1
<1>3. {Range(of[r]) : r \in K} = {RowsOf(work, left, right, r) : r \in K}
  BY DEF K
<1>4. QED
  BY <1>2, <1>3, RoundsAdd DEF K, RowsOfAll

\* The rows of a batch are rows of the streamed table.
LEMMA InTheTable ==
  ASSUME Typed, NEW n \in Nat, n <= Len(StreamOf(work, left, right))
  PROVE  /\ row_index \in Nat /\ shown \in Nat
         /\ Len(left) \in Nat /\ Len(right) \in Nat
         /\ DOMAIN left = 1..Len(left) /\ DOMAIN right = 1..Len(right)
         /\ \A r \in (row_index + 1)..n : r \in Nat \ {0}
         /\ FromLeft(work) => \A r \in (row_index + 1)..n : r \in DOMAIN left
         /\ ~ FromLeft(work) => \A r \in (row_index + 1)..n : r \in DOMAIN right
<1>1. Len(left) \in Nat /\ Len(right) \in Nat /\ DOMAIN left = 1..Len(left) /\ DOMAIN right = 1..Len(right)
  BY DEF Typed
<1>2. row_index \in Nat /\ shown \in Nat
  BY <1>1 DEF Typed, StreamOf
<1>3. n <= IF FromLeft(work) THEN Len(left) ELSE Len(right)
  BY DEF StreamOf
<1>4. \A r \in (row_index + 1)..n : r \in Nat /\ 1 <= r /\ r <= n
  BY <1>2
<1>5. QED
  BY <1>1, <1>2, <1>3, <1>4
------------------------------------------------------------------------------
(* Inner joins.                                                                *)

\* The equal filters and the others together are the condition of the join.
LEMMA InnerCondition ==
  ASSUME Typed, Sound(work, right), work.type = "INNER_JOIN", NEW l, NEW r
  PROVE  Pass(work, l, r) <=>
           (\A f \in Range(EqualOf(work)) : l[f.lv] = r[f.rv]) /\ PassesNonEqual(l, r)
<1>1. work.filtering \in Seq(Filter)
  BY WorkFacts DEF Typed
<1>2. Range(EqualOf(work)) = {f \in Range(work.filtering) : f.op = "EQ"}
  BY <1>1, KeptIs DEF EqualOf
<1>3. \A f \in Range(work.filtering) : f.op # "EQ" => Type[f.lv] # "date" /\ f.op \in Comparison
  BY DEF Sound
<1>4. ASSUME NEW f \in Range(work.filtering), f.op # "EQ"
      PROVE  PassesFilter(f, l, r) <=> Compare(f.op, l[f.lv], r[f.rv])
  BY <1>3, <1>4 DEF PassesFilter
<1>5. ASSUME NEW f \in Range(work.filtering), f.op = "EQ"
      PROVE  PassesFilter(f, l, r) /\ (Compare(f.op, l[f.lv], r[f.rv]) <=> l[f.lv] = r[f.rv])
  BY <1>5 DEF PassesFilter, Compare
<1>6. QED
  BY <1>2, <1>4, <1>5 DEF Pass, PassesNonEqual

\* The equal filters, and the columns they make keys of.
LEMMA EqualFacts ==
  ASSUME NEW w \in Work, NEW R, Sound(w, R)
  PROVE  /\ EqualOf(w) \in Seq(Filter)
         /\ Range(EqualOf(w)) \subseteq Range(w.filtering)
         /\ LeftKeysOf(w) \in Seq(Column) /\ RightKeysOf(w) \in Seq(Column)
         /\ w.type \in {"INNER_JOIN", "LEFT_OUTER_JOIN"} =>
              \A f \in Range(EqualOf(w)) : SameText(f)
         /\ w.type = "INNER_JOIN" =>
              \A k \in DOMAIN RightKeysOf(w) : Type[RightKeysOf(w)[k]] # "date"
         /\ w.type = "LEFT_OUTER_JOIN" =>
              \A k \in DOMAIN LeftKeysOf(w) : Type[LeftKeysOf(w)[k]] # "date"
<1> DEFINE E == EqualOf(w)
           n == Len(E)
<1>1. w.filtering \in Seq(Filter)
  BY WorkFacts
<1>2. E \in Seq(Filter) /\ Range(E) = {f \in Range(w.filtering) : f.op = "EQ"}
  BY <1>1, KeptIs DEF EqualOf
<1> HIDE DEF E
<1>3. n \in Nat /\ DOMAIN E = 1..n
  BY <1>2
<1>4. \A k \in 1..n : E[k] \in Filter /\ E[k] \in Range(E)
  BY <1>2, <1>3 DEF Range
<1>5. \A k \in 1..n : E[k].lv \in Column /\ E[k].rv \in Column
  BY <1>4, FilterFacts
<1> HIDE DEF n
<1>6. LeftKeysOf(w) = [k \in 1..n |-> E[k].lv] /\ RightKeysOf(w) = [k \in 1..n |-> E[k].rv]
  BY <1>3 DEF LeftKeysOf, RightKeysOf, E
<1>7. LeftKeysOf(w) \in [1..n -> Column] /\ RightKeysOf(w) \in [1..n -> Column]
  BY <1>5, <1>6
<1>8. LeftKeysOf(w) \in Seq(Column) /\ RightKeysOf(w) \in Seq(Column)
  BY <1>3, <1>7, SeqDef
<1>9. w.type \in {"INNER_JOIN", "LEFT_OUTER_JOIN"} => \A f \in Range(E) : SameText(f)
  BY <1>2 DEF Sound
<1>10. w.type = "INNER_JOIN" => \A k \in 1..n : Type[E[k].rv] # "date"
  BY <1>2, <1>4 DEF Sound
<1>11. w.type = "LEFT_OUTER_JOIN" => \A k \in 1..n : Type[E[k].lv] # "date"
  BY <1>2, <1>4 DEF Sound
<1>12. QED
  BY <1>2, <1>6, <1>8, <1>9, <1>10, <1>11 DEF E

\* A row of the right table gets the rows of the left one that match.
LEMMA InnerRow ==
  ASSUME Typed, Sound(work, right), work.type = "INNER_JOIN",
         hash_table = WholeOf(work, left, right), NEW j \in DOMAIN right
  PROVE  LET hits == Hits(hash_table, ProbeKey(right[j], RightKeys))
             passed == Kept(hits, {i \in DOMAIN left : PassesNonEqual(left[i], right[j])})
             q == [k \in DOMAIN passed |-> <<passed[k], j>>]
         IN  /\ q \in Seq(LineageOf)
             /\ IsInjective(q)
             /\ Range(q) = RowsOf(work, left, right, j)
<1> DEFINE hits == Hits(hash_table, ProbeKey(right[j], RightKeys))
           P == {i \in DOMAIN left : PassesNonEqual(left[i], right[j])}
           passed == Kept(hits, P)
           q == [k \in DOMAIN passed |-> <<passed[k], j>>]
           E == EqualOf(work)
<1>1. /\ E \in Seq(Filter) /\ RightKeysOf(work) \in Seq(Column)
      /\ \A f \in Range(E) : SameText(f)
      /\ \A k \in DOMAIN RightKeysOf(work) : Type[RightKeysOf(work)[k]] # "date"
  BY EqualFacts DEF Typed
<1>2. ProbeKey(right[j], RightKeys) = KeyOf(right[j], RightKeysOf(work))
  BY <1>1, ProbeKeyIs, EqualFiltersIs
<1>3. hash_table = HashTable(left, LeftKeysOf(work))
  BY DEF WholeOf
<1>4. left \in Seq(LeftRow)
  BY DEF Typed
<1>5. /\ hits \in Seq(Nat) /\ IsInjective(hits)
      /\ Range(hits) = {i \in DOMAIN left :
                          KeyOf(left[i], LeftKeysOf(work)) = KeyOf(right[j], RightKeysOf(work))}
  BY <1>2, <1>3, <1>4, HitsAre
<1>6. \A i \in DOMAIN left :
        KeyOf(left[i], LeftKeysOf(work)) = KeyOf(right[j], RightKeysOf(work))
          <=> \A f \in Range(E) : left[i][f.lv] = right[j][f.rv]
  BY <1>1, SameKey DEF LeftKeysOf, RightKeysOf
<1> HIDE DEF hits, P, E
<1>7. passed \in Seq(Nat) /\ IsInjective(passed) /\ Range(passed) = Range(hits) \cap P
  BY <1>5, KeptIs
<1>8. Range(passed) = {x \in DOMAIN left : Pass(work, left[x], right[j])}
  BY <1>5, <1>6, <1>7, InnerCondition DEF P, E
<1>9. j \in Nat
  BY DEF Typed
<1> HIDE DEF passed
<1>10. q \in Seq(LineageOf) /\ Range(q) = {<<i, j>> : i \in Range(passed)} /\ IsInjective(q)
  BY <1>7, <1>9, PairedRight
<1>11. RowsOf(work, left, right, j) = {<<i, j>> : i \in Range(passed)}
  BY <1>8 DEF RowsOf, InnerOf
<1>12. QED
  BY <1>10, <1>11 DEF q, passed, P, hits

\* InnerJoin_hash with an equal filter makes of a batch the pairs that match.
LEMMA InnerHashAdds ==
  ASSUME Typed, Sound(work, right), work.type = "INNER_JOIN",
         hash_table = WholeOf(work, left, right),
         NEW n \in Nat, row_index <= n, n <= Len(right)
  PROVE  /\ InnerJoinHash(n) \in Seq(LineageOf)
         /\ IsInjective(InnerJoinHash(n))
         /\ Range(InnerJoinHash(n)) = RowsOfAll(work, left, right, (row_index + 1)..n)
<1> DEFINE ofRow(j) == LET hits == Hits(hash_table, ProbeKey(right[j], RightKeys))
                           passed == Kept(hits, {i \in DOMAIN left : PassesNonEqual(left[i], right[j])})
                       IN  [k \in DOMAIN passed |-> <<passed[k], j>>]
           K == (row_index + 1)..n
           of == [r \in K |-> ofRow(r)]
<1>1. InnerJoinHash(n) = FlattenSeq([k \in DOMAIN Batch(n) |-> ofRow(Batch(n)[k])])
  BY DEF InnerJoinHash
<1>2. ~ FromLeft(work) /\ n <= Len(StreamOf(work, left, right))
  BY DEF FromLeft, StreamOf
<1>3. row_index \in 0..n /\ \A r \in K : r \in DOMAIN right
  BY <1>2, InTheTable
<1>4. \A r \in K : ofRow(r) \in Seq(LineageOf) /\ IsInjective(ofRow(r))
                   /\ Range(ofRow(r)) = RowsOf(work, left, right, r)
  BY <1>3, InnerRow
<1> HIDE DEF ofRow
<1>5. of \in [K -> Seq(LineageOf)] /\ \A r \in K : of[r] = ofRow(r)
  BY <1>4
<1>6. \A k \in DOMAIN Batch(n) : Batch(n)[k] \in K
  BY <1>3, BatchIs DEF Range
<1>7. [k \in DOMAIN Batch(n) |-> ofRow(Batch(n)[k])] = [k \in DOMAIN Batch(n) |-> of[Batch(n)[k]]]
  BY <1>5, <1>6
<1>8. SoundType(work)
  BY DEF Sound
<1> HIDE DEF of
<1>9. InnerJoinHash(n) = FlattenSeq([k \in DOMAIN Batch(n) |-> of[Batch(n)[k]]])
  BY <1>1, <1>7
<1>10. \A r \in K : IsInjective(of[r]) /\ Range(of[r]) = RowsOf(work, left, right, r)
  BY <1>4, <1>5
<1>11. QED
  BY <1>3, <1>5, <1>8, <1>9, <1>10, Rounds

\* Without an equal filter every pair is tried, again and again.
LEMMA NestedLoopAdds ==
  ASSUME Typed, Sound(work, right), Nested(work),
         NEW n \in Nat, n <= Len(right)
  PROVE  /\ InnerJoinNestedLoop(n) \in Seq(LineageOf)
         /\ Range(InnerJoinNestedLoop(n)) = RowsOfAll(work, left, right, 1..n)
<1> DEFINE J(i) == {j \in 1..n : PassesNonEqual(left[i], right[j])}
           ofRow(i) == LET passed == Ascending({j \in 1..n : PassesNonEqual(left[i], right[j])})
                       IN  [k \in DOMAIN passed |-> <<i, passed[k]>>]
           m == Len(left)
           ss == [i \in DOMAIN left |-> ofRow(i)]
<1>0. work.type = "INNER_JOIN" /\ EqualOf(work) = <<>>
  BY DEF Nested
<1>1. InnerJoinNestedLoop(n) = FlattenSeq(ss)
  BY DEF InnerJoinNestedLoop
<1>2. m \in Nat /\ DOMAIN left = 1..m
  BY DEF Typed
<1>3. ASSUME NEW i \in 1..m
      PROVE  ofRow(i) \in Seq(LineageOf) /\ Range(ofRow(i)) = {<<i, j>> : j \in J(i)}
  <2>1. J(i) \in SUBSET Nat /\ IsFiniteSet(J(i))
    <3>1. IsFiniteSet(1..n) /\ J(i) \subseteq 1..n
      BY FS_Interval
    <3>2. QED
      BY <3>1, FS_Subset
  <2> HIDE DEF J
  <2>2. Ascending(J(i)) \in Seq(J(i)) /\ Range(Ascending(J(i))) = J(i)
    BY <2>1, AscendingIs
  <2>3. Ascending(J(i)) \in Seq(Nat)
    BY <2>1, <2>2, SeqMonotonic
  <2>4. ofRow(i) = [k \in DOMAIN Ascending(J(i)) |-> <<i, Ascending(J(i))[k]>>]
    BY DEF J
  <2>5. i \in Nat
    BY <1>2
  <2> HIDE DEF ofRow
  <2>6. QED
    BY <2>2, <2>3, <2>4, <2>5, PairedLeft
<1> HIDE DEF ofRow, m
<1>4. ss \in [1..m -> Seq(LineageOf)] /\ \A i \in 1..m : ss[i] = ofRow(i)
  BY <1>2, <1>3
<1> HIDE DEF ss
<1>5. ss \in Seq(Seq(LineageOf)) /\ Len(ss) = m
  BY <1>2, <1>4, SeqDef
<1>6. FlattenSeq(ss) \in Seq(LineageOf) /\ Range(FlattenSeq(ss)) = UNION {Range(ss[k]) : k \in 1..m}
  BY <1>5, FlattenIs
<1>7. Range(EqualOf(work)) = {}
  BY <1>0 DEF Range
<1>8. \A i \in 1..m, j \in 1..n : PassesNonEqual(left[i], right[j]) <=> Pass(work, left[i], right[j])
  BY <1>0, <1>7, InnerCondition
<1>9. RowsOfAll(work, left, right, 1..n) = UNION {InnerOf(work, left, right, j) : j \in 1..n}
  BY <1>0 DEF RowsOfAll, RowsOf
<1>10. ASSUME NEW p, p \in UNION {Range(ss[k]) : k \in 1..m}
       PROVE  p \in UNION {InnerOf(work, left, right, j) : j \in 1..n}
  <2>1. PICK i \in 1..m : p \in Range(ss[i])
    BY <1>10
  <2>2. PICK j \in 1..n : p = <<i, j>> /\ PassesNonEqual(left[i], right[j])
    BY <2>1, <1>3, <1>4
  <2>3. p \in InnerOf(work, left, right, j)
    BY <1>2, <1>8, <2>2 DEF InnerOf
  <2>4. QED
    BY <2>3
<1>11. ASSUME NEW p, p \in UNION {InnerOf(work, left, right, j) : j \in 1..n}
       PROVE  p \in UNION {Range(ss[k]) : k \in 1..m}
  <2>1. PICK j \in 1..n : p \in InnerOf(work, left, right, j)
    BY <1>11
  <2>2. PICK i \in 1..m : p = <<i, j>> /\ Pass(work, left[i], right[j])
    BY <1>2, <2>1 DEF InnerOf
  <2>3. p \in Range(ss[i])
    BY <1>3, <1>4, <1>8, <2>2
  <2>4. QED
    BY <2>3
<1>12. QED
  BY <1>1, <1>6, <1>9, <1>10, <1>11
------------------------------------------------------------------------------
(* Outer joins.                                                                *)

\* In an outer join the equal filters are all there are.
LEMMA LeftCondition ==
  ASSUME Typed, Sound(work, right), work.type \in {"LEFT_OUTER_JOIN", "RIGHT_OUTER_JOIN"}, NEW l, NEW r
  PROVE  Pass(work, l, r) <=> \A f \in Range(EqualOf(work)) : l[f.lv] = r[f.rv]
<1>1. work.filtering \in Seq(Filter)
  BY WorkFacts DEF Typed
<1>2. Range(EqualOf(work)) = {f \in Range(work.filtering) : f.op = "EQ"}
  BY <1>1, KeptIs DEF EqualOf
<1>3. \A f \in Range(work.filtering) : f.op = "EQ"
  BY DEF Sound
<1>4. ASSUME NEW f \in Range(work.filtering) PROVE Compare(f.op, l[f.lv], r[f.rv]) <=> l[f.lv] = r[f.rv]
  BY <1>3 DEF Compare
<1>5. QED
  BY <1>2, <1>3, <1>4 DEF Pass

\* A sequence of one.
LEMMA OneRow ==
  ASSUME NEW x \in LineageOf
  PROVE  <<x>> \in Seq(LineageOf) /\ IsInjective(<<x>>) /\ Range(<<x>>) = {x}
<1>1. DOMAIN <<x>> = 1..1 /\ <<x>>[1] = x
  OBVIOUS
<1>2. \A i \in 1..1 : i = 1
  OBVIOUS
<1>3. QED
  BY <1>1, <1>2 DEF IsInjective, Range

\* A row of the left table gets the rows of the right one that match, or none.
LEMMA LeftRow1 ==
  ASSUME Typed, Sound(work, right), work.type = "LEFT_OUTER_JOIN",
         hash_table = WholeOf(work, left, right), NEW i \in DOMAIN left
  PROVE  LET hits == Hits(hash_table, ProbeKey(left[i], LeftKeys))
             q == IF hits = <<>> THEN <<<<i, 0>>>> ELSE [k \in DOMAIN hits |-> <<i, hits[k]>>]
         IN  /\ q \in Seq(LineageOf)
             /\ IsInjective(q)
             /\ Range(q) = RowsOf(work, left, right, i)
<1> DEFINE hits == Hits(hash_table, ProbeKey(left[i], LeftKeys))
           q == [k \in DOMAIN hits |-> <<i, hits[k]>>]
           E == EqualOf(work)
           J == {j \in DOMAIN right : Pass(work, left[i], right[j])}
<1>1. /\ E \in Seq(Filter) /\ LeftKeysOf(work) \in Seq(Column)
      /\ \A f \in Range(E) : SameText(f)
      /\ \A k \in DOMAIN LeftKeysOf(work) : Type[LeftKeysOf(work)[k]] # "date"
  BY EqualFacts DEF Typed
<1>2. ProbeKey(left[i], LeftKeys) = KeyOf(left[i], LeftKeysOf(work))
  BY <1>1, ProbeKeyIs, EqualFiltersIs
<1>3. hash_table = HashTable(right, RightKeysOf(work))
  BY DEF WholeOf
<1>4. right \in Seq(RightRow)
  BY DEF Typed
<1>5. /\ hits \in Seq(Nat) /\ IsInjective(hits)
      /\ Range(hits) = {j \in DOMAIN right :
                          KeyOf(right[j], RightKeysOf(work)) = KeyOf(left[i], LeftKeysOf(work))}
  BY <1>2, <1>3, <1>4, HitsAre
<1>6. \A j \in DOMAIN right :
        KeyOf(right[j], RightKeysOf(work)) = KeyOf(left[i], LeftKeysOf(work))
          <=> \A f \in Range(E) : left[i][f.lv] = right[j][f.rv]
  BY <1>1, SameKey DEF LeftKeysOf, RightKeysOf
<1> HIDE DEF hits, E
<1>7. Range(hits) = J
  BY <1>5, <1>6, LeftCondition DEF E
<1>8. i \in Nat
  BY DEF Typed
<1>9. RowsOf(work, left, right, i) = IF J = {} THEN {<<i, 0>>} ELSE {<<i, j>> : j \in J}
  BY DEF RowsOf, LeftOf
<1> HIDE DEF J
<1>10. hits = <<>> <=> J = {}
  <2>1. hits = <<>> => Range(hits) = {}
    BY DEF Range
  <2>2. hits # <<>> => 1 \in DOMAIN hits
    BY <1>5, EmptySeq
  <2>3. QED
    BY <1>7, <2>1, <2>2 DEF Range
<1>11. CASE hits = <<>>
  <2>1. <<i, 0>> \in LineageOf
    BY <1>8 DEF LineageOf
  <2>2. QED
    BY <1>9, <1>10, <1>11, <2>1, OneRow DEF hits
<1>12. CASE hits # <<>>
  <2>1. q \in Seq(LineageOf) /\ Range(q) = {<<i, j>> : j \in Range(hits)} /\ IsInjective(q)
    BY <1>5, <1>8, PairedLeft
  <2> HIDE DEF q
  <2>2. Range(q) = RowsOf(work, left, right, i)
    BY <1>7, <1>9, <1>10, <1>12, <2>1
  <2>3. QED
    BY <1>12, <2>1, <2>2 DEF q, hits
<1>13. QED
  BY <1>11, <1>12

\* LeftOuterJoin_hash makes of a batch the pairs that match and the rows alone.
LEMMA LeftOuterAdds ==
  ASSUME Typed, Sound(work, right), work.type = "LEFT_OUTER_JOIN",
         hash_table = WholeOf(work, left, right),
         NEW n \in Nat, row_index <= n, n <= Len(left)
  PROVE  /\ LeftOuterJoinHash(n) \in Seq(LineageOf)
         /\ IsInjective(LeftOuterJoinHash(n))
         /\ Range(LeftOuterJoinHash(n)) = RowsOfAll(work, left, right, (row_index + 1)..n)
<1> DEFINE ofRow(i) == LET hits == Hits(hash_table, ProbeKey(left[i], LeftKeys))
                       IN  IF hits = <<>> THEN <<<<i, 0>>>>
                           ELSE [k \in DOMAIN hits |-> <<i, hits[k]>>]
           K == (row_index + 1)..n
           of == [r \in K |-> ofRow(r)]
<1>1. LeftOuterJoinHash(n) = FlattenSeq([k \in DOMAIN Batch(n) |-> ofRow(Batch(n)[k])])
  BY DEF LeftOuterJoinHash
<1>2. FromLeft(work) /\ n <= Len(StreamOf(work, left, right))
  BY DEF FromLeft, StreamOf
<1>3. row_index \in 0..n /\ \A r \in K : r \in DOMAIN left
  BY <1>2, InTheTable
<1>4. \A r \in K : ofRow(r) \in Seq(LineageOf) /\ IsInjective(ofRow(r))
                   /\ Range(ofRow(r)) = RowsOf(work, left, right, r)
  BY <1>3, LeftRow1
<1> HIDE DEF ofRow
<1>5. of \in [K -> Seq(LineageOf)] /\ \A r \in K : of[r] = ofRow(r)
  BY <1>4
<1>6. \A k \in DOMAIN Batch(n) : Batch(n)[k] \in K
  BY <1>3, BatchIs DEF Range
<1>7. [k \in DOMAIN Batch(n) |-> ofRow(Batch(n)[k])] = [k \in DOMAIN Batch(n) |-> of[Batch(n)[k]]]
  BY <1>5, <1>6
<1>8. SoundType(work)
  BY DEF Sound
<1> HIDE DEF of
<1>9. LeftOuterJoinHash(n) = FlattenSeq([k \in DOMAIN Batch(n) |-> of[Batch(n)[k]]])
  BY <1>1, <1>7
<1>10. \A r \in K : IsInjective(of[r]) /\ Range(of[r]) = RowsOf(work, left, right, r)
  BY <1>4, <1>5
<1>11. QED
  BY <1>3, <1>5, <1>8, <1>9, <1>10, Rounds

\* Without a filter a row of the right table gets every row of the left one.
LEMMA RightRow1 ==
  ASSUME Typed, Sound(work, right), work.type = "RIGHT_OUTER_JOIN", EqualOf(work) = <<>>,
         hash_table = WholeOf(work, left, right), NEW j \in DOMAIN right
  PROVE  LET hits == Hits(hash_table, <<>>)
             q == IF hits = <<>> THEN <<<<0, j>>>> ELSE [k \in DOMAIN hits |-> <<hits[k], j>>]
         IN  /\ q \in Seq(LineageOf)
             /\ IsInjective(q)
             /\ Range(q) = RowsOf(work, left, right, j)
<1> DEFINE hits == Hits(hash_table, <<>>)
           q == [k \in DOMAIN hits |-> <<hits[k], j>>]
           I == {i \in DOMAIN left : Pass(work, left[i], right[j])}
<1>1. LeftKeysOf(work) = <<>> /\ \A row : KeyOf(row, <<>>) = <<>>
  BY DEF LeftKeysOf, KeyOf
<1>2. hash_table = HashTable(left, <<>>)
  BY <1>1 DEF WholeOf
<1>3. left \in Seq(LeftRow)
  BY DEF Typed
<1>4. /\ hits \in Seq(Nat) /\ IsInjective(hits)
      /\ Range(hits) = {i \in DOMAIN left : KeyOf(left[i], <<>>) = <<>>}
  BY <1>2, <1>3, HitsAre
<1> HIDE DEF hits
<1>5. \A i \in DOMAIN left : Pass(work, left[i], right[j])
  <2>1. Range(EqualOf(work)) = {}
    BY DEF Range
  <2>2. QED
    BY <2>1, LeftCondition
<1>6. Range(hits) = I
  BY <1>1, <1>4, <1>5
<1>7. j \in Nat
  BY DEF Typed
<1>8. RowsOf(work, left, right, j) = IF I = {} THEN {<<0, j>>} ELSE {<<i, j>> : i \in I}
  BY DEF RowsOf, RightOf
<1> HIDE DEF I
<1>9. hits = <<>> <=> I = {}
  <2>1. hits = <<>> => Range(hits) = {}
    BY DEF Range
  <2>2. hits # <<>> => 1 \in DOMAIN hits
    BY <1>4, EmptySeq
  <2>3. QED
    BY <1>6, <2>1, <2>2 DEF Range
<1>10. CASE hits = <<>>
  <2>1. <<0, j>> \in LineageOf
    BY <1>7 DEF LineageOf
  <2>2. QED
    BY <1>8, <1>9, <1>10, <2>1, OneRow DEF hits
<1>11. CASE hits # <<>>
  <2>1. q \in Seq(LineageOf) /\ Range(q) = {<<i, j>> : i \in Range(hits)} /\ IsInjective(q)
    BY <1>4, <1>7, PairedRight
  <2> HIDE DEF q
  <2>2. Range(q) = RowsOf(work, left, right, j)
    BY <1>6, <1>8, <1>9, <1>11, <2>1
  <2>3. QED
    BY <1>11, <2>1, <2>2 DEF q, hits
<1>12. QED
  BY <1>10, <1>11

\* RightOuterJoin_hash does so for a batch.
LEMMA RightOuterAdds ==
  ASSUME Typed, Sound(work, right), work.type = "RIGHT_OUTER_JOIN", EqualOf(work) = <<>>,
         hash_table = WholeOf(work, left, right),
         NEW n \in Nat, row_index <= n, n <= Len(right)
  PROVE  /\ RightOuterJoinHash(n) \in Seq(LineageOf)
         /\ IsInjective(RightOuterJoinHash(n))
         /\ Range(RightOuterJoinHash(n)) = RowsOfAll(work, left, right, (row_index + 1)..n)
<1> DEFINE ofRow(j) == LET hits == Hits(hash_table, <<>>)
                       IN  IF hits = <<>> THEN <<<<0, j>>>>
                           ELSE [k \in DOMAIN hits |-> <<hits[k], j>>]
           K == (row_index + 1)..n
           of == [r \in K |-> ofRow(r)]
<1>1. RightOuterJoinHash(n) = FlattenSeq([k \in DOMAIN Batch(n) |-> ofRow(Batch(n)[k])])
  BY DEF RightOuterJoinHash
<1>2. ~ FromLeft(work) /\ n <= Len(StreamOf(work, left, right))
  BY DEF FromLeft, StreamOf
<1>3. row_index \in 0..n /\ \A r \in K : r \in DOMAIN right
  BY <1>2, InTheTable
<1>4. \A r \in K : ofRow(r) \in Seq(LineageOf) /\ IsInjective(ofRow(r))
                   /\ Range(ofRow(r)) = RowsOf(work, left, right, r)
  BY <1>3, RightRow1
<1> HIDE DEF ofRow
<1>5. of \in [K -> Seq(LineageOf)] /\ \A r \in K : of[r] = ofRow(r)
  BY <1>4
<1>6. \A k \in DOMAIN Batch(n) : Batch(n)[k] \in K
  BY <1>3, BatchIs DEF Range
<1>7. [k \in DOMAIN Batch(n) |-> ofRow(Batch(n)[k])] = [k \in DOMAIN Batch(n) |-> of[Batch(n)[k]]]
  BY <1>5, <1>6
<1>8. SoundType(work)
  BY DEF Sound
<1> HIDE DEF of
<1>9. RightOuterJoinHash(n) = FlattenSeq([k \in DOMAIN Batch(n) |-> of[Batch(n)[k]]])
  BY <1>1, <1>7
<1>10. \A r \in K : IsInjective(of[r]) /\ Range(of[r]) = RowsOf(work, left, right, r)
  BY <1>4, <1>5
<1>11. QED
  BY <1>3, <1>5, <1>8, <1>9, <1>10, Rounds

------------------------------------------------------------------------------
(* UNION ALL, and the works that keep rows of the left table.                  *)

\* Union appends the rows of the batch.
LEMMA UnionAdds ==
  ASSUME Typed, work.type = "UNION",
         NEW n \in Nat, row_index <= n, n <= Len(right)
  PROVE  /\ UnionAll(n) \in Seq(LineageOf)
         /\ IsInjective(UnionAll(n))
         /\ Range(UnionAll(n)) = RowsOfAll(work, left, right, (row_index + 1)..n)
<1>1. ~ FromLeft(work) /\ n <= Len(StreamOf(work, left, right))
  BY DEF FromLeft, StreamOf
<1>2. row_index \in 0..n
  BY <1>1, InTheTable
<1>3. /\ Batch(n) \in Seq(Nat) /\ IsInjective(Batch(n)) /\ Range(Batch(n)) = (row_index + 1)..n
  BY <1>2, BatchIs
<1>4. /\ UnionAll(n) \in Seq(LineageOf) /\ IsInjective(UnionAll(n))
      /\ Range(UnionAll(n)) = {<<0, j>> : j \in (row_index + 1)..n}
  BY <1>3, PairedLeft DEF UnionAll
<1>5. RowsOfAll(work, left, right, (row_index + 1)..n) = UNION {{<<0, j>>} : j \in (row_index + 1)..n}
  BY DEF RowsOfAll, RowsOf
<1>6. QED
  BY <1>4, <1>5

\* The rows of the batch that stay, next to nothing.
LEMMA LeftRowsAdds ==
  ASSUME Typed, work.type \in {"IN", "DEPENDENCY_EXIST", "DEPENDENCY_INNER_JOIN"},
         NEW n \in Nat, row_index <= n, n <= Len(left), NEW S,
         \A i \in (row_index + 1)..n : i \in S <=> Stays(work, left, right, i)
  PROVE  /\ LeftRows(n, S) \in Seq(LineageOf)
         /\ IsInjective(LeftRows(n, S))
         /\ Range(LeftRows(n, S)) = RowsOfAll(work, left, right, (row_index + 1)..n)
<1> DEFINE K == (row_index + 1)..n
<1>1. FromLeft(work) /\ n <= Len(StreamOf(work, left, right))
  BY DEF FromLeft, StreamOf
<1>2. row_index \in 0..n
  BY <1>1, InTheTable
<1>3. Batch(n) \in Seq(Nat) /\ IsInjective(Batch(n)) /\ Range(Batch(n)) = K
  BY <1>2, BatchIs
<1>4. /\ Kept(Batch(n), S) \in Seq(Nat) /\ IsInjective(Kept(Batch(n), S))
      /\ Range(Kept(Batch(n), S)) = K \cap S
  BY <1>3, KeptIs
<1> HIDE DEF K
<1>5. /\ LeftRows(n, S) \in Seq(LineageOf) /\ IsInjective(LeftRows(n, S))
      /\ Range(LeftRows(n, S)) = {<<i, 0>> : i \in K \cap S}
  BY <1>4, PairedRight DEF LeftRows
<1>6. \A i : RowsOf(work, left, right, i) = IF Stays(work, left, right, i) THEN {<<i, 0>>} ELSE {}
  BY DEF RowsOf
<1>7. RowsOfAll(work, left, right, K) = {<<i, 0>> : i \in K \cap S}
  <2>1. ASSUME NEW p \in RowsOfAll(work, left, right, K) PROVE p \in {<<i, 0>> : i \in K \cap S}
    <3>1. PICK i \in K : p \in RowsOf(work, left, right, i)
      BY DEF RowsOfAll
    <3>2. p = <<i, 0>> /\ Stays(work, left, right, i)
      BY <1>6, <3>1
    <3>3. QED
      BY <3>2 DEF K
  <2>2. ASSUME NEW i \in K \cap S PROVE <<i, 0>> \in RowsOfAll(work, left, right, K)
    <3>1. <<i, 0>> \in RowsOf(work, left, right, i)
      BY <1>6 DEF K
    <3>2. QED
      BY <3>1 DEF RowsOfAll
  <2>3. QED
    BY <2>1, <2>2
<1>8. QED
  BY <1>5, <1>7 DEF K

\* In keeps the rows of the batch whose value is, or is not, among the right ones.
LEMMA InAdds ==
  ASSUME Typed, Sound(work, right), work.type = "IN",
         hash_table = WholeOf(work, left, right),
         NEW n \in Nat, row_index <= n, n <= Len(left)
  PROVE  /\ In(n) \in Seq(LineageOf)
         /\ IsInjective(In(n))
         /\ Range(In(n)) = RowsOfAll(work, left, right, (row_index + 1)..n)
<1> DEFINE f == work.filtering[1]
           found(i) == Hits(hash_table, ProbeKey(left[i], <<f.lv>>)) # <<>>
           S == {i \in 1..n : found(i) # (f.op = "NOTIN")}
           K == (row_index + 1)..n
<1>1. work \in Work /\ work.filtering # <<>> /\ work.filtering \in Seq(Filter) /\ f.op \in {"IN", "NOTIN"}
  BY WorkAssumption DEF Typed
<1>2. f \in Range(work.filtering) /\ f \in Filter
  <2>1. 1 \in DOMAIN work.filtering
    BY <1>1, EmptySeq
  <2>2. QED
    BY <1>1, <2>1 DEF Range
<1>3. f.lv \in Column /\ Type[f.lv] # "date" /\ SameText(f)
  BY <1>1, <1>2, FilterFacts DEF Sound
<1>4. hash_table = HashTable(right, <<f.rv>>)
  BY DEF WholeOf
<1> HIDE DEF f
<1>5. \A row : ProbeKey(row, <<f.lv>>) = KeyOf(row, <<f.lv>>)
  <2>1. <<f.lv>> \in Seq(Column) /\ \A k \in DOMAIN <<f.lv>> : Type[<<f.lv>>[k]] # "date"
    BY <1>3
  <2>2. QED
    BY <2>1, ProbeKeyIs
<1>6. \A l, r : KeyOf(r, <<f.rv>>) = KeyOf(l, <<f.lv>>) <=> l[f.lv] = r[f.rv]
  <2> SUFFICES ASSUME NEW l, NEW r
               PROVE  KeyOf(r, <<f.rv>>) = KeyOf(l, <<f.lv>>) <=> l[f.lv] = r[f.rv]
    OBVIOUS
  <2>1. KeyOf(r, <<f.rv>>) = [k \in 1..1 |-> Text(f.rv, r[f.rv])]
    BY DEF KeyOf
  <2>2. KeyOf(l, <<f.lv>>) = [k \in 1..1 |-> Text(f.lv, l[f.lv])]
    BY DEF KeyOf
  <2>3. KeyOf(r, <<f.rv>>) = KeyOf(l, <<f.lv>>) <=> Text(f.rv, r[f.rv]) = Text(f.lv, l[f.lv])
    <3>1. 1 \in 1..1
      OBVIOUS
    <3>2. QED
      BY <2>1, <2>2, <3>1
  <2>4. QED
    BY <1>3, <2>3, TextIs DEF SameText
<1>7. FromLeft(work) /\ n <= Len(StreamOf(work, left, right))
  BY DEF FromLeft, StreamOf
<1>8. \A i \in K : i \in DOMAIN left /\ i \in 1..n
  BY <1>7, InTheTable
<1>9. ASSUME NEW i \in K PROVE i \in S <=> Stays(work, left, right, i)
  <2>1. right \in Seq(RightRow)
    BY DEF Typed
  <2> DEFINE hits == Hits(hash_table, ProbeKey(left[i], <<f.lv>>))
  <2>2. /\ hits \in Seq(Nat)
        /\ Range(hits) = {j \in DOMAIN right : KeyOf(right[j], <<f.rv>>) = KeyOf(left[i], <<f.lv>>)}
    <3>1. hits = Hits(HashTable(right, <<f.rv>>), KeyOf(left[i], <<f.lv>>))
      BY <1>4, <1>5
    <3> HIDE DEF hits
    <3>2. QED
      BY <2>1, <3>1, HitsAre
  <2> HIDE DEF hits
  <2>3. Range(hits) = {j \in DOMAIN right : left[i][f.lv] = right[j][f.rv]}
    BY <1>6, <2>2
  <2>4. hits # <<>> <=> Range(hits) # {}
    <3>1. hits = <<>> => Range(hits) = {}
      BY DEF Range
    <3>2. hits # <<>> => 1 \in DOMAIN hits
      BY <2>2, EmptySeq
    <3>3. QED
      BY <3>1, <3>2 DEF Range
  <2>5. found(i) <=> \E j \in DOMAIN right : left[i][f.lv] = right[j][f.rv]
    BY <2>3, <2>4 DEF hits
  <2>6. StaysIn(work, left[i], right) <=>
          ((\E j \in DOMAIN right : left[i][f.lv] = right[j][f.rv]) <=> f.op = "IN")
    BY DEF StaysIn, f
  <2>7. Stays(work, left, right, i) <=> StaysIn(work, left[i], right)
    BY DEF Stays
  <2> HIDE DEF found
  <2>8. i \in S <=> ~ (found(i) <=> f.op = "NOTIN")
    BY <1>8 DEF found
  <2>9. f.op = "IN" <=> ~ (f.op = "NOTIN")
    BY <1>1 DEF f
  <2>10. QED
    BY <2>5, <2>6, <2>7, <2>8, <2>9
<1>10. In(n) = LeftRows(n, S)
  BY DEF In, f
<1> HIDE DEF S
<1>11. QED
  BY <1>9, <1>10, LeftRowsAdds
------------------------------------------------------------------------------
(* Subqueries that depend on the row.                                          *)

\* The filters of a subquery, one after the other until one fails, come to whether
\* all hold, if none reads a column that is not there.
LEMMA DependencyIs ==
  ASSUME Typed, Sound(work, right), work.dependency # <<>>,
         NEW l, NEW r, NEW passed
  PROVE  LET d == Dependencies(l, r, passed)
         IN  /\ d \in {"yes", "no", "undefined"}
             /\ d = "yes" => Dep(work, l, r)
             /\ d = "no" => ~ Dep(work, l, r)
<1> DEFINE s == work.dependency
           D(k) == Dependency(s[k], l, r)
           n == Len(s)
           ends == {k \in DOMAIN s : PassedAfter(l, r, passed, k) \in {"no", "undefined"}}
<1>1. s \in Seq(Filter)
  BY WorkFacts DEF Typed
<1>2. n \in Nat /\ n # 0 /\ DOMAIN s = 1..n
  BY <1>1, EmptySeq
<1>3. \A f \in Range(s) : Type[f.lv] # "date"
  BY DEF Sound
<1>4. ASSUME NEW k \in 1..n
      PROVE  /\ D(k) \in {"yes", "no", "undefined"}
             /\ D(k) = "yes" => Compare(s[k].op, l[s[k].lv], r[s[k].rv])
             /\ D(k) = "no" => ~ Compare(s[k].op, l[s[k].lv], r[s[k].rv])
  <2>1. s[k] \in Range(s)
    BY <1>2 DEF Range
  <2>2. Type[s[k].lv] # "date"
    BY <1>3, <2>1
  <2>3. QED
    BY <2>2 DEF Dependency
<1> HIDE DEF n
<1>5. ASSUME NEW k \in 1..n PROVE PassedAfter(l, r, passed, k) = D(k)
  <2> DEFINE told == {h \in 1..k : Dependency(work.dependency[h], l, r) # "keep"}
  <2>1. k \in Nat /\ k # 0 /\ \A h \in 1..k : h \in 1..n
    BY <1>2
  <2>2. told = 1..k
    BY <1>4, <2>1
  <2>3. IsFiniteSet(1..k) /\ 1..k \subseteq Int /\ 1..k # {} /\ k \in 1..k
    <3>1. IsFiniteSet(1..k)
      BY <2>1, FS_Interval
    <3>2. k \in 1..k
      BY <2>1
    <3>3. QED
      BY <2>1, <3>1, <3>2
  <2>4. Max(1..k) \in 1..k /\ Max(1..k) >= k
    BY <2>3, MaxIs
  <2>5. Max(1..k) = k
    BY <2>1, <2>4
  <2> HIDE DEF told
  <2>6. Max(told) = k /\ told # {}
    BY <2>2, <2>3, <2>5
  <2>7. QED
    BY <2>6 DEF PassedAfter, told
<1> HIDE DEF D
<1>6. ends = {k \in 1..n : D(k) \in {"no", "undefined"}}
  BY <1>2, <1>5
<1>7. Dep(work, l, r) <=> \A k \in 1..n : Compare(s[k].op, l[s[k].lv], r[s[k].rv])
  BY <1>2 DEF Dep, Range
<1>8. Dependencies(l, r, passed) = PassedAfter(l, r, passed, IF ends = {} THEN n ELSE Min(ends))
  BY DEF Dependencies, n
<1> HIDE DEF ends
<1>9. CASE ends = {}
  <2>1. \A k \in 1..n : D(k) = "yes"
    BY <1>4, <1>6, <1>9
  <2>2. Dep(work, l, r)
    BY <1>4, <1>7, <2>1
  <2>3. n \in 1..n
    BY <1>2
  <2>4. Dependencies(l, r, passed) = D(n)
    BY <1>5, <1>8, <1>9, <2>3
  <2>5. QED
    BY <2>1, <2>2, <2>3, <2>4
<1>10. CASE ends # {}
  <2>1. IsFiniteSet(ends) /\ ends \subseteq Int
    <3>1. IsFiniteSet(1..n) /\ ends \subseteq 1..n /\ 1..n \subseteq Int
      BY <1>2, <1>6, FS_Interval
    <3>2. QED
      BY <3>1, FS_Subset
  <2>2. Min(ends) \in ends
    BY <1>10, <2>1, MinIs
  <2>3. Min(ends) \in 1..n /\ D(Min(ends)) \in {"no", "undefined"}
    BY <1>6, <2>2
  <2>4. Dependencies(l, r, passed) = D(Min(ends))
    BY <1>5, <1>8, <1>10, <2>3
  <2>5. D(Min(ends)) = "no" => ~ Dep(work, l, r)
    BY <1>4, <1>7, <2>3
  <2>6. QED
    BY <2>3, <2>4, <2>5
<1>11. QED
  BY <1>9, <1>10

\* No read goes astray: the scan for EXISTS finds whether there is a row.
LEMMA ExistsIs ==
  ASSUME Typed, Sound(work, right), work.type = "DEPENDENCY_EXIST",
         NEW i, NEW garbage, Exists(i, "no") # "undefined"
  PROVE  Exists(i, garbage) = "yes" <=> DepRows(work, left[i], right) # {}
<1> DEFINE outcome(j) == Dependencies(left[i], right[j], "no")
           last == {j \in DOMAIN right : outcome(j) # "no"}
<1>1. right # <<>> /\ work.dependency # <<>>
  BY DEF Sound
<1>2. \A j \in DOMAIN right : /\ outcome(j) \in {"yes", "no", "undefined"}
                              /\ outcome(j) = "yes" => Dep(work, left[i], right[j])
                              /\ outcome(j) = "no" => ~ Dep(work, left[i], right[j])
  BY <1>1, DependencyIs
<1>3. \A g : Exists(i, g) = IF last = {} THEN "no" ELSE outcome(Min(last))
  BY <1>1 DEF Exists
<1> HIDE DEF outcome
<1>4. CASE last = {}
  <2>1. \A j \in DOMAIN right : ~ Dep(work, left[i], right[j])
    BY <1>2, <1>4
  <2>2. DepRows(work, left[i], right) = {}
    BY <2>1 DEF DepRows
  <2>3. QED
    BY <1>3, <1>4, <2>2
<1>5. CASE last # {}
  <2>1. IsFiniteSet(last) /\ last \subseteq Int /\ last \subseteq DOMAIN right
    <3>1. Len(right) \in Nat /\ DOMAIN right = 1..Len(right)
      BY DEF Typed
    <3>2. IsFiniteSet(DOMAIN right) /\ DOMAIN right \subseteq Int
      BY <3>1, FS_Interval
    <3>3. QED
      BY <3>2, FS_Subset
  <2>2. Min(last) \in last
    BY <1>5, <2>1, MinIs
  <2>3. outcome(Min(last)) # "undefined"
    BY <1>3, <1>5
  <2>4. Min(last) \in DOMAIN right /\ outcome(Min(last)) = "yes"
    BY <1>2, <2>2, <2>3
  <2>5. DepRows(work, left[i], right) # {}
    BY <1>2, <2>4 DEF DepRows
  <2>6. QED
    BY <1>3, <1>5, <2>4, <2>5
<1>6. QED
  BY <1>4, <1>5

\* DependencyExist keeps the rows of the batch for which there is, or is not, a row;
\* what the memory held does not matter.
LEMMA ExistAdds ==
  ASSUME Typed, Sound(work, right), work.type = "DEPENDENCY_EXIST",
         NEW n \in Nat, row_index <= n, n <= Len(left), ~ UndefinedRead(n), NEW garbage
  PROVE  /\ DependencyExist(n, garbage) \in Seq(LineageOf)
         /\ IsInjective(DependencyExist(n, garbage))
         /\ Range(DependencyExist(n, garbage)) = RowsOfAll(work, left, right, (row_index + 1)..n)
<1> DEFINE S == {i \in 1..n : (Exists(i, garbage[i]) = "yes") = (work.filtering = <<>>)}
           K == (row_index + 1)..n
<1>1. FromLeft(work) /\ n <= Len(StreamOf(work, left, right))
  BY DEF FromLeft, StreamOf
<1>2. row_index \in 0..n /\ \A i \in K : i \in 1..n
  BY <1>1, InTheTable
<1>3. Range(Batch(n)) = K
  BY <1>2, BatchIs
<1>4. \A k \in DOMAIN Batch(n) : Exists(Batch(n)[k], "no") # "undefined"
  BY DEF UndefinedRead
<1> HIDE DEF K
<1>5. \A i \in K : Exists(i, "no") # "undefined"
  BY <1>3, <1>4 DEF Range
<1>6. ASSUME NEW i \in K PROVE i \in S <=> Stays(work, left, right, i)
  <2>1. (Exists(i, garbage[i]) = "yes") <=> DepRows(work, left[i], right) # {}
    BY <1>5, ExistsIs
  <2>2. Stays(work, left, right, i) <=> StaysExist(work, left[i], right)
    BY DEF Stays
  <2>3. i \in S <=> ((Exists(i, garbage[i]) = "yes") <=> (work.filtering = <<>>))
    BY <1>2
  <2>4. StaysExist(work, left[i], right) <=>
          (DepRows(work, left[i], right) # {} <=> (work.filtering = <<>>))
    BY DEF StaysExist
  <2>5. QED
    BY <2>1, <2>2, <2>3, <2>4
<1>7. DependencyExist(n, garbage) = LeftRows(n, S)
  BY DEF DependencyExist
<1> HIDE DEF S
<1>8. QED
  BY <1>6, <1>7, LeftRowsAdds DEF K

\* DependencyInnerJoin keeps the rows of the batch that compare with the minimum of
\* their subquery.
LEMMA LeastAdds ==
  ASSUME Typed, Sound(work, right), work.type = "DEPENDENCY_INNER_JOIN",
         NEW n \in Nat, row_index <= n, n <= Len(left), ~ UndefinedRead(n)
  PROVE  /\ DependencyInnerJoin(n) \in Seq(LineageOf)
         /\ IsInjective(DependencyInnerJoin(n))
         /\ Range(DependencyInnerJoin(n)) = RowsOfAll(work, left, right, (row_index + 1)..n)
<1> DEFINE f == work.filtering[1]
           least(i) == Min({right[j][work.projection] : j \in Subquery(i)})
           S == {i \in 1..n : Subquery(i) # {} /\ Compare(f.op, left[i][f.lv], least(i))}
           K == (row_index + 1)..n
<1>1. FromLeft(work) /\ n <= Len(StreamOf(work, left, right))
  BY DEF FromLeft, StreamOf
<1>2. row_index \in 0..n /\ \A i \in K : i \in 1..n
  BY <1>1, InTheTable
<1>3. Range(Batch(n)) = K
  BY <1>2, BatchIs
<1>4. \A k \in DOMAIN Batch(n), j \in DOMAIN right :
        Dependencies(left[Batch(n)[k]], right[j], "no") # "undefined"
  BY DEF UndefinedRead
<1> HIDE DEF K
<1>5. \A i \in K, j \in DOMAIN right : Dependencies(left[i], right[j], "no") # "undefined"
  BY <1>3, <1>4 DEF Range
<1>6. work.dependency # <<>>
  BY DEF Sound
<1>7. ASSUME NEW i \in K PROVE i \in S <=> Stays(work, left, right, i)
  <2>1. \A j \in DOMAIN right : Dependencies(left[i], right[j], "no") = "yes" <=> Dep(work, left[i], right[j])
    BY <1>5, <1>6, DependencyIs
  <2>2. Subquery(i) = DepRows(work, left[i], right)
    BY <2>1 DEF Subquery, DepRows
  <2>3. least(i) = Least(work, left[i], right)
    BY <2>2 DEF Least
  <2>4. Stays(work, left, right, i) <=> StaysLeast(work, left[i], right)
    BY DEF Stays
  <2> HIDE DEF least
  <2>5. i \in S <=> Subquery(i) # {} /\ Compare(f.op, left[i][f.lv], least(i))
    BY <1>2
  <2>6. StaysLeast(work, left[i], right) <=>
           DepRows(work, left[i], right) # {} /\ Compare(f.op, left[i][f.lv], Least(work, left[i], right))
    BY DEF StaysLeast
  <2>7. QED
    BY <2>2, <2>3, <2>4, <2>5, <2>6
<1>8. DependencyInnerJoin(n) = LeftRows(n, S)
  BY DEF DependencyInnerJoin
<1> HIDE DEF S
<1>9. QED
  BY <1>7, <1>8, LeftRowsAdds DEF K
------------------------------------------------------------------------------
(* What is expected, row by row of the streamed table.                         *)

\* For a sound work what is expected is what the rows seen make, row by row.
LEMMA ExpectedIs ==
  ASSUME Typed, Sound(work, right)
  PROVE  Expected = Goal(work, left, right, row_index)
<1> DEFINE w == work
           K == 1..row_index
           All == RowsOfAll(work, left, right, K)
<1>0. /\ Len(left) \in Nat /\ Len(right) \in Nat /\ row_index \in Nat
      /\ DOMAIN left = 1..Len(left) /\ DOMAIN right = 1..Len(right)
  BY DEF Typed, StreamOf
<1>1. \A l, r : Matches(l, r) <=> Pass(work, l, r)
  BY DEF Matches, Pass
<1>2. \A l, r : Depends(l, r) <=> Dep(work, l, r)
  BY DEF Depends, Dep
<1>3. \A i : SubqueryOf(i) = {right[j] : j \in DepRows(work, left[i], right)}
  BY <1>2 DEF SubqueryOf, DepRows
<1>4. CASE work.type = "INNER_JOIN"
  <2>1. Expected = Pairs(DOMAIN left, K)
    BY <1>4 DEF Expected, Seen
  <2>2. Goal(work, left, right, row_index) = UNION {InnerOf(work, left, right, k) : k \in K}
    BY <1>4 DEF Goal, Base, RowsOfAll, RowsOf
  <2>3. Pairs(DOMAIN left, K) = UNION {InnerOf(work, left, right, k) : k \in K}
    <3>1. ASSUME NEW p \in Pairs(DOMAIN left, K)
          PROVE  p \in UNION {InnerOf(work, left, right, k) : k \in K}
      <4>1. PICK i \in DOMAIN left, k \in K : p = <<i, k>> /\ Pass(work, left[i], right[k])
        BY <1>1 DEF Pairs
      <4>2. p \in InnerOf(work, left, right, k)
        BY <4>1 DEF InnerOf
      <4>3. QED
        BY <4>2
    <3>2. ASSUME NEW k \in K, NEW p \in InnerOf(work, left, right, k)
          PROVE  p \in Pairs(DOMAIN left, K)
      <4>1. PICK i \in DOMAIN left : p = <<i, k>> /\ Pass(work, left[i], right[k])
        BY DEF InnerOf
      <4>2. QED
        BY <1>1, <4>1 DEF Pairs
    <3>3. QED
      BY <3>1, <3>2
  <2>4. QED
    BY <2>1, <2>2, <2>3
<1>5. CASE work.type = "LEFT_OUTER_JOIN"
  <2> DEFINE P == Pairs(K, DOMAIN right)
             J(i) == {j \in DOMAIN right : Pass(work, left[i], right[j])}
  <2>1. Expected = P \cup Alone({i \in K : \A p \in P : p[1] # i})
    BY <1>5 DEF Expected, Seen
  <2>2. Goal(work, left, right, row_index) = UNION {LeftOf(work, left, right, k) : k \in K}
    BY <1>5 DEF Goal, Base, RowsOfAll, RowsOf
  <2>3. \A i \in K, j \in DOMAIN right : <<i, j>> \in P <=> j \in J(i)
    BY <1>1 DEF Pairs
  <2>4. \A p \in P : \E i \in K, j \in DOMAIN right : p = <<i, j>>
    BY DEF Pairs
  <2>5. \A i : LeftOf(work, left, right, i) = IF J(i) = {} THEN {<<i, 0>>} ELSE {<<i, j>> : j \in J(i)}
    BY DEF LeftOf
  <2>6. \A i : J(i) \subseteq DOMAIN right
    OBVIOUS
  <2> HIDE DEF P, J
  <2>7. \A i \in K : (\A p \in P : p[1] # i) <=> J(i) = {}
    <3> SUFFICES ASSUME NEW i \in K PROVE (\A p \in P : p[1] # i) <=> J(i) = {}
      OBVIOUS
    <3>1. ASSUME NEW p \in P, p[1] = i PROVE J(i) # {}
      BY <2>3, <2>4, <3>1
    <3>2. ASSUME NEW j \in J(i) PROVE \E p \in P : p[1] = i
      <4>1. <<i, j>> \in P /\ <<i, j>>[1] = i
        BY <2>3, <2>6
      <4>2. QED
        BY <4>1
    <3>3. QED
      BY <3>1, <3>2
  <2>8. ASSUME NEW p \in Expected PROVE p \in UNION {LeftOf(work, left, right, k) : k \in K}
    <3>1. CASE p \in P
      <4>1. PICK i \in K, j \in DOMAIN right : p = <<i, j>>
        BY <2>4, <3>1
      <4>2. j \in J(i)
        BY <2>3, <3>1, <4>1
      <4>3. p \in LeftOf(work, left, right, i)
        BY <2>5, <4>1, <4>2
      <4>4. QED
        BY <4>3
    <3>2. CASE p \notin P
      <4>1. PICK i \in K : p = <<i, 0>> /\ \A q \in P : q[1] # i
        BY <2>1, <3>2 DEF Alone
      <4>2. p \in LeftOf(work, left, right, i)
        BY <2>5, <2>7, <4>1
      <4>3. QED
        BY <4>2
    <3>3. QED
      BY <3>1, <3>2
  <2>9. ASSUME NEW i \in K, NEW p \in LeftOf(work, left, right, i) PROVE p \in Expected
    <3>1. CASE J(i) = {}
      BY <2>1, <2>5, <2>7, <3>1 DEF Alone
    <3>2. CASE J(i) # {}
      <4>1. PICK j \in J(i) : p = <<i, j>>
        BY <2>5, <3>2
      <4>2. QED
        BY <2>1, <2>3, <2>6, <4>1
    <3>3. QED
      BY <3>1, <3>2
  <2>10. QED
    BY <2>2, <2>8, <2>9
<1>6. CASE work.type = "RIGHT_OUTER_JOIN"
  <2> DEFINE P == Pairs(DOMAIN left, K)
             I(j) == {i \in DOMAIN left : Pass(work, left[i], right[j])}
  <2>1. Expected = P \cup {<<0, j>> : j \in {x \in K : \A p \in P : p[2] # x}}
    BY <1>6 DEF Expected, Seen
  <2>2. Goal(work, left, right, row_index) = UNION {RightOf(work, left, right, k) : k \in K}
    BY <1>6 DEF Goal, Base, RowsOfAll, RowsOf
  <2>3. \A j \in K, i \in DOMAIN left : <<i, j>> \in P <=> i \in I(j)
    BY <1>1 DEF Pairs
  <2>4. \A p \in P : \E j \in K, i \in DOMAIN left : p = <<i, j>>
    BY DEF Pairs
  <2>5. \A j : RightOf(work, left, right, j) = IF I(j) = {} THEN {<<0, j>>} ELSE {<<i, j>> : i \in I(j)}
    BY DEF RightOf
  <2>6. \A j : I(j) \subseteq DOMAIN left
    OBVIOUS
  <2> HIDE DEF P, I
  <2>7. \A j \in K : (\A p \in P : p[2] # j) <=> I(j) = {}
    <3> SUFFICES ASSUME NEW j \in K PROVE (\A p \in P : p[2] # j) <=> I(j) = {}
      OBVIOUS
    <3>1. ASSUME NEW p \in P, p[2] = j PROVE I(j) # {}
      BY <2>3, <2>4, <3>1
    <3>2. ASSUME NEW i \in I(j) PROVE \E p \in P : p[2] = j
      <4>1. <<i, j>> \in P /\ <<i, j>>[2] = j
        BY <2>3, <2>6
      <4>2. QED
        BY <4>1
    <3>3. QED
      BY <3>1, <3>2
  <2>8. ASSUME NEW p \in Expected PROVE p \in UNION {RightOf(work, left, right, k) : k \in K}
    <3>1. CASE p \in P
      <4>1. PICK j \in K, i \in DOMAIN left : p = <<i, j>>
        BY <2>4, <3>1
      <4>2. i \in I(j)
        BY <2>3, <3>1, <4>1
      <4>3. p \in RightOf(work, left, right, j)
        BY <2>5, <4>1, <4>2
      <4>4. QED
        BY <4>3
    <3>2. CASE p \notin P
      <4>1. PICK j \in K : p = <<0, j>> /\ \A q \in P : q[2] # j
        BY <2>1, <3>2
      <4>2. p \in RightOf(work, left, right, j)
        BY <2>5, <2>7, <4>1
      <4>3. QED
        BY <4>2
    <3>3. QED
      BY <3>1, <3>2
  <2>9. ASSUME NEW j \in K, NEW p \in RightOf(work, left, right, j) PROVE p \in Expected
    <3>1. CASE I(j) = {}
      BY <2>1, <2>5, <2>7, <3>1
    <3>2. CASE I(j) # {}
      <4>1. PICK i \in I(j) : p = <<i, j>>
        BY <2>5, <3>2
      <4>2. QED
        BY <2>1, <2>3, <2>6, <4>1
    <3>3. QED
      BY <3>1, <3>2
  <2>10. QED
    BY <2>2, <2>8, <2>9
<1>7. CASE work.type = "UNION"
  <2>1. Expected = Alone(DOMAIN left) \cup {<<0, j>> : j \in K}
    BY <1>7 DEF Expected, Seen
  <2>2. Goal(work, left, right, row_index)
          = {<<i, 0>> : i \in DOMAIN left} \cup UNION {{<<0, j>>} : j \in K}
    BY <1>7 DEF Goal, Base, RowsOfAll, RowsOf
  <2>3. UNION {{<<0, j>>} : j \in K} = {<<0, j>> : j \in K}
    OBVIOUS
  <2>4. QED
    BY <2>1, <2>2, <2>3 DEF Alone
<1>8. CASE work.type \in {"IN", "DEPENDENCY_EXIST", "DEPENDENCY_INNER_JOIN"}
  <2> DEFINE Stay(k) == Stays(work, left, right, k)
  <2>1. Goal(work, left, right, row_index) = UNION {IF Stay(k) THEN {<<k, 0>>} ELSE {} : k \in K}
    BY <1>8 DEF Goal, Base, RowsOfAll, RowsOf
  <2>2. Expected = Alone({i \in K : Stay(i)})
    <3>1. CASE work.type = "IN"
      <4>1. \A i : Stay(i) = StaysIn(work, left[i], right)
        BY <3>1 DEF Stays
      <4> HIDE DEF Stay
      <4>2. Expected = Alone({i \in K : StaysIn(work, left[i], right)})
        BY <3>1 DEF Expected, Seen, StaysIn
      <4>3. QED
        BY <4>1, <4>2
    <3>2. CASE work.type = "DEPENDENCY_EXIST"
      <4>1. \A i : Stay(i) = StaysExist(work, left[i], right)
        BY <3>2 DEF Stays
      <4>2. \A i : (SubqueryOf(i) # {}) = (DepRows(work, left[i], right) # {})
        BY <1>3
      <4> HIDE DEF Stay
      <4>3. Expected = Alone({i \in K : (SubqueryOf(i) # {}) = (work.filtering = <<>>)})
        BY <3>2 DEF Expected, Seen
      <4>4. QED
        BY <4>1, <4>2, <4>3 DEF StaysExist
    <3>3. CASE work.type = "DEPENDENCY_INNER_JOIN"
      <4> DEFINE f == work.filtering[1]
                 least(i) == Min({r[work.projection] : r \in SubqueryOf(i)})
      <4>1. \A i : Stay(i) <=> StaysLeast(work, left[i], right)
        BY <3>3 DEF Stays
      <4>2. \A i : (SubqueryOf(i) # {}) <=> (DepRows(work, left[i], right) # {})
        BY <1>3
      <4>3. \A i : least(i) = Least(work, left[i], right)
        <5> SUFFICES ASSUME NEW i PROVE least(i) = Least(work, left[i], right)
          OBVIOUS
        <5>1. {r[work.projection] : r \in SubqueryOf(i)}
                = {right[j][work.projection] : j \in DepRows(work, left[i], right)}
          BY <1>3
        <5>2. QED
          BY <5>1 DEF Least
      <4>4. Expected = Alone({i \in K : SubqueryOf(i) # {} /\ Compare(f.op, left[i][f.lv], least(i))})
        BY <3>3 DEF Expected, Seen
      <4> HIDE DEF Stay, least
      <4>5. \A i : Stay(i) <=> SubqueryOf(i) # {} /\ Compare(f.op, left[i][f.lv], least(i))
        BY <4>1, <4>2, <4>3 DEF StaysLeast
      <4>6. {i \in K : SubqueryOf(i) # {} /\ Compare(f.op, left[i][f.lv], least(i))} = {i \in K : Stay(i)}
        BY <4>5
      <4>7. QED
        BY <4>4, <4>6
    <3>4. QED
      BY <1>8, <3>1, <3>2, <3>3
  <2> HIDE DEF Stay
  <2>3. UNION {IF Stay(k) THEN {<<k, 0>>} ELSE {} : k \in K} = {<<i, 0>> : i \in {x \in K : Stay(x)}}
    OBVIOUS
  <2>4. QED
    BY <2>1, <2>2, <2>3 DEF Alone
<1>9. QED
  BY <1>4, <1>5, <1>6, <1>7, <1>8 DEF Sound, SoundType

------------------------------------------------------------------------------
(* The steps.                                                                  *)

\* Whatever the type of the work, a batch adds what its rows make, each once; a join
\* without an equal filter adds that of the rows before as well.
LEMMA BatchAdds ==
  ASSUME Typed, Sound(work, right), Made, row_index <= shown,
         ~ UndefinedRead(shown), NEW garbage
  PROVE  LET added == Added(shown, garbage)
         IN  /\ added \in Seq(LineageOf)
             /\ Nested(work) => Range(added) = RowsOfAll(work, left, right, 1..shown)
             /\ ~ Nested(work) =>
                  /\ IsInjective(added)
                  /\ Range(added) = RowsOfAll(work, left, right, (row_index + 1)..shown)
<1> DEFINE n == shown
           added == Added(n, garbage)
<1>1. n \in Nat /\ n <= Len(StreamOf(work, left, right))
  <2>1. Len(left) \in Nat /\ Len(right) \in Nat
    BY DEF Typed
  <2>2. QED
    BY <2>1 DEF Typed, StreamOf
<1>2. hash_table = WholeOf(work, left, right)
  BY DEF Made
<1>3. EqualFilters = EqualOf(work)
  BY EqualFiltersIs
<1>4. CASE work.type = "INNER_JOIN" /\ EqualOf(work) # <<>>
  <2>1. n <= Len(right) /\ ~ Nested(work)
    BY <1>1, <1>4 DEF StreamOf, FromLeft, Nested
  <2>2. added = InnerJoinHash(n)
    BY <1>3, <1>4 DEF Added
  <2> HIDE DEF added
  <2>3. QED
    BY <1>1, <1>2, <1>4, <2>1, <2>2, InnerHashAdds DEF added
<1>5. CASE work.type = "INNER_JOIN" /\ EqualOf(work) = <<>>
  <2>1. n <= Len(right) /\ Nested(work)
    BY <1>1, <1>5 DEF StreamOf, FromLeft, Nested
  <2>2. added = InnerJoinNestedLoop(n)
    BY <1>3, <1>5 DEF Added
  <2> HIDE DEF added
  <2>3. QED
    BY <1>1, <2>1, <2>2, NestedLoopAdds DEF added
<1>6. CASE work.type = "LEFT_OUTER_JOIN"
  <2>1. n <= Len(left) /\ ~ Nested(work)
    BY <1>1, <1>6 DEF StreamOf, FromLeft, Nested
  <2>2. added = LeftOuterJoinHash(n)
    BY <1>6 DEF Added
  <2> HIDE DEF added
  <2>3. QED
    BY <1>1, <1>2, <1>6, <2>1, <2>2, LeftOuterAdds DEF added
<1>7. CASE work.type = "RIGHT_OUTER_JOIN"
  <2>1. n <= Len(right) /\ ~ Nested(work)
    BY <1>1, <1>7 DEF StreamOf, FromLeft, Nested
  <2>2. added = RightOuterJoinHash(n)
    BY <1>7 DEF Added
  <2>3. EqualOf(work) = <<>>
    BY <1>3, <1>7 DEF UndefinedRead
  <2> HIDE DEF added
  <2>4. QED
    BY <1>1, <1>2, <1>7, <2>1, <2>2, <2>3, RightOuterAdds DEF added
<1>8. CASE work.type = "UNION"
  <2>1. n <= Len(right) /\ ~ Nested(work)
    BY <1>1, <1>8 DEF StreamOf, FromLeft, Nested
  <2>2. added = UnionAll(n)
    BY <1>8 DEF Added
  <2> HIDE DEF added
  <2>3. QED
    BY <1>1, <1>8, <2>1, <2>2, UnionAdds DEF added
<1>9. CASE work.type = "IN"
  <2>1. n <= Len(left) /\ ~ Nested(work)
    BY <1>1, <1>9 DEF StreamOf, FromLeft, Nested
  <2>2. added = In(n)
    BY <1>9 DEF Added
  <2> HIDE DEF added
  <2>3. QED
    BY <1>1, <1>2, <1>9, <2>1, <2>2, InAdds DEF added
<1>10. CASE work.type = "DEPENDENCY_EXIST"
  <2>1. n <= Len(left) /\ ~ Nested(work)
    BY <1>1, <1>10 DEF StreamOf, FromLeft, Nested
  <2>2. added = DependencyExist(n, garbage)
    BY <1>10 DEF Added
  <2> HIDE DEF added
  <2>3. QED
    BY <1>1, <1>10, <2>1, <2>2, ExistAdds DEF added
<1>11. CASE work.type = "DEPENDENCY_INNER_JOIN"
  <2>1. n <= Len(left) /\ ~ Nested(work)
    BY <1>1, <1>11 DEF StreamOf, FromLeft, Nested
  <2>2. added = DependencyInnerJoin(n)
    BY <1>11 DEF Added
  <2> HIDE DEF added
  <2>3. QED
    BY <1>1, <1>11, <2>1, <2>2, LeastAdds DEF added
<1>12. SoundType(work)
  BY DEF Sound
<1>13. QED
  BY <1>4, <1>5, <1>6, <1>7, <1>8, <1>9, <1>10, <1>11, <1>12 DEF SoundType

\* The invariant holds when the work begins.
LEMMA InitMakes == Init => IInv
<1> SUFFICES ASSUME Init PROVE IInv
  OBVIOUS
<1>1. work \in Work /\ pc = "read" /\ shown = 0 /\ row_index = 0 /\ finished = FALSE
  BY DEF Init
<1>2. \A C, max : max \in Nat => Tables(C, max) \subseteq Seq([C -> Int])
  <2> SUFFICES ASSUME NEW C, NEW max \in Nat, NEW t \in Tables(C, max) PROVE t \in Seq([C -> Int])
    OBVIOUS
  <2>1. PICK n \in 0..max : t \in [1..n -> [C -> Value]]
    BY DEF Tables
  <2>2. Value \subseteq Int
    BY WorkAssumption
  <2>3. n \in Nat /\ t \in [1..n -> [C -> Int]]
    <3>1. [C -> Value] \subseteq [C -> Int]
      BY <2>2
    <3> DEFINE V == [C -> Value]
               I == [C -> Int]
    <3> HIDE DEF V, I
    <3>2. t \in [1..n -> I]
      BY <2>1, <3>1 DEF V, I
    <3>3. QED
      BY <3>2 DEF I
  <2>4. QED
    BY <2>3, SeqDef
<1>3. left \in Seq(LeftRow) /\ right \in Seq(RightRow)
  BY <1>2, WorkAssumption DEF Init, LeftRow, RightRow
<1>4. Len(left) \in Nat /\ Len(right) \in Nat
  BY <1>3
<1>5. Typed
  <2>1. Len(StreamOf(work, left, right)) \in Nat
    BY <1>4 DEF StreamOf
  <2>2. shown \in 0..Len(StreamOf(work, left, right)) /\ row_index \in 0..shown
    BY <1>1, <2>1
  <2>3. QED
    BY <1>1, <1>3, <2>2 DEF Typed
<1>6. QED
  BY <1>1, <1>5 DEF IInv

\* The work and the tables stay as they are.
LEMMA ArriveMakes == IInv /\ Arrive => IInv'
<1> SUFFICES ASSUME IInv, Arrive PROVE IInv'
  OBVIOUS
<1>1. Streamed = StreamOf(work, left, right)
  BY EqualFiltersIs
<1>2. /\ work' = work /\ left' = left /\ right' = right /\ pc' = pc /\ row_index' = row_index
      /\ target' = target /\ row_count' = row_count /\ hash_table' = hash_table
      /\ shown' \in shown..Len(StreamOf(work, left, right))
      /\ finished' \in BOOLEAN
  BY <1>1 DEF Arrive
<1>3. Len(StreamOf(work, left, right)) \in Nat
  BY DEF IInv, Typed, StreamOf
<1>4. shown \in Nat /\ row_index \in Nat /\ row_index <= shown
  BY <1>3 DEF IInv, Typed
<1>5. Typed'
  <2>1. shown' \in 0..Len(StreamOf(work, left, right)) /\ row_index' \in 0..shown'
    BY <1>2, <1>3, <1>4
  <2>2. QED
    BY <1>2, <2>1 DEF IInv, Typed
<1>6. Made => Made'
  BY <1>2 DEF Made
<1>7. QED
  BY <1>2, <1>5, <1>6 DEF IInv

\* Reading one table whole makes the hash table, and for UNION the first rows.
LEMMA ReadMakes == IInv /\ ReadWhole => IInv'
<1> SUFFICES ASSUME IInv, ReadWhole PROVE IInv'
  OBVIOUS
<1>1. /\ work' = work /\ left' = left /\ right' = right /\ shown' = shown
      /\ finished' = finished /\ row_index' = row_index /\ pc' \in {"done", "stream"}
      /\ row_index = 0 /\ row_count' = Len(target')
  BY DEF ReadWhole, IInv
<1>2. Typed'
  BY <1>1 DEF IInv, Typed
<1>3. ASSUME Sound(work, right) PROVE Made'
  <2>1. ~ MakesNothing
    BY <1>3 DEF Sound, SoundType, MakesNothing
  <2>2. hash_table' = WholeOf(work, left, right)
    BY EqualFiltersIs DEF ReadWhole, WholeOf
  <2>3. target' = IF work.type = "UNION" THEN [i \in DOMAIN left |-> <<i, 0>>] ELSE <<>>
    BY <2>1 DEF ReadWhole
  <2>4. target' \in Seq(LineageOf) /\ IsInjective(target') /\ Range(target') = Base(work, left)
    <3>1. CASE work.type = "UNION"
      <4> DEFINE m == Len(left)
                 t == [i \in 1..m |-> <<i, 0>>]
      <4>1. m \in Nat /\ DOMAIN left = 1..m
        BY DEF IInv, Typed
      <4>2. t \in [1..m -> LineageOf] /\ \A i \in 1..m : t[i] = <<i, 0>>
        BY <4>1 DEF LineageOf
      <4>3. t \in Seq(LineageOf)
        BY <4>1, <4>2, SeqDef
      <4>4. IsInjective(t) /\ Range(t) = {<<i, 0>> : i \in 1..m}
        BY DEF IsInjective, Range
      <4>5. target' = t
        BY <2>3, <3>1, <4>1
      <4> HIDE DEF t, m
      <4>6. Base(work, left) = {<<i, 0>> : i \in 1..m}
        BY <3>1, <4>1 DEF Base
      <4>7. QED
        BY <4>3, <4>4, <4>5, <4>6
    <3>2. CASE work.type # "UNION"
      <4>1. target' = <<>> /\ Base(work, left) = {}
        BY <2>3, <3>2 DEF Base
      <4>2. Range(<<>>) = {} /\ IsInjective(<<>>)
        BY DEF Range, IsInjective
      <4>3. QED
        BY <4>1, <4>2
    <3>3. QED
      BY <3>1, <3>2
  <2>5. Goal(work, left, right, 0) = Base(work, left)
    BY GoalGrows
  <2>6. QED
    BY <1>1, <2>2, <2>4, <2>5 DEF Made
<1>4. QED
  BY <1>1, <1>2, <1>3 DEF IInv

\* A batch adds its rows, and none that was there: they have marks of their own.
LEMMA BatchMakes == IInv /\ StreamBatch => IInv'
<1> SUFFICES ASSUME IInv, StreamBatch PROVE IInv'
  OBVIOUS
<1>1. /\ work' = work /\ left' = left /\ right' = right /\ shown' = shown
      /\ finished' = finished /\ row_index' = shown /\ pc' \in {"done", "stream"}
      /\ pc = "stream" /\ ~ UndefinedRead(shown)
  BY DEF StreamBatch
<1>2. /\ Typed /\ row_index \in Nat /\ shown \in Nat /\ row_index <= shown
      /\ shown' \in 0..Len(StreamOf(work', left', right')) /\ row_index' \in 0..shown'
  <2>1. Len(StreamOf(work, left, right)) \in Nat
    BY DEF IInv, Typed, StreamOf
  <2>2. QED
    BY <1>1, <2>1 DEF IInv, Typed
<1>3. Typed'
  BY <1>1, <1>2 DEF Typed
<1>4. ASSUME Sound(work, right) PROVE Made'
  <2>1. Made
    BY <1>1, <1>4 DEF IInv
  <2>2. PICK garbage : target' = target \o Added(shown, garbage)
    BY DEF StreamBatch
  <2> DEFINE added == Added(shown, garbage)
             later == RowsOfAll(work, left, right, (row_index + 1)..shown)
  <2>3. /\ added \in Seq(LineageOf)
        /\ Nested(work) => Range(added) = RowsOfAll(work, left, right, 1..shown)
        /\ ~ Nested(work) => IsInjective(added) /\ Range(added) = later
    BY <1>1, <1>2, <1>4, <2>1, BatchAdds
  <2> HIDE DEF added, later
  <2>4. /\ target' \in Seq(LineageOf)
        /\ Range(target') = Range(target) \cup Range(added)
        /\ IsInjective(target) /\ IsInjective(added) /\ Range(target) \cap Range(added) = {}
             => IsInjective(target')
    BY <2>1, <2>2, <2>3, TwoInARow DEF Made, added
  <2>5. /\ Goal(work, left, right, shown) = Goal(work, left, right, row_index) \cup later
        /\ work.type # "UNION" => Goal(work, left, right, shown)
             = Goal(work, left, right, row_index) \cup RowsOfAll(work, left, right, 1..shown)
    BY <1>2, GoalGrows DEF later
  <2>6. Range(target') = Goal(work, left, right, shown)
    <3>1. Nested(work) => work.type # "UNION"
      BY DEF Nested
    <3>2. QED
      BY <2>1, <2>3, <2>4, <2>5, <3>1 DEF Made
  <2>7. IsInjective(target') \/ Nested(work)
    <3>1. Goal(work, left, right, row_index) \cap later = {}
      BY <1>2, <1>4, NoneTwice DEF Sound, later
    <3>2. QED
      BY <2>1, <2>3, <2>4, <3>1 DEF Made
  <2>8. row_count' = Len(target') \/ work.type = "UNION"
    BY DEF StreamBatch
  <2>9. hash_table' = hash_table
    BY <1>4 DEF StreamBatch, Sound, SoundType
  <2>10. QED
    BY <1>1, <2>1, <2>4, <2>6, <2>7, <2>8, <2>9 DEF Made
<1>5. QED
  BY <1>1, <1>3, <1>4 DEF IInv

\* The other steps change neither the target nor what it is compared with.
LEMMA OtherStepsMake ==
  ASSUME IInv, StreamCrash \/ StreamEnds \/ UNCHANGED vars
  PROVE  IInv'
<1>1. /\ work' = work /\ left' = left /\ right' = right /\ row_index' = row_index
      /\ target' = target /\ row_count' = row_count /\ hash_table' = hash_table
      /\ shown' = shown /\ finished' = finished
      /\ pc' = pc \/ (pc = "stream" /\ pc' \in {"done", "undefined"})
  BY DEF StreamCrash, StreamEnds, vars
<1>2. Typed'
  BY <1>1 DEF IInv, Typed
<1>3. Made => Made'
  BY <1>1 DEF Made
<1>4. QED
  BY <1>1, <1>2, <1>3 DEF IInv

\* So every step keeps the invariant.
LEMMA StepsMake == IInv /\ [Next]_vars => IInv'
<1> SUFFICES ASSUME IInv, [Next]_vars PROVE IInv'
  OBVIOUS
<1>1. CASE Arrive
  BY <1>1, ArriveMakes
<1>2. CASE ReadWhole
  BY <1>2, ReadMakes
<1>3. CASE StreamBatch
  BY <1>3, BatchMakes
<1>4. CASE StreamCrash \/ StreamEnds \/ UNCHANGED vars
  BY <1>4, OtherStepsMake
<1>5. QED
  BY <1>1, <1>2, <1>3, <1>4 DEF Next

\* The inductive invariant of the work's thread: for every work that the code handles
\* the target holds what the rows seen so far make, each once, beside the hash table
\* of the other table (RunSnippetWork's joins, merge_query_manager.cc:1103-2319).
THEOREM JoinMakes == Spec => []IInv
<1>1. Init => IInv
  BY InitMakes
<1>2. IInv /\ [Next]_vars => IInv'
  BY StepsMake
<1>3. QED
  BY <1>1, <1>2, PTL DEF Spec

\* That is what the property says.
LEMMA MadeIsExact == IInv => TargetExactUnlessDeparts
<1> SUFFICES ASSUME IInv, pc \in {"stream", "done"}, ~ Departs
             PROVE  /\ Range(target) = Expected
                    /\ IsInjective(target) \/ (work.type = "INNER_JOIN" /\ EqualFilters = <<>>)
                    /\ row_count = Len(target) \/ work.type = "UNION"
  BY DEF TargetExactUnlessDeparts
<1>1. Typed
  BY DEF IInv
<1>2. Sound(work, right)
  BY <1>1, SoundIs
<1>3. Made
  BY <1>2 DEF IInv
<1>4. Expected = Goal(work, left, right, row_index)
  BY <1>1, <1>2, ExpectedIs
<1>5. QED
  BY <1>3, <1>4, EqualFiltersIs DEF Made, Nested

\* However the streamed table is cut into batches, whatever the tables, the snippet and
\* its filters: outside the cases that Departs lists, the target of a join, a union, a
\* selection by IN or a dependent subquery is exact (merge_query_manager.cc:1103-2319).
THEOREM TargetExactHolds == Spec => []TargetExactUnlessDeparts
<1>1. Spec => []IInv
  BY JoinMakes
<1>2. QED
  BY <1>1, MadeIsExact, PTL
==============================================================================
