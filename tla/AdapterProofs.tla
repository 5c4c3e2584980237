---------------------------- MODULE AdapterProofs -----------------------------
(***************************************************************************)
(* What is made of the records of an installed adapter, for any texts, any  *)
(* number of messages and any number of calls.                              *)
(*                                                                          *)
(* The first part is about the live output: nothing protected is shown, and *)
(* no valid run is refused.  What it shows is flattened from sequences of   *)
(* texts; the lemmas about that are proved by induction over the numbers,   *)
(* which rests on the well-foundedness of the subset order (Least), and     *)
(* from the equation FlattenSeq is defined by.                              *)
(*                                                                          *)
(* The second part is about a stream with tools: what an accepted one has   *)
(* settled.                                                                 *)
(***************************************************************************)
EXTENDS LiveOutput, ToolStream, FiniteSetTheorems, WellFoundedInduction, TLAPS

-----------------------------------------------------------------------------
(* Numbers and sequences                                                    *)

\* A set of numbers that is not empty has a least one: the intervals below its members
\* are finite sets, and the strict subset order of those is well-founded.
LEMMA Least ==
  ASSUME NEW T, T \subseteq Nat, T # {}
  PROVE  \E m \in T : \A k \in T : m <= k
<1> DEFINE Below == {0..(n - 1) : n \in T}
<1>1. Below \subseteq FiniteSubsetsOf(Nat) /\ Below # {}
  <2>1. ASSUME NEW n \in T PROVE 0..(n - 1) \in FiniteSubsetsOf(Nat)
    <3>1. IsFiniteSet(0..(n - 1))
      BY FS_Interval
    <3> QED BY <3>1 DEF FiniteSubsetsOf
  <2> QED BY <2>1
<1>2. PICK b \in Below : \A c \in Below : <<c, b>> \notin StrictSubsetOrdering(Nat)
  <2> HIDE DEF Below
  <2> QED BY <1>1, FS_StrictSubsetOrderingWellFounded, WFMin
<1>3. PICK m \in T : b = 0..(m - 1)
  OBVIOUS
<1>4. ASSUME NEW k \in T, k < m PROVE FALSE
  <2>1. 0..(k - 1) \in Below /\ 0..(k - 1) \subseteq Nat /\ 0..(m - 1) \subseteq Nat
    OBVIOUS
  <2>2. 0..(k - 1) \subseteq 0..(m - 1) /\ k \in 0..(m - 1) /\ k \notin 0..(k - 1)
    BY <1>4
  <2>3. 0..(k - 1) # 0..(m - 1)
    BY <2>2
  <2> QED BY <1>2, <1>3, <2>1, <2>2, <2>3 DEF StrictSubsetOrdering
<1> QED BY <1>4

\* Induction over the numbers, for a set instead of a predicate.
LEMMA Everywhere ==
  ASSUME NEW S, S \subseteq Nat, 0 \in S, \A n \in S : n + 1 \in S
  PROVE  S = Nat
<1> SUFFICES ASSUME Nat \ S # {} PROVE FALSE
  OBVIOUS
<1>1. PICK m \in Nat \ S : \A k \in Nat \ S : m <= k
  BY Least
<1>2. m - 1 \in Nat /\ m - 1 \notin S
  BY <1>1
<1> QED BY <1>1, <1>2

\* The function by which FlattenSeq is defined.
Flattens(f, s, n) == f = [i \in 1..n |-> IF i = 1 THEN s[i] ELSE f[i - 1] \o s[i]]

\* It exists, so that what it computes can be told from its equation.
LEMMA FlattensExists == ASSUME NEW s, NEW n \in Nat PROVE \E f : Flattens(f, s, n)
<1> DEFINE S == {k \in Nat : \E f : Flattens(f, s, k)}
<1>1. 0 \in S
  <2>1. Flattens([i \in 1..0 |-> 0], s, 0)
    BY DEF Flattens
  <2> QED BY <2>1
<1>2. ASSUME NEW k \in S PROVE k + 1 \in S
  <2>1. PICK f : Flattens(f, s, k)
    OBVIOUS
  <2> DEFINE g == [i \in 1..(k + 1) |->
                     IF i = k + 1 THEN IF k = 0 THEN s[1] ELSE f[k] \o s[k + 1] ELSE f[i]]
  <2>2. Flattens(g, s, k + 1)
    <3>1. ASSUME NEW i \in 1..(k + 1)
          PROVE  g[i] = IF i = 1 THEN s[i] ELSE g[i - 1] \o s[i]
      <4>1. CASE i = k + 1
        BY <4>1
      <4>2. CASE i # k + 1
        <5>1. f[i] = IF i = 1 THEN s[i] ELSE f[i - 1] \o s[i]
          <6> DEFINE h == [j \in 1..k |-> IF j = 1 THEN s[j] ELSE f[j - 1] \o s[j]]
          <6>1. f = h
            BY <2>1 DEF Flattens
          <6>2. h[i] = IF i = 1 THEN s[i] ELSE f[i - 1] \o s[i]
            BY <4>2
          <6> HIDE DEF h
          <6> QED BY <6>1, <6>2
        <5> QED BY <4>2, <5>1
      <4> QED BY <4>1, <4>2
    <3> HIDE DEF g
    <3>2. g = [i \in 1..(k + 1) |-> g[i]]
      BY DEF g
    <3> QED BY <3>1, <3>2 DEF Flattens
  <2> QED BY <2>2
<1>3. S = Nat
  <2> HIDE DEF S
  <2>1. S \subseteq Nat
    BY DEF S
  <2> QED BY <1>1, <1>2, <2>1, Everywhere
<1> QED BY <1>3

\* FlattenSeq is the last value of such a function.
LEMMA FlatDef ==
  ASSUME NEW s, Len(s) \in Nat \ {0}
  PROVE  \E f : Flattens(f, s, Len(s)) /\ FlattenSeq(s) = f[Len(s)]
<1> DEFINE F == CHOOSE f : f = [i \in 1..Len(s) |-> IF i = 1 THEN s[i] ELSE f[i - 1] \o s[i]]
<1>1. FlattenSeq(s) = F[Len(s)]
  BY DEF FlattenSeq
<1>2. Flattens(F, s, Len(s))
  BY FlattensExists DEF Flattens
<1> QED BY <1>1, <1>2

\* Two functions that flatten sequences with the same beginning agree on it.
LEMMA FlattensAgree ==
  ASSUME NEW s, NEW t, NEW f, NEW g, NEW n \in Nat, NEW m \in Nat, NEW k \in Nat,
         k <= n, k <= m, Flattens(f, s, n), Flattens(g, t, m),
         \A i \in 1..k : s[i] = t[i]
  PROVE  \A i \in 1..k : f[i] = g[i]
<1> DEFINE h == [j \in 1..n |-> IF j = 1 THEN s[j] ELSE f[j - 1] \o s[j]]
           l == [j \in 1..m |-> IF j = 1 THEN t[j] ELSE g[j - 1] \o t[j]]
           S == {j \in Nat : j \in 1..k => f[j] = g[j]}
<1>1. f = h /\ g = l
  BY DEF Flattens
<1>2. \A i \in 1..n : h[i] = IF i = 1 THEN s[i] ELSE f[i - 1] \o s[i]
  OBVIOUS
<1>3. \A i \in 1..m : l[i] = IF i = 1 THEN t[i] ELSE g[i - 1] \o t[i]
  OBVIOUS
<1> HIDE DEF h, l
<1>4. 0 \in S
  OBVIOUS
<1>5. ASSUME NEW j \in S PROVE j + 1 \in S
  <2> SUFFICES ASSUME j + 1 \in 1..k PROVE f[j + 1] = g[j + 1]
    OBVIOUS
  <2>1. /\ f[j + 1] = IF j + 1 = 1 THEN s[j + 1] ELSE f[j] \o s[j + 1]
        /\ g[j + 1] = IF j + 1 = 1 THEN t[j + 1] ELSE g[j] \o t[j + 1]
    <3>1. j + 1 \in 1..n /\ j + 1 \in 1..m /\ (j + 1) - 1 = j
      OBVIOUS
    <3>2. /\ h[j + 1] = IF j + 1 = 1 THEN s[j + 1] ELSE f[(j + 1) - 1] \o s[j + 1]
          /\ l[j + 1] = IF j + 1 = 1 THEN t[j + 1] ELSE g[(j + 1) - 1] \o t[j + 1]
      BY <1>2, <1>3, <3>1
    <3> QED BY <1>1, <3>1, <3>2
  <2>2. s[j + 1] = t[j + 1] /\ (j + 1 # 1 => f[j] = g[j])
    OBVIOUS
  <2> QED BY <2>1, <2>2
<1>6. S = Nat
  <2> HIDE DEF S
  <2>1. S \subseteq Nat
    BY DEF S
  <2> QED BY <1>4, <1>5, <2>1, Everywhere
<1> QED BY <1>6

\* Its values are texts.
LEMMA FlattensType ==
  ASSUME NEW K, NEW s, NEW f, NEW n \in Nat, Flattens(f, s, n), \A i \in 1..n : s[i] \in Seq(K)
  PROVE  \A i \in 1..n : f[i] \in Seq(K)
<1> DEFINE h == [j \in 1..n |-> IF j = 1 THEN s[j] ELSE f[j - 1] \o s[j]]
           S == {j \in Nat : j \in 1..n => f[j] \in Seq(K)}
<1>1. f = h
  BY DEF Flattens
<1>2. \A i \in 1..n : h[i] = IF i = 1 THEN s[i] ELSE f[i - 1] \o s[i]
  OBVIOUS
<1> HIDE DEF h
<1>3. 0 \in S
  OBVIOUS
<1>4. ASSUME NEW j \in S PROVE j + 1 \in S
  <2> SUFFICES ASSUME j + 1 \in 1..n PROVE f[j + 1] \in Seq(K)
    OBVIOUS
  <2>1. f[j + 1] = IF j + 1 = 1 THEN s[j + 1] ELSE f[j] \o s[j + 1]
    <3>1. (j + 1) - 1 = j
      OBVIOUS
    <3> QED BY <1>1, <1>2, <3>1
  <2>2. s[j + 1] \in Seq(K) /\ (j + 1 # 1 => f[j] \in Seq(K))
    OBVIOUS
  <2> QED BY <2>1, <2>2
<1>5. S = Nat
  <2> HIDE DEF S
  <2>1. S \subseteq Nat
    BY DEF S
  <2> QED BY <1>3, <1>4, <2>1, Everywhere
<1> QED BY <1>5

\* Nothing flattens to nothing.
LEMMA FlatEmpty == FlattenSeq(<<>>) = <<>>
  BY DEF FlattenSeq

\* What is made of texts is a text.
LEMMA FlatType == ASSUME NEW K, NEW s \in Seq(Seq(K)) PROVE FlattenSeq(s) \in Seq(K)
<1>1. CASE s = <<>>
  <2>1. <<>> \in Seq(K)
    OBVIOUS
  <2>2. FlattenSeq(s) = <<>>
    BY <1>1, FlatEmpty
  <2> QED BY <2>1, <2>2
<1>2. CASE s # <<>>
  <2>1. Len(s) \in Nat \ {0} /\ \A i \in 1..Len(s) : s[i] \in Seq(K)
    BY <1>2
  <2>2. PICK f : Flattens(f, s, Len(s)) /\ FlattenSeq(s) = f[Len(s)]
    BY <2>1, FlatDef
  <2>3. \A i \in 1..Len(s) : f[i] \in Seq(K)
    BY <2>1, <2>2, FlattensType
  <2> QED BY <2>1, <2>2, <2>3
<1> QED BY <1>1, <1>2

\* The whole is as long as any of its beginnings.
LEMMA FlatLonger ==
  ASSUME NEW n \in Nat, NEW s, NEW t, Len(s) = n, Len(t) = n + 1, n # 0,
         \A i \in 1..n : t[i] = s[i]
  PROVE  FlattenSeq(t) = FlattenSeq(s) \o t[n + 1]
<1>1. PICK f : Flattens(f, t, n + 1) /\ FlattenSeq(t) = f[n + 1]
  BY FlatDef
<1>2. PICK g : Flattens(g, s, n) /\ FlattenSeq(s) = g[n]
  BY FlatDef
<1>3. f[n + 1] = f[n] \o t[n + 1]
  <2> DEFINE h == [j \in 1..(n + 1) |-> IF j = 1 THEN t[j] ELSE f[j - 1] \o t[j]]
  <2>1. f = h
    BY <1>1 DEF Flattens
  <2>2. h[n + 1] = IF n + 1 = 1 THEN t[n + 1] ELSE f[(n + 1) - 1] \o t[n + 1]
    OBVIOUS
  <2> HIDE DEF h
  <2>3. (n + 1) - 1 = n /\ n + 1 # 1
    OBVIOUS
  <2> QED BY <2>1, <2>2, <2>3
<1>4. \A i \in 1..n : f[i] = g[i]
  <2>1. n <= n + 1 /\ n <= n /\ n + 1 \in Nat
    OBVIOUS
  <2> HIDE DEF Flattens
  <2> QED BY <1>1, <1>2, <2>1, FlattensAgree, SMTT(60)
<1>5. n \in 1..n
  OBVIOUS
<1> QED BY <1>1, <1>2, <1>3, <1>4, <1>5

\* One part more.
LEMMA FlatStep ==
  ASSUME NEW K, NEW s \in Seq(Seq(K)), NEW e \in Seq(K)
  PROVE  FlattenSeq(Append(s, e)) = FlattenSeq(s) \o e
<1>1. /\ Len(Append(s, e)) = Len(s) + 1 /\ Len(s) \in Nat /\ Append(s, e)[Len(s) + 1] = e
      /\ \A i \in 1..Len(s) : Append(s, e)[i] = s[i]
  OBVIOUS
<1>2. CASE Len(s) # 0
  BY <1>1, <1>2, FlatLonger
<1>3. CASE Len(s) = 0
  <2>1. s = <<>> /\ Append(s, e) \in Seq(Seq(K)) /\ <<>> \o e = e
    BY <1>3
  <2>2. PICK f : Flattens(f, Append(s, e), 1) /\ FlattenSeq(Append(s, e)) = f[1]
    <3>1. PICK t : t = Append(s, e)
      OBVIOUS
    <3>2. Len(t) = 1 /\ Len(t) \in Nat \ {0}
      BY <1>1, <1>3, <3>1
    <3>3. \E f : Flattens(f, t, Len(t)) /\ FlattenSeq(t) = f[Len(t)]
      BY <3>2, FlatDef
    <3> QED BY <3>1, <3>2, <3>3
  <2>3. f[1] = e
    <3> DEFINE h == [j \in 1..1 |-> IF j = 1 THEN Append(s, e)[j] ELSE f[j - 1] \o Append(s, e)[j]]
    <3>1. f = h
      BY <2>2 DEF Flattens
    <3>2. h[1] = Append(s, e)[1]
      OBVIOUS
    <3> HIDE DEF h
    <3> QED BY <1>1, <1>3, <3>1, <3>2
  <2> QED BY <2>1, <2>2, <2>3, FlatEmpty
<1> QED BY <1>2, <1>3

\* A sequence is its front and its last element.
LEMMA LastApart ==
  ASSUME NEW S, NEW s \in Seq(S), NEW n \in Nat, Len(s) = n + 1
  PROVE  \E u \in Seq(S), e \in S : s = Append(u, e) /\ Len(u) = n
<1> DEFINE u == SubSeq(s, 1, n)
<1>1. u \in Seq(S) /\ Len(u) = n /\ s[n + 1] \in S
  OBVIOUS
<1>2. s = Append(u, s[n + 1])
  <2> DEFINE t == Append(u, s[n + 1])
  <2>1. t \in Seq(S) /\ Len(t) = n + 1 /\ \A i \in 1..(n + 1) : t[i] = s[i]
    OBVIOUS
  <2> HIDE DEF t
  <2>2. s = t
    BY <2>1
  <2> QED BY <2>2 DEF t
<1> QED BY <1>1, <1>2

\* Sequences of one length with the same elements are the same.
LEMMA SameSeq ==
  ASSUME NEW S, NEW s \in Seq(S), NEW t \in Seq(S), Len(s) = Len(t),
         \A i \in 1..Len(s) : s[i] = t[i]
  PROVE  s = t
  OBVIOUS

\* The beginning of a sequence.
LEMMA Begun ==
  ASSUME NEW S, NEW s \in Seq(S), NEW m \in 0..Len(s)
  PROVE  /\ SubSeq(s, 1, m) \in Seq(S) /\ Len(SubSeq(s, 1, m)) = m
         /\ \A i \in 1..m : SubSeq(s, 1, m)[i] = s[i]
  OBVIOUS

\* Two sequences that are joined.
LEMMA Joined ==
  ASSUME NEW S, NEW s \in Seq(S), NEW t \in Seq(S)
  PROVE  s \o t \in Seq(S) /\ Len(s \o t) = Len(s) + Len(t)
  OBVIOUS

\* The elements of the second.
LEMMA Behind ==
  ASSUME NEW S, NEW s \in Seq(S), NEW t \in Seq(S), NEW i \in (Len(s) + 1)..(Len(s) + Len(t))
  PROVE  (s \o t)[i] = t[i - Len(s)]
  OBVIOUS

\* The whole of two sequences of parts is the two wholes.
LEMMA FlatConcat ==
  ASSUME NEW K, NEW s \in Seq(Seq(K)), NEW t \in Seq(Seq(K))
  PROVE  FlattenSeq(s \o t) = FlattenSeq(s) \o FlattenSeq(t)
<1> DEFINE S == {n \in Nat : \A v \in Seq(Seq(K)) :
                    Len(v) = n => FlattenSeq(s \o v) = FlattenSeq(s) \o FlattenSeq(v)}
<1>1. 0 \in S
  <2> SUFFICES ASSUME NEW v \in Seq(Seq(K)), Len(v) = 0
               PROVE  FlattenSeq(s \o v) = FlattenSeq(s) \o FlattenSeq(v)
    OBVIOUS
  <2>1. v = <<>> /\ s \o v = s
    OBVIOUS
  <2>2. FlattenSeq(v) = <<>> /\ FlattenSeq(s) \in Seq(K)
    BY <2>1, FlatEmpty, FlatType
  <2> QED BY <2>1, <2>2
<1>2. ASSUME NEW n \in S PROVE n + 1 \in S
  <2> SUFFICES ASSUME NEW v \in Seq(Seq(K)), Len(v) = n + 1
               PROVE  FlattenSeq(s \o v) = FlattenSeq(s) \o FlattenSeq(v)
    OBVIOUS
  <2>1. PICK u \in Seq(Seq(K)), e \in Seq(K) : v = Append(u, e) /\ Len(u) = n
    BY LastApart
  <2>2. FlattenSeq(s \o u) = FlattenSeq(s) \o FlattenSeq(u)
    BY <2>1
  <2>3. s \o v = Append(s \o u, e) /\ s \o u \in Seq(Seq(K))
    BY <2>1, SMTT(60)
  <2>4. /\ FlattenSeq(Append(s \o u, e)) = FlattenSeq(s \o u) \o e
        /\ FlattenSeq(Append(u, e)) = FlattenSeq(u) \o e
    BY <2>3, FlatStep
  <2>5. FlattenSeq(s) \in Seq(K) /\ FlattenSeq(u) \in Seq(K)
    BY FlatType
  <2>6. ASSUME NEW x \in Seq(K), NEW y \in Seq(K) PROVE (x \o y) \o e = x \o (y \o e)
    BY SMTT(60)
  <2> QED BY <2>1, <2>2, <2>3, <2>4, <2>5, <2>6
<1>3. S = Nat
  <2> HIDE DEF S
  <2>1. S \subseteq Nat
    BY DEF S
  <2> QED BY <1>1, <1>2, <2>1, Everywhere
<1>4. Len(t) \in Nat
  OBVIOUS
<1> QED BY <1>3, <1>4

\* Longer parts make a longer whole.
LEMMA FlatDominated ==
  ASSUME NEW K, NEW s \in Seq(Seq(K)), NEW t \in Seq(Seq(K)), Len(s) = Len(t),
         \A i \in 1..Len(s) : Len(s[i]) <= Len(t[i])
  PROVE  Len(FlattenSeq(s)) <= Len(FlattenSeq(t))
<1> DEFINE S == {n \in Nat : \A v, w \in Seq(Seq(K)) :
                    Len(v) = n /\ Len(w) = n /\ (\A i \in 1..n : Len(v[i]) <= Len(w[i]))
                    => Len(FlattenSeq(v)) <= Len(FlattenSeq(w))}
<1>1. 0 \in S
  <2> SUFFICES ASSUME NEW v \in Seq(Seq(K)), NEW w \in Seq(Seq(K)), Len(v) = 0, Len(w) = 0
               PROVE  Len(FlattenSeq(v)) <= Len(FlattenSeq(w))
    OBVIOUS
  <2>1. v = <<>> /\ w = <<>>
    OBVIOUS
  <2> QED BY <2>1, FlatEmpty
<1>2. ASSUME NEW n \in S PROVE n + 1 \in S
  <2> SUFFICES ASSUME NEW v \in Seq(Seq(K)), NEW w \in Seq(Seq(K)), Len(v) = n + 1,
                      Len(w) = n + 1, \A i \in 1..(n + 1) : Len(v[i]) <= Len(w[i])
               PROVE  Len(FlattenSeq(v)) <= Len(FlattenSeq(w))
    OBVIOUS
  <2>1. PICK u \in Seq(Seq(K)), e \in Seq(K) : v = Append(u, e) /\ Len(u) = n
    BY LastApart
  <2>2. PICK x \in Seq(Seq(K)), y \in Seq(K) : w = Append(x, y) /\ Len(x) = n
    BY LastApart
  <2>3. \A i \in 1..n : v[i] = u[i] /\ w[i] = x[i]
    BY <2>1, <2>2
  <2>4. v[n + 1] = e /\ w[n + 1] = y
    BY <2>1, <2>2
  <2>5. Len(e) <= Len(y)
    BY <2>4
  <2>6. \A i \in 1..n : Len(u[i]) <= Len(x[i])
    BY <2>3, SMTT(60)
  <2>7. Len(FlattenSeq(u)) <= Len(FlattenSeq(x))
    BY <2>1, <2>2, <2>6
  <2>8. FlattenSeq(v) = FlattenSeq(u) \o e /\ FlattenSeq(w) = FlattenSeq(x) \o y
    BY <2>1, <2>2, FlatStep
  <2>9. FlattenSeq(u) \in Seq(K) /\ FlattenSeq(x) \in Seq(K)
    BY FlatType
  <2> HIDE DEF S
  <2> QED BY <2>5, <2>7, <2>8, <2>9
<1>3. S = Nat
  <2> HIDE DEF S
  <2>1. S \subseteq Nat
    BY DEF S
  <2> QED BY <1>1, <1>2, <2>1, Everywhere
<1>4. Len(s) \in Nat
  OBVIOUS
<1> QED BY <1>3, <1>4

\* A set of places has a last one.
LEMMA Latest ==
  ASSUME NEW n \in Nat, NEW T, T \subseteq 1..n, T # {}
  PROVE  \E m \in T : \A k \in T : k <= m
<1> DEFINE U == {n - k : k \in T}
<1>1. U \subseteq Nat /\ U # {}
  <2>1. \A k \in T : n - k \in Nat
    OBVIOUS
  <2> QED BY <2>1
<1>2. PICK u \in U : \A v \in U : u <= v
  <2> HIDE DEF U
  <2> QED BY <1>1, Least
<1>3. PICK m \in T : u = n - m
  OBVIOUS
<1>4. ASSUME NEW k \in T PROVE k <= m
  BY <1>2, <1>3, SMTT(60)
<1> QED BY <1>4

\* The last line that is not blank is one.
LEMMA LastLineIs ==
  ASSUME NEW t \in Seq(Kinds), HasLine(t)
  PROVE  /\ LastLine(t) \in 1..Len(t) /\ ~IsBlank(t[LastLine(t)])
         /\ \A j \in (LastLine(t) + 1)..Len(t) : IsBlank(t[j])
<1> DEFINE T == {i \in 1..Len(t) : ~IsBlank(t[i])}
<1>1. Len(t) \in Nat /\ T \subseteq 1..Len(t) /\ T # {}
  BY DEF HasLine
<1>2. PICK m \in T : \A k \in T : k <= m
  <2> HIDE DEF T
  <2> QED BY <1>1, Latest
<1>3. /\ m \in DOMAIN t /\ ~IsBlank(t[m])
      /\ \A j \in (m + 1)..Len(t) : IsBlank(t[j])
  <2>1. ASSUME NEW j \in (m + 1)..Len(t), ~IsBlank(t[j]) PROVE FALSE
    BY <1>2, <2>1
  <2> QED BY <2>1
<1>4. /\ LastLine(t) \in DOMAIN t /\ ~IsBlank(t[LastLine(t)])
      /\ \A j \in (LastLine(t) + 1)..Len(t) : IsBlank(t[j])
  BY <1>3 DEF LastLine
<1> QED BY <1>4

\* The last message with a line is one.
LEMMA CarrierIs ==
  ASSUME NEW ms \in Seq(Text), \E i \in DOMAIN ms : HasLine(ms[i])
  PROVE  /\ Carrier(ms) \in 1..Len(ms) /\ HasLine(ms[Carrier(ms)])
         /\ \A j \in (Carrier(ms) + 1)..Len(ms) : ~HasLine(ms[j])
<1> DEFINE T == {i \in 1..Len(ms) : HasLine(ms[i])}
<1>1. Len(ms) \in Nat /\ T \subseteq 1..Len(ms) /\ T # {}
  OBVIOUS
<1>2. PICK m \in T : \A k \in T : k <= m
  <2> HIDE DEF T
  <2> QED BY <1>1, Latest
<1>3. /\ m \in DOMAIN ms /\ HasLine(ms[m])
      /\ \A j \in (m + 1)..Len(ms) : ~HasLine(ms[j])
  <2>1. ASSUME NEW j \in (m + 1)..Len(ms), HasLine(ms[j]) PROVE FALSE
    BY <1>2, <2>1
  <2> QED BY <2>1
<1>4. /\ Carrier(ms) \in DOMAIN ms /\ HasLine(ms[Carrier(ms)])
      /\ \A j \in (Carrier(ms) + 1)..Len(ms) : ~HasLine(ms[j])
  BY <1>3 DEF Carrier
<1> QED BY <1>4

\* A text without its envelope is a beginning of it that ends in a line.
LEMMA StrippedIs ==
  ASSUME NEW t \in Seq(Kinds), HasLine(t)
  PROVE  \E m \in 0..(LastLine(t) - 1) :
            /\ Stripped(t) = SubSeq(t, 1, m)
            /\ m # 0 => ~IsBlank(t[m])
            /\ \A j \in (m + 1)..(LastLine(t) - 1) : IsBlank(t[j])
<1> DEFINE l == LastLine(t)
           b == SubSeq(t, 1, l - 1)
<1>1. l \in 1..Len(t)
  BY LastLineIs
<1> HIDE DEF l
<1>2. b \in Seq(Kinds) /\ Len(b) = l - 1 /\ \A j \in 1..(l - 1) : b[j] = t[j]
  BY <1>1
<1>3. Stripped(t) = IF HasLine(b) THEN SubSeq(b, 1, LastLine(b)) ELSE <<>>
  BY DEF Stripped, l
<1> HIDE DEF b
<1>4. CASE HasLine(b)
  <2> DEFINE m == LastLine(b)
  <2>1. /\ m \in 1..Len(b) /\ ~IsBlank(b[m]) /\ \A j \in (m + 1)..Len(b) : IsBlank(b[j])
    BY <1>2, <1>4, LastLineIs
  <2> HIDE DEF m
  <2>2. SubSeq(b, 1, m) = SubSeq(t, 1, m)
    <3>1. /\ SubSeq(b, 1, m) \in Seq(Kinds) /\ SubSeq(t, 1, m) \in Seq(Kinds)
          /\ Len(SubSeq(b, 1, m)) = m /\ Len(SubSeq(t, 1, m)) = m
      BY <1>1, <1>2, <2>1
    <3>2. ASSUME NEW i \in 1..m PROVE SubSeq(b, 1, m)[i] = SubSeq(t, 1, m)[i]
      BY <1>1, <1>2, <2>1
    <3> QED BY <3>1, <3>2
  <2>3. m \in 0..(l - 1) /\ ~IsBlank(t[m]) /\ \A j \in (m + 1)..(l - 1) : IsBlank(t[j])
    BY <1>1, <1>2, <2>1
  <2>4. Stripped(t) = SubSeq(t, 1, m)
    BY <1>3, <1>4, <2>2 DEF m
  <2> QED BY <2>3, <2>4 DEF l
<1>5. CASE ~HasLine(b)
  <2>1. \A j \in 1..(l - 1) : IsBlank(t[j])
    BY <1>2, <1>5 DEF HasLine
  <2>2. SubSeq(t, 1, 0) = <<>>
    OBVIOUS
  <2>3. Stripped(t) = SubSeq(t, 1, 0) /\ 0 \in 0..(l - 1)
    BY <1>1, <1>3, <1>5, <2>2
  <2> QED BY <2>1, <2>3 DEF l
<1> QED BY <1>4, <1>5

-----------------------------------------------------------------------------
(* What is rendered                                                         *)

\* The messages that are rendered: an empty one is left out.
Kept(ms) == [i \in DOMAIN ms |-> IF ms[i] = <<"empty">> THEN <<>> ELSE ms[i]]

\* What is kept of texts are texts.
LEMMA KeptType ==
  ASSUME NEW ms \in Seq(Seq(Kinds))
  PROVE  Kept(ms) \in Seq(Seq(Kinds)) /\ Len(Kept(ms)) = Len(ms) /\ DOMAIN Kept(ms) = DOMAIN ms
<1>1. <<>> \in Seq(Kinds)
  OBVIOUS
<1>2. \A i \in 1..Len(ms) : (IF ms[i] = <<"empty">> THEN <<>> ELSE ms[i]) \in Seq(Kinds)
  BY <1>1
<1>3. DOMAIN ms = 1..Len(ms) /\ Len(ms) \in Nat
  OBVIOUS
<1>4. Kept(ms) = [i \in 1..Len(ms) |-> IF ms[i] = <<"empty">> THEN <<>> ELSE ms[i]]
  BY <1>3 DEF Kept
<1>5. Kept(ms) \in [1..Len(ms) -> Seq(Kinds)]
  BY <1>2, <1>4
<1> QED BY <1>3, <1>5

\* One message of it.
LEMMA KeptAt ==
  ASSUME NEW ms \in Seq(Seq(Kinds)), NEW i \in 1..Len(ms)
  PROVE  Kept(ms)[i] = IF ms[i] = <<"empty">> THEN <<>> ELSE ms[i]
<1>1. i \in DOMAIN ms
  OBVIOUS
<1> QED BY <1>1 DEF Kept

\* A rendering is a text.
LEMMA RenderingType ==
  ASSUME NEW ms \in Seq(Seq(Kinds))
  PROVE  Rendering(ms) = FlattenSeq(Kept(ms)) /\ Rendering(ms) \in Seq(Kinds)
  BY KeptType, FlatType DEF Kept, Rendering

\* Messages are rendered one after the other.
LEMMA RenderingConcat ==
  ASSUME NEW s \in Seq(Seq(Kinds)), NEW t \in Seq(Seq(Kinds))
  PROVE  Rendering(s \o t) = Rendering(s) \o Rendering(t)
<1>1. s \o t \in Seq(Seq(Kinds)) /\ Len(s \o t) = Len(s) + Len(t)
  OBVIOUS
<1>2. /\ Kept(s) \in Seq(Seq(Kinds)) /\ Kept(t) \in Seq(Seq(Kinds))
      /\ Kept(s \o t) \in Seq(Seq(Kinds))
      /\ Len(Kept(s)) = Len(s) /\ Len(Kept(t)) = Len(t)
      /\ Len(Kept(s \o t)) = Len(s) + Len(t)
  BY <1>1, KeptType
<1>3. Kept(s \o t) = Kept(s) \o Kept(t)
  <2>1. ASSUME NEW i \in 1..(Len(s) + Len(t)) PROVE Kept(s \o t)[i] = (Kept(s) \o Kept(t))[i]
    <3>1. Kept(s \o t)[i] = IF (s \o t)[i] = <<"empty">> THEN <<>> ELSE (s \o t)[i]
      BY <1>1, KeptAt
    <3>2. CASE i <= Len(s)
      <4>1. (s \o t)[i] = s[i] /\ (Kept(s) \o Kept(t))[i] = Kept(s)[i]
        BY <1>2, <3>2
      <4>2. Kept(s)[i] = IF s[i] = <<"empty">> THEN <<>> ELSE s[i]
        BY <3>2, KeptAt
      <4> QED BY <3>1, <4>1, <4>2
    <3>3. CASE i > Len(s)
      <4>1. /\ (s \o t)[i] = t[i - Len(s)]
            /\ (Kept(s) \o Kept(t))[i] = Kept(t)[i - Len(s)]
        <5>1. i \in (Len(s) + 1)..(Len(s) + Len(t))
          BY <3>3
        <5>2. (s \o t)[i] = t[i - Len(s)]
          BY <5>1, Behind
        <5>3. (Kept(s) \o Kept(t))[i] = Kept(t)[i - Len(Kept(s))]
          BY <1>2, <5>1, Behind
        <5> QED BY <1>2, <5>2, <5>3
      <4>2. i - Len(s) \in 1..Len(t)
        <5>1. \A a, b \in Nat : \A k \in 1..(a + b) : k > a => k - a \in 1..b
          OBVIOUS
        <5>2. Len(s) \in Nat /\ Len(t) \in Nat /\ i \in 1..(Len(s) + Len(t))
          OBVIOUS
        <5> QED BY <3>3, <5>1, <5>2, Zenon
      <4>3. Kept(t)[i - Len(s)] = IF t[i - Len(s)] = <<"empty">> THEN <<>> ELSE t[i - Len(s)]
        BY <4>2, KeptAt
      <4> QED BY <3>1, <4>1, <4>3
    <3>4. Len(s) \in Nat /\ i \in Nat
      OBVIOUS
    <3>5. i <= Len(s) \/ i > Len(s)
      BY <3>4
    <3> QED BY <3>2, <3>3, <3>5, Zenon
  <2>2. Kept(s) \o Kept(t) \in Seq(Seq(Kinds)) /\ Len(Kept(s) \o Kept(t)) = Len(s) + Len(t)
    BY <1>2, Joined
  <2> QED BY <1>2, <2>1, <2>2, SameSeq
<1>4. FlattenSeq(Kept(s) \o Kept(t)) = FlattenSeq(Kept(s)) \o FlattenSeq(Kept(t))
  BY <1>2, FlatConcat
<1> QED BY <1>1, <1>3, <1>4, RenderingType

\* More messages are rendered as more lines.
LEMMA RenderingGrows ==
  ASSUME NEW ms \in Seq(Seq(Kinds)), NEW i \in 0..Len(ms), NEW j \in i..Len(ms)
  PROVE  Len(Rendering(SubSeq(ms, 1, i))) <= Len(Rendering(SubSeq(ms, 1, j)))
<1> DEFINE a == SubSeq(ms, 1, i)
           b == SubSeq(ms, i + 1, j)
           c == SubSeq(ms, 1, j)
<1>1. /\ a \in Seq(Seq(Kinds)) /\ b \in Seq(Seq(Kinds)) /\ c \in Seq(Seq(Kinds))
      /\ Len(a) = i /\ Len(b) = j - i /\ Len(c) = j
  OBVIOUS
<1>2. c = a \o b
  <2>1. \A k \in 1..j : c[k] = (a \o b)[k]
    OBVIOUS
  <2>2. Len(a \o b) = Len(c) /\ a \o b \in Seq(Seq(Kinds))
    BY <1>1
  <2> HIDE DEF a, b, c
  <2> QED BY <1>1, <2>1, <2>2, SameSeq
<1> HIDE DEF a, b, c
<1>3. Rendering(c) = Rendering(a) \o Rendering(b)
  BY <1>1, <1>2, RenderingConcat
<1>4. Rendering(a) \in Seq(Kinds) /\ Rendering(b) \in Seq(Kinds)
  BY <1>1, RenderingType
<1>5. Len(Rendering(a)) <= Len(Rendering(c))
  BY <1>3, <1>4
<1> QED BY <1>5 DEF a, c

\* Shorter messages are rendered as fewer lines.
LEMMA RenderingDominated ==
  ASSUME NEW s \in Seq(Seq(Kinds)), NEW t \in Seq(Seq(Kinds)), Len(s) = Len(t),
         \A i \in 1..Len(s) : Len(Kept(s)[i]) <= Len(Kept(t)[i])
  PROVE  Len(Rendering(s)) <= Len(Rendering(t))
  BY KeptType, RenderingType, FlatDominated

\* Texts are sequences of lines.
LEMMA TextIsSeq == Text \subseteq Seq(Kinds) /\ Seq(Text) \subseteq Seq(Seq(Kinds))
  BY DEF Text

\* What has a line is a text.
LEMMA TextIs == ASSUME NEW u \in Seq(Kinds), Len(u) # 0 PROVE u \in Text
  BY DEF Text

\* What may be shown is a text, and no longer than the whole rendering.
LEMMA VisibleType ==
  ASSUME NEW ms \in Seq(Text)
  PROVE  Visible(ms) \in Seq(Kinds) /\ Len(Visible(ms)) <= Len(Rendering(ms))
<1>1. CASE ~\E i \in DOMAIN ms : HasLine(ms[i])
  <2>1. Visible(ms) = <<>> /\ <<>> \in Seq(Kinds)
    BY <1>1 DEF Visible
  <2>2. Rendering(ms) \in Seq(Kinds)
    BY TextIsSeq, RenderingType
  <2>3. Len(<<>>) = 0 /\ Len(Rendering(ms)) \in Nat
    BY <2>2
  <2> QED BY <2>1, <2>3
<1>2. CASE \E i \in DOMAIN ms : HasLine(ms[i])
  <2> DEFINE c == Carrier(ms)
             vs == [ms EXCEPT ![c] = Stripped(@)]
  <2>1. c \in 1..Len(ms) /\ HasLine(ms[c])
    BY <1>2, CarrierIs
  <2>2. ms[c] \in Seq(Kinds)
    BY <2>1, TextIsSeq
  <2>3. PICK m \in 0..(LastLine(ms[c]) - 1) : Stripped(ms[c]) = SubSeq(ms[c], 1, m)
    BY <2>1, <2>2, StrippedIs
  <2>4. LastLine(ms[c]) \in 1..Len(ms[c])
    BY <2>1, <2>2, LastLineIs
  <2>5. Stripped(ms[c]) \in Seq(Kinds) /\ Len(Stripped(ms[c])) <= Len(ms[c])
    BY <2>2, <2>3, <2>4
  <2>6. ms[c] # <<"empty">>
    BY <2>1 DEF HasLine, IsBlank
  <2> HIDE DEF c
  <2>7. /\ vs \in Seq(Seq(Kinds)) /\ Len(vs) = Len(ms) /\ vs[c] = Stripped(ms[c])
        /\ \A i \in 1..Len(ms) : i # c => vs[i] = ms[i]
    BY <2>1, <2>5, TextIsSeq
  <2> HIDE DEF vs
  <2>8. \A i \in 1..Len(vs) : Len(Kept(vs)[i]) <= Len(Kept(ms)[i])
    <3> SUFFICES ASSUME NEW i \in 1..Len(ms) PROVE Len(Kept(vs)[i]) <= Len(Kept(ms)[i])
      BY <2>7
    <3>1. /\ Kept(vs)[i] = IF vs[i] = <<"empty">> THEN <<>> ELSE vs[i]
          /\ Kept(ms)[i] = IF ms[i] = <<"empty">> THEN <<>> ELSE ms[i]
      BY <2>7, TextIsSeq, KeptAt
    <3>2. CASE i = c
      BY <2>1, <2>2, <2>5, <2>6, <2>7, <3>1, <3>2
    <3>3. CASE i # c
      <4>1. Kept(vs)[i] = Kept(ms)[i]
        BY <2>7, <3>1, <3>3
      <4>2. Kept(ms)[i] \in Seq(Kinds)
        BY TextIsSeq, KeptType
      <4> QED BY <4>1, <4>2
    <3> QED BY <3>2, <3>3
  <2>9. Len(Rendering(vs)) <= Len(Rendering(ms))
    BY <2>7, <2>8, TextIsSeq, RenderingDominated
  <2>10. Visible(ms) = Rendering(vs)
    BY <1>2 DEF Visible, vs, c
  <2> QED BY <2>7, <2>9, <2>10, RenderingType
<1> QED BY <1>1, <1>2

-----------------------------------------------------------------------------
(* The normalizers                                                          *)

\* The states of a normalizer.
NormType == [at : Phases, messages : Seq(Text), text : Seq(Kinds), ack : BOOLEAN]

\* A message of Prime that has ended has a text.
Told(n) == stream = "prime" /\ n.at \in {"messageend", "turnend", "agentend"} => n.text # <<>>

\* A record that is part of a text carries it.
Legible(r) ==
    /\ r.texts \in Seq(Text)
    /\ r.kind \in {"text_delta", "text_end"} \/ (stream = "prime" /\ r.kind = "assistant_end")
          => r.texts # <<>>

\* What a normalizer keeps.
LEMMA NormFields ==
  ASSUME NEW n \in NormType
  PROVE  /\ n.at \in Phases /\ n.messages \in Seq(Text) /\ n.text \in Seq(Kinds)
         /\ n.ack \in BOOLEAN
  BY DEF NormType

\* Its steps keep its type: another phase,
LEMMA AtType ==
  ASSUME NEW n \in NormType, NEW p \in Phases
  PROVE  At(n, p) \in NormType /\ At(n, p).text = n.text /\ At(n, p).at = p
  BY DEF NormType, At

\* a malformed stream,
LEMMA BadType ==
  ASSUME NEW n \in NormType
  PROVE  Bad(n) \in NormType /\ Bad(n).at = "malformed"
  BY DEF NormType, Bad, Phases

\* new messages,
LEMMA SaidType ==
  ASSUME NEW n \in NormType, NEW ts \in Seq(Text)
  PROVE  Said(n, ts) \in NormType /\ Said(n, ts).at = n.at
<1>1. n.messages \o ts \in Seq(Text)
  BY NormFields, Joined
<1> QED BY <1>1 DEF NormType, Said

\* a record of Prime,
LEMMA PrimeType ==
  ASSUME NEW n \in NormType, NEW r, Legible(r), Told(n), stream = "prime"
  PROVE  Prime(n, r) \in NormType /\ Told(Prime(n, r))
<1> DEFINE text == IF r.kind \in {"text_delta", "text_end", "assistant_end"} THEN r.texts[1]
                   ELSE n.text
           m == [n EXCEPT !.at = PrimeOrder[r.kind][2], !.text = text,
                          !.messages = IF r.kind = "agent_end" THEN <<text>> ELSE @]
<1>1. CASE Prime(n, r) = At(n, "failed") \/ Prime(n, r) = Bad(n)
  <2>1. "failed" \in Phases
    BY DEF Phases
  <2> QED BY <1>1, <2>1, AtType, BadType DEF Told
<1>2. CASE /\ Prime(n, r) = m /\ r.kind \in DOMAIN PrimeOrder
           /\ n.at \in PrimeOrder[r.kind][1]
  <2>1. text \in Seq(Kinds)
    <3>1. CASE r.kind \in {"text_delta", "text_end", "assistant_end"}
      BY <3>1 DEF Legible, Text
    <3>2. CASE r.kind \notin {"text_delta", "text_end", "assistant_end"}
      BY <3>2, NormFields
    <3> QED BY <3>1, <3>2
  <2>2. PrimeOrder[r.kind][2] \in Phases
    BY <1>2 DEF PrimeOrder, Phases
  <2>3. \/ r.kind \in {"text_end", "assistant_end"}
        \/ r.kind = "turn_end" /\ n.at = "turnend"
        \/ r.kind = "agent_end" /\ n.at = "agentend"
        \/ r.kind # "agent_end" /\ PrimeOrder[r.kind][2] \notin {"messageend", "turnend", "agentend"}
    BY <1>2 DEF PrimeOrder
  <2>4. r.kind \in {"text_end", "assistant_end"} => text # <<>> /\ text = r.texts[1]
    BY DEF Legible, Text
  <2>5. r.kind \in {"turn_end", "agent_end"} => text = n.text
    OBVIOUS
  <2>6. r.kind = "agent_end" => <<text>> \in Seq(Text)
    <3> SUFFICES ASSUME r.kind = "agent_end" PROVE <<text>> \in Seq(Text)
      OBVIOUS
    <3>1. text # <<>>
      BY <2>3, <2>5 DEF Told
    <3>2. text \in Text
      BY <2>1, <3>1 DEF Text
    <3> HIDE DEF text
    <3> QED BY <3>2
  <2> HIDE DEF text
  <2>7. m \in NormType
    BY <2>1, <2>2, <2>6 DEF NormType
  <2>8. m.at = PrimeOrder[r.kind][2] /\ m.text = text
    BY DEF NormType
  <2> HIDE DEF m
  <2>9. Told(m)
    BY <2>3, <2>4, <2>5, <2>8 DEF Told
  <2> QED BY <1>2, <2>7, <2>9
<1>3. \/ Prime(n, r) = At(n, "failed") \/ Prime(n, r) = Bad(n)
      \/ /\ Prime(n, r) = m /\ r.kind \in DOMAIN PrimeOrder
         /\ n.at \in PrimeOrder[r.kind][1]
  BY DEF Prime
<1> QED BY <1>1, <1>2, <1>3

\* a record of OMP,
LEMMA OmpType ==
  ASSUME NEW n \in NormType, NEW r, Legible(r)
  PROVE  Omp(n, r) \in NormType
<1> DEFINE m == [n EXCEPT !.at = OmpOrder[r.kind][2],
                      !.text = IF r.kind = "text_delta" THEN r.texts[1] ELSE @,
                      !.messages = IF r.kind = "assistant_end" THEN r.texts ELSE @]
<1>1. CASE Omp(n, r) \in {n, At(n, "failed"), Bad(n), [n EXCEPT !.ack = TRUE]}
  <2>1. "failed" \in Phases
    BY DEF Phases
  <2>2. [n EXCEPT !.ack = TRUE] \in NormType
    BY DEF NormType
  <2>3. At(n, "failed") \in NormType /\ Bad(n) \in NormType
    BY <2>1, AtType, BadType
  <2> QED BY <1>1, <2>2, <2>3
<1>2. CASE Omp(n, r) = m /\ r.kind \in DOMAIN OmpOrder
  <2>1. OmpOrder[r.kind][2] \in Phases
    BY <1>2 DEF OmpOrder, Phases
  <2>2. r.kind = "text_delta" => r.texts[1] \in Seq(Kinds)
    BY DEF Legible, Text
  <2>3. r.texts \in Seq(Text)
    BY DEF Legible
  <2>4. m \in NormType
    BY <2>1, <2>2, <2>3 DEF NormType
  <2> QED BY <1>2, <2>4
<1>3. \/ Omp(n, r) \in {n, At(n, "failed"), Bad(n), [n EXCEPT !.ack = TRUE]}
      \/ Omp(n, r) = m /\ r.kind \in DOMAIN OmpOrder
  <2> DEFINE p1 == r.kind = "presentation" /\ n.at # "first"
             p2 == r.kind = "interaction" /\ n.at # "first"
             p3 == r.kind \in {"response", "refused"}
             p4 == r.kind \in {"state_failed", "nonterminal"}
             p5 == r.kind \in DOMAIN OmpOrder /\ n.at = OmpOrder[r.kind][1]
  <2>0. {"presentation", "interaction", "response", "refused", "state_failed", "nonterminal"}
           \cap DOMAIN OmpOrder = {}
    BY DEF OmpOrder
  <2>1. \/ p1 /\ Omp(n, r) = n
        \/ p2 /\ Omp(n, r) = At(n, "failed")
        \/ p3 /\ Omp(n, r) \in {Bad(n), At(n, "failed"), [n EXCEPT !.ack = TRUE]}
        \/ p4 /\ Omp(n, r) \in {Bad(n), At(n, "failed")}
        \/ p5 /\ Omp(n, r) = m
        \/ Omp(n, r) = Bad(n)
    BY <2>0 DEF Omp
  <2> QED BY <2>1
<1> QED BY <1>1, <1>2, <1>3

\* and any record of any stream.
LEMMA NormalizeType ==
  ASSUME NEW n \in NormType, NEW r, Legible(r), Told(n), stream \in Streams
  PROVE  Normalize(n, r) \in NormType /\ Told(Normalize(n, r))
<1>1. CASE n.at \in {"malformed", "failed"}
  BY <1>1, ZenonT(90) DEF Normalize
<1>2. CASE n.at \notin {"malformed", "failed"}
  <2>0. \A p \in {"chat", "complete", "failed", "items", "notified", "tools", "turn"} : p \in Phases
    BY DEF Phases
  <2>1. CASE stream = "codex"
    <3>1. Normalize(n, r) = Codex(n, r)
      BY <1>2, <2>1, ZenonT(90) DEF Normalize
    <3>2. Codex(n, r) \in NormType
      BY <2>0, AtType, BadType, SaidType DEF Codex, Legible
    <3> QED BY <2>1, <3>1, <3>2 DEF Told
  <2>2. CASE stream = "sdk"
    <3>1. Normalize(n, r) = Sdk(n, r)
      BY <1>2, <2>2, ZenonT(90) DEF Normalize
    <3>2. Sdk(n, r) \in NormType
      BY <2>0, AtType, BadType, SaidType DEF Sdk, Legible
    <3> QED BY <2>2, <3>1, <3>2 DEF Told
  <2>3. CASE stream = "claude"
    <3>1. Normalize(n, r) = Claude(n, r)
      BY <1>2, <2>3, ZenonT(90) DEF Normalize
    <3>2. Claude(n, r) \in NormType
      BY <2>0, AtType, BadType, SaidType DEF Claude, Legible
    <3> QED BY <2>3, <3>1, <3>2 DEF Told
  <2>4. CASE stream = "prime"
    BY <1>2, <2>4, PrimeType, ZenonT(90) DEF Normalize
  <2>5. CASE stream = "omp"
    <3>1. Normalize(n, r) = Omp(n, r)
      BY <1>2, <2>5, ZenonT(90) DEF Normalize
    <3> QED BY <2>5, <3>1, OmpType DEF Told
  <2> QED BY <2>1, <2>2, <2>3, <2>4, <2>5, LiveAssumption
<1> QED BY <1>1, <1>2

-----------------------------------------------------------------------------
(* The records and their completion                                         *)

\* One text is a list of messages.
LEMMA OneText == ASSUME NEW t \in Text PROVE <<t>> \in Seq(Text) /\ <<t>> # <<>>
  OBVIOUS

\* A text that grew is a text.
LEMMA GrownType == ASSUME NEW t \in Seq(Kinds) PROVE Grown(t) \subseteq Text
<1> SUFFICES ASSUME NEW u \in Grown(t) PROVE u \in Text
  OBVIOUS
<1>1. CASE \E k \in Kinds : u = Append(t, k)
  BY <1>1 DEF Text
<1>2. CASE t # <<>> /\ \E k \in Kinds : u = Append(Front(t), k)
  <2>1. Front(t) \in Seq(Kinds)
    BY <1>2 DEF Front
  <2> QED BY <1>2, <2>1 DEF Text
<1>3. CASE t = <<>> /\ u = t
  BY <1>3 DEF Grown
<1> QED BY <1>1, <1>2, <1>3 DEF Grown

\* Blocks are texts.
LEMMA BlocksType == Blocks \subseteq Seq(Text)
<1> SUFFICES ASSUME NEW n \in 0..MaxBlocks, NEW f \in [1..n -> Messages] PROVE f \in Seq(Text)
  BY DEF Blocks
<1>1. f \in [1..n -> Text] /\ n \in Nat
  BY LiveAssumption
<1> QED BY <1>1

\* The blocks of a text that was streamed are texts.
LEMMA SplitType == ASSUME NEW t \in Text PROVE Split(t) \subseteq Seq(Text)
<1> SUFFICES ASSUME NEW ts \in Split(t) PROVE ts \in Seq(Text)
  OBVIOUS
<1>1. CASE ts = <<t>>
  BY <1>1, OneText
<1>2. CASE \E i \in 1..(Len(t) - 1) : ts = <<SubSeq(t, 1, i), SubSeq(t, i + 1, Len(t))>>
  <2>1. PICK i \in 1..(Len(t) - 1) : ts = <<SubSeq(t, 1, i), SubSeq(t, i + 1, Len(t))>>
    BY <1>2
  <2>2. SubSeq(t, 1, i) \in Text /\ SubSeq(t, i + 1, Len(t)) \in Text
    <3>1. t \in Seq(Kinds) /\ Len(t) \in Nat /\ i < Len(t)
      BY DEF Text
    <3>2. /\ SubSeq(t, 1, i) \in Seq(Kinds) /\ Len(SubSeq(t, 1, i)) = i
          /\ SubSeq(t, i + 1, Len(t)) \in Seq(Kinds)
          /\ Len(SubSeq(t, i + 1, Len(t))) = Len(t) - i
      BY <3>1
    <3>3. i # 0 /\ Len(t) - i # 0
      BY <3>1
    <3>4. SubSeq(t, 1, i) \in Text
      BY <3>2, <3>3, TextIs
    <3>6. SubSeq(t, i + 1, Len(t)) \in Text
      BY <3>2, <3>3, TextIs
    <3> QED BY <3>4, <3>6
  <2> QED BY <2>1, <2>2
<1> QED BY <1>1, <1>2 DEF Split

\* Every record a harness may send carries the texts its kind needs.
LEMMA RecordsLegible ==
  ASSUME NEW r \in Records, norm \in NormType, stream \in Streams
  PROVE  Legible(r) /\ (Looked(r) => r.texts # <<>> \/ stream \in {"claude", "omp"})
<1>1. /\ norm.text \in Seq(Kinds)
      /\ \A t \in Messages : t \in Text
  BY NormFields, LiveAssumption
<1>2. CASE r.texts = <<>> /\ r.kind \notin {"text_delta", "text_end", "agent_message", "final"}
           /\ (stream = "prime" => r.kind # "assistant_end")
  BY <1>2, LiveAssumption DEF Legible, Looked
<1>3. CASE \E t \in Text : r.texts = <<t>>
  BY <1>3, OneText DEF Legible
<1>4. CASE stream = "claude" /\ r.kind = "assistant" /\ r.texts \in Blocks
  BY <1>4, BlocksType DEF Legible
<1>5. CASE stream = "omp" /\ r.kind = "assistant_end" /\ r.texts \in Seq(Text)
  BY <1>5 DEF Legible
<1>6. CASE stream = "codex"
  <2>1. \/ r.texts = <<>> /\ r.kind \notin {"text_delta", "text_end", "agent_message", "final"}
        \/ \E t \in Messages : r.texts = <<t>>
    BY <1>6 DEF Records, Bare, Texts, Record
  <2> QED BY <1>1, <1>2, <1>3, <1>6, <2>1
<1>7. CASE stream = "sdk"
  <2>1. \/ r.texts = <<>> /\ r.kind \notin {"text_delta", "text_end", "agent_message", "final"}
        \/ \E t \in Messages : r.texts = <<t>>
    BY <1>7 DEF Records, Bare, Texts, Record
  <2> QED BY <1>1, <1>2, <1>3, <1>7, <2>1
<1>8. CASE stream = "claude"
  <2>1. \/ r.texts = <<>> /\ r.kind \notin {"text_delta", "text_end", "agent_message", "final"}
        \/ r.kind = "assistant" /\ r.texts \in Blocks
    BY <1>8 DEF Records, Bare, Record
  <2> QED BY <1>2, <1>4, <1>8, <2>1
<1>9. CASE stream = "prime"
  <2>1. \/ r \in Bare((DOMAIN PrimeOrder \ {"text_delta", "text_end", "assistant_end"})
                     \cup {"refused", "extension_ui_request", "unknown"})
        \/ r \in Texts("text_delta", Grown(norm.text))
        \/ r \in Texts("text_end", (Messages \cup {norm.text}) \ {<<>>})
        \/ r \in Texts("assistant_end", (Messages \cup {norm.text}) \ {<<>>})
    BY <1>9 DEF Records
  <2>2. CASE r \in Bare((DOMAIN PrimeOrder \ {"text_delta", "text_end", "assistant_end"})
                      \cup {"refused", "extension_ui_request", "unknown"})
    <3>1. r.texts = <<>> /\ r.kind \notin {"text_delta", "text_end", "agent_message", "final",
                                         "assistant_end"}
      BY <2>2 DEF Bare, Record, PrimeOrder
    <3> QED BY <1>2, <3>1
  <2>3. CASE r \in Texts("text_delta", Grown(norm.text))
    <3>1. \E t \in Grown(norm.text) : r.texts = <<t>>
      BY <2>3 DEF Texts, Record
    <3> QED BY <1>1, <1>3, <3>1, GrownType
  <2>4. CASE \E k : r \in Texts(k, (Messages \cup {norm.text}) \ {<<>>})
    <3>1. \E t \in (Messages \cup {norm.text}) \ {<<>>} : r.texts = <<t>>
      BY <2>4 DEF Texts, Record
    <3>2. (Messages \cup {norm.text}) \ {<<>>} \subseteq Text
      BY <1>1 DEF Text
    <3> QED BY <1>3, <3>1, <3>2
  <2> QED BY <2>1, <2>2, <2>3, <2>4
<1>10. CASE stream = "omp"
  <2>1. \/ r \in Bare((DOMAIN OmpOrder \ {"text_delta", "assistant_end"})
                 \cup {"presentation", "interaction", "response", "refused", "state_failed",
                       "nonterminal", "unknown"})
        \/ r \in Texts("text_delta", Grown(norm.text))
        \/ \E ts \in IF norm.text = <<>> THEN Blocks ELSE Split(norm.text) :
              r = Record("assistant_end", ts)
    BY <1>10 DEF Records
  <2>2. CASE r \in Bare((DOMAIN OmpOrder \ {"text_delta", "assistant_end"})
                 \cup {"presentation", "interaction", "response", "refused", "state_failed",
                       "nonterminal", "unknown"})
    <3>1. r.texts = <<>> /\ r.kind \notin {"text_delta", "text_end", "agent_message", "final"}
      BY <2>2 DEF Bare, Record, OmpOrder
    <3> QED BY <1>2, <1>10, <3>1
  <2>3. CASE r \in Texts("text_delta", Grown(norm.text))
    <3>1. \E t \in Grown(norm.text) : r.texts = <<t>>
      BY <2>3 DEF Texts, Record
    <3> QED BY <1>1, <1>3, <3>1, GrownType
  <2>4. CASE \E ts \in IF norm.text = <<>> THEN Blocks ELSE Split(norm.text) :
                r = Record("assistant_end", ts)
    <3>1. PICK ts \in IF norm.text = <<>> THEN Blocks ELSE Split(norm.text) :
                r = Record("assistant_end", ts)
      BY <2>4
    <3>2. norm.text # <<>> => norm.text \in Text
      BY <1>1 DEF Text
    <3>3. ts \in Seq(Text)
      BY <3>2, BlocksType, SplitType
    <3> QED BY <1>5, <1>10, <3>1, <3>3 DEF Record
  <2> QED BY <2>1, <2>2, <2>3, <2>4
<1> QED BY <1>6, <1>7, <1>8, <1>9, <1>10, LiveAssumption

\* The completed stream keeps the type.
LEMMA CompletedType ==
  ASSUME NEW n \in NormType, Told(n), stream \in Streams, NEW r, Legible(r),
         stream = "prime" => r.texts # <<>>
  PROVE  Completed(n, r) \in NormType
<1>1. /\ \A k \in {"turn.completed", "result", "turn_end", "agent_end", "response"} :
             Legible(Record(k, <<>>))
      /\ Legible(r) => Legible(Record("assistant_end", r.texts))
      /\ stream = "prime" => Legible(Record("text_end", r.texts))
  <2>1. <<>> \in Seq(Text)
    OBVIOUS
  <2> QED BY <2>1 DEF Legible, Record
<1> DEFINE told == IF stream = "prime" /\ r.kind = "text_delta"
                   THEN Normalize(n, Record("text_end", r.texts)) ELSE n
           said == IF r.kind = "assistant_end" THEN told
                   ELSE Normalize(told, Record("assistant_end", r.texts))
           over == Normalize(Normalize(said, Record("turn_end", <<>>)), Record("agent_end", <<>>))
<1>2. told \in NormType /\ Told(told)
  BY <1>1, NormalizeType
<1> HIDE DEF told
<1>3. said \in NormType /\ Told(said)
  BY <1>1, <1>2, NormalizeType
<1> HIDE DEF said
<1>4. over \in NormType /\ Told(over)
  <2>1. /\ Normalize(said, Record("turn_end", <<>>)) \in NormType
        /\ Told(Normalize(said, Record("turn_end", <<>>)))
    BY <1>1, <1>3, NormalizeType
  <2> QED BY <1>1, <2>1, NormalizeType
<1> HIDE DEF over
<1>5. \/ Completed(n, r) \in {n, over}
      \/ Completed(n, r) = Normalize(over, Record("response", <<>>))
      \/ Completed(n, r) = Normalize(n, Record("turn.completed", <<>>))
      \/ Completed(n, r) = Normalize(n, Record("result", <<>>))
  BY LiveAssumption DEF Completed, over, said, told
<1> QED BY <1>1, <1>4, <1>5, NormalizeType

-----------------------------------------------------------------------------
(* What is shown                                                            *)

\* The part of the state that is text has its type.
LiveTyped ==
    /\ stream \in Streams
    /\ norm \in NormType /\ Told(norm)
    /\ candidates \in Seq(Text) /\ shown \in Seq(Kinds)

\* What is shown is no longer than what the messages seen would render.
ShownFits == Len(shown) <= Len(Rendering(candidates))

\* Place by place.
LEMMA StartsIs ==
  ASSUME NEW t \in Seq(Kinds), NEW p \in Seq(Kinds), p # <<>>
  PROVE  Starts(t, p) <=>
            /\ Len(p) <= Len(t) /\ \A i \in 1..(Len(p) - 1) : t[i] = p[i]
            /\ <<p[Len(p)], t[Len(p)]>> \in Growth
<1>1. Front(p) = SubSeq(p, 1, Len(p) - 1) /\ Last(p) = p[Len(p)] /\ Len(p) \in Nat \ {0}
  BY DEF Front, Last
<1>2. ASSUME Len(p) <= Len(t)
      PROVE  SubSeq(t, 1, Len(p) - 1) = SubSeq(p, 1, Len(p) - 1)
                <=> \A i \in 1..(Len(p) - 1) : t[i] = p[i]
  <2> DEFINE a == SubSeq(t, 1, Len(p) - 1)
             b == SubSeq(p, 1, Len(p) - 1)
  <2>1. /\ a \in Seq(Kinds) /\ b \in Seq(Kinds) /\ Len(a) = Len(p) - 1 /\ Len(b) = Len(p) - 1
        /\ \A i \in 1..(Len(p) - 1) : a[i] = t[i] /\ b[i] = p[i]
    <3>1. Len(p) - 1 \in 0..Len(p) /\ Len(p) - 1 \in 0..Len(t)
      BY <1>1, <1>2
    <3> QED BY <3>1, Begun
  <2> HIDE DEF a, b
  <2>2. a = b => \A i \in 1..(Len(p) - 1) : t[i] = p[i]
    BY <2>1
  <2>3. (\A i \in 1..(Len(p) - 1) : t[i] = p[i]) => a = b
    BY <2>1, SameSeq
  <2> QED BY <2>2, <2>3 DEF a, b
<1> QED BY <1>1, <1>2 DEF Starts

\* What a line may become.
LEMMA GrowthIs ==
  \A k, l : <<k, l>> \in Growth <=>
     /\ l \in Kinds /\ k \in Kinds
     /\ k = l \/ k = "empty" \/ (k = "half" /\ l = "secret")
  BY DEF Growth, Kinds

\* A message that grew: it was empty, or is as it began.
LEMMA Regrown ==
  ASSUME NEW t \in Text, NEW p \in Text, Starts(t, p)
  PROVE  /\ Len(p) <= Len(t)
         /\ t = <<"empty">> => p = <<"empty">>
         /\ Head(t) = "rest" => Head(p) = "rest" \/ p = <<"empty">>
<1>1. t \in Seq(Kinds) /\ p \in Seq(Kinds) /\ p # <<>> /\ t # <<>>
  BY DEF Text
<1>2. /\ Len(p) <= Len(t) /\ \A i \in 1..(Len(p) - 1) : t[i] = p[i]
      /\ <<p[Len(p)], t[Len(p)]>> \in Growth
  BY <1>1, StartsIs
<1>3. Len(p) \in Nat \ {0} /\ Head(p) = p[1] /\ Head(t) = t[1]
  BY <1>1
<1>4. CASE Len(p) > 1
  BY <1>1, <1>2, <1>3, <1>4
<1>5. CASE Len(p) = 1
  <2>1. t[1] = p[1] \/ p[1] = "empty" \/ t[1] = "secret"
    BY <1>2, <1>5, GrowthIs
  <2>2. p[1] = "empty" => p = <<"empty">>
    BY <1>1, <1>5
  <2>3. t = <<"empty">> => t[1] = "empty"
    OBVIOUS
  <2> QED BY <1>2, <1>3, <2>1, <2>2, <2>3
<1>6. Len(p) > 1 \/ Len(p) = 1
  <2>1. \A n \in Nat \ {0} : n > 1 \/ n = 1
    OBVIOUS
  <2> QED BY <1>3, <2>1, Zenon
<1> QED BY <1>4, <1>5, <1>6, Zenon

\* A protected value is split at a place of the beginning.
LEMMA CrossesIs ==
  ASSUME NEW ms \in Seq(Text), NEW i \in 1..Len(ms)
  PROVE  Crosses(SubSeq(ms, 1, i)) <=>
            \E j \in 1..(i - 1) : Last(ms[j]) = "half" /\ Head(ms[j + 1]) = "rest"
<1> DEFINE b == SubSeq(ms, 1, i)
<1>1. Len(b) = i /\ \A j \in 1..i : b[j] = ms[j]
  BY Begun
<1> HIDE DEF b
<1>2. \A j \in 1..(i - 1) : b[j] = ms[j] /\ b[j + 1] = ms[j + 1]
  BY <1>1
<1>3. Crosses(b) <=> \E j \in 1..(i - 1) : Last(b[j]) = "half" /\ Head(b[j + 1]) = "rest"
  BY <1>1 DEF Crosses
<1> QED BY <1>2, <1>3 DEF b

\* What was admitted is as it was, but for the last message.
LEMMA Unchanged ==
  ASSUME candidates \in Seq(Text), NEW ms \in Seq(Text), ~Changed(ms)
  PROVE  /\ Len(candidates) <= Len(ms)
         /\ \A i \in 1..Len(candidates) :
               \/ ms[i] = candidates[i]
               \/ i = Len(candidates) /\ i = Len(ms) /\ Starts(ms[i], candidates[i])
  BY DEF Changed

\* The beginnings of the messages that are as they were.
LEMMA SameBeginning ==
  ASSUME NEW s \in Seq(Text), NEW t \in Seq(Text), NEW m \in Nat, m <= Len(s), m <= Len(t),
         \A i \in 1..m : s[i] = t[i]
  PROVE  SubSeq(s, 1, m) = SubSeq(t, 1, m)
<1>1. m \in 0..Len(s) /\ m \in 0..Len(t)
  OBVIOUS
<1>2. /\ SubSeq(s, 1, m) \in Seq(Text) /\ Len(SubSeq(s, 1, m)) = m
      /\ \A i \in 1..m : SubSeq(s, 1, m)[i] = s[i]
  BY <1>1, Begun
<1>3. /\ SubSeq(t, 1, m) \in Seq(Text) /\ Len(SubSeq(t, 1, m)) = m
      /\ \A i \in 1..m : SubSeq(t, 1, m)[i] = t[i]
  BY <1>1, Begun
<1> QED BY <1>2, <1>3, SameSeq

\* All of a sequence.
LEMMA WholeBeginning == ASSUME NEW s \in Seq(Text) PROVE SubSeq(s, 1, Len(s)) = s
<1>1. Len(s) \in 0..Len(s)
  OBVIOUS
<1>2. /\ SubSeq(s, 1, Len(s)) \in Seq(Text) /\ Len(SubSeq(s, 1, Len(s))) = Len(s)
      /\ \A i \in 1..Len(s) : SubSeq(s, 1, Len(s))[i] = s[i]
  BY <1>1, Begun
<1> QED BY <1>2, SameSeq

\* New messages and longer ones do not shorten what would be rendered.
LEMMA GrowthFits ==
  ASSUME LiveTyped, ShownFits, NEW ms \in Seq(Text), ~Changed(ms)
  PROVE  Len(shown) <= Len(Rendering(ms))
<1> DEFINE c == candidates
           k == Len(candidates)
<1>0. c \in Seq(Text) /\ k \in Nat /\ Len(ms) \in Nat /\ Len(c) = k /\ k <= Len(ms)
  BY Unchanged DEF LiveTyped
<1>1. Len(Rendering(ms)) \in Nat /\ Len(Rendering(c)) \in Nat /\ Len(shown) \in Nat
  BY <1>0, TextIsSeq, RenderingType DEF LiveTyped
<1>2. CASE k # Len(ms)
  <2>1. \A i \in 1..k : ms[i] = c[i]
    BY <1>0, <1>2, Unchanged DEF LiveTyped
  <2>2. SubSeq(ms, 1, k) = c
    BY <1>0, <2>1, SameBeginning, WholeBeginning
  <2>3. Len(Rendering(SubSeq(ms, 1, k))) <= Len(Rendering(SubSeq(ms, 1, Len(ms))))
    <3>1. k \in 0..Len(ms) /\ Len(ms) \in k..Len(ms)
      BY <1>0
    <3> QED BY <3>1, TextIsSeq, RenderingGrows
  <2>4. SubSeq(ms, 1, Len(ms)) = ms
    BY WholeBeginning
  <2>5. Len(Rendering(c)) <= Len(Rendering(ms))
    BY <2>2, <2>3, <2>4, Zenon
  <2>6. Len(shown) <= Len(Rendering(c))
    BY DEF ShownFits
  <2> HIDE DEF c
  <2> QED BY <1>1, <2>5, <2>6
<1>3. CASE k = Len(ms)
  <2>1. ASSUME NEW i \in 1..k PROVE Len(Kept(c)[i]) <= Len(Kept(ms)[i])
    <3>0. i \in 1..Len(c) /\ i \in 1..Len(ms) /\ c[i] \in Text /\ ms[i] \in Text
      BY <1>0, <1>3
    <3>1. /\ Kept(c)[i] = IF c[i] = <<"empty">> THEN <<>> ELSE c[i]
          /\ Kept(ms)[i] = IF ms[i] = <<"empty">> THEN <<>> ELSE ms[i]
      BY <1>0, <3>0, TextIsSeq, KeptAt
    <3>2. Len(c[i]) \in Nat /\ Len(ms[i]) \in Nat
      BY <3>0 DEF Text
    <3>3. CASE ms[i] = c[i]
      BY <3>1, <3>2, <3>3
    <3>4. CASE Starts(ms[i], c[i])
      <4>1. Len(c[i]) <= Len(ms[i]) /\ (ms[i] = <<"empty">> => c[i] = <<"empty">>)
        BY <3>0, <3>4, Regrown
      <4> QED BY <3>1, <3>2, <4>1
    <3> QED BY <1>0, <3>3, <3>4, Unchanged DEF LiveTyped
  <2>2. Len(Rendering(c)) <= Len(Rendering(ms))
    <3> HIDE DEF c, k
    <3> QED BY <1>0, <1>3, <2>1, TextIsSeq, RenderingDominated
  <2> QED BY <1>1, <2>2 DEF ShownFits
<1> QED BY <1>2, <1>3

\* What was shown before a protected value was split stays before it.
LEMMA SplitStays ==
  ASSUME LiveTyped, ShownFits, NothingProtectedShown, NEW ms \in Seq(Text), ~Changed(ms),
         NEW i \in 1..Len(ms), Crosses(SubSeq(ms, 1, i))
  PROVE  Len(shown) <= Len(Rendering(SubSeq(ms, 1, i - 1)))
<1> DEFINE c == candidates
           k == Len(candidates)
           Lines(u, m) == Len(Rendering(SubSeq(u, 1, m)))
<1>0. c \in Seq(Text) /\ k \in Nat /\ Len(ms) \in Nat /\ Len(c) = k /\ k <= Len(ms)
  BY Unchanged DEF LiveTyped
<1>1. \A m \in 0..Len(ms) : Lines(ms, m) \in Nat
  BY TextIsSeq, Begun, RenderingType
<1>2. \A m \in 0..k : Lines(c, m) \in Nat
  BY <1>0, TextIsSeq, Begun, RenderingType
<1>3. Len(shown) \in Nat /\ Len(shown) <= Lines(c, k)
  <2>1. SubSeq(c, 1, k) = c
    BY <1>0, WholeBeginning
  <2>2. Len(shown) <= Len(Rendering(c)) /\ Len(shown) \in Nat
    BY DEF ShownFits, LiveTyped
  <2> QED BY <2>1, <2>2
<1>4. PICK j \in 1..(i - 1) : Last(ms[j]) = "half" /\ Head(ms[j + 1]) = "rest"
  BY CrossesIs
<1>5. /\ j \in 0..Len(ms) /\ i - 1 \in j..Len(ms) /\ j + 1 \in 1..Len(ms)
      /\ Lines(ms, j) <= Lines(ms, i - 1)
  <2>1. j \in 0..Len(ms) /\ i - 1 \in j..Len(ms) /\ j + 1 \in 1..Len(ms)
    OBVIOUS
  <2> QED BY <2>1, TextIsSeq, RenderingGrows
<1>6. SUFFICES Len(shown) <= Lines(ms, j) \/ Len(shown) <= Lines(ms, i - 1)
  <2>1. Lines(ms, j) \in Nat /\ Lines(ms, i - 1) \in Nat
    BY <1>1, <1>5
  <2> QED BY <1>3, <1>5, <2>1
<1>7. CASE j + 1 <= k /\ c[j] = ms[j] /\ Head(c[j + 1]) = "rest"
  <2>1. j + 1 \in 1..Len(c) /\ j + 1 \in DOMAIN c /\ (j + 1) - 1 = j /\ j \in 1..((j + 1) - 1)
    BY <1>0, <1>7
  <2>2. Crosses(SubSeq(c, 1, j + 1))
    BY <1>0, <1>4, <1>7, <2>1, CrossesIs
  <2>3. Len(shown) <= Lines(c, j)
    BY <2>1, <2>2 DEF NothingProtectedShown
  <2>4. SubSeq(c, 1, j) = SubSeq(ms, 1, j)
    <3>1. \A l \in 1..j : ms[l] = c[l]
      BY <1>0, <1>7, Unchanged DEF LiveTyped
    <3> QED BY <1>0, <1>7, <3>1, SameBeginning
  <2> QED BY <2>3, <2>4
<1>8. CASE j + 1 <= k /\ ~(c[j] = ms[j] /\ Head(c[j + 1]) = "rest")
  <2>1. ms[j] = c[j] /\ (ms[j + 1] = c[j + 1] \/ (j + 1 = k /\ Starts(ms[j + 1], c[j + 1])))
    BY <1>0, <1>8, Unchanged DEF LiveTyped
  <2>2. j + 1 = k /\ Starts(ms[j + 1], c[j + 1]) /\ Head(c[j + 1]) # "rest"
    BY <1>4, <1>8, <2>1
  <2>3. c[j + 1] = <<"empty">>
    <3>1. ms[j + 1] \in Text /\ c[j + 1] \in Text
      BY <1>0, <1>5, <1>8
    <3> QED BY <1>4, <2>2, <3>1, Regrown
  <2>4. SubSeq(c, 1, j) = SubSeq(ms, 1, j)
    <3>1. \A l \in 1..j : ms[l] = c[l]
      BY <1>0, <2>2, Unchanged DEF LiveTyped
    <3> QED BY <1>0, <2>2, <3>1, SameBeginning
  <2>5. Lines(c, k) = Lines(c, j)
    <3>1. SubSeq(c, 1, j) \in Seq(Text) /\ Len(SubSeq(c, 1, j)) = j
      BY <1>0, <2>2, Begun
    <3>2. c = SubSeq(c, 1, j) \o << <<"empty">> >>
      <4> DEFINE b == SubSeq(c, 1, j) \o << <<"empty">> >>
      <4>1. <<"empty">> \in Text
        BY DEF Text, Kinds
      <4>2. b \in Seq(Text) /\ Len(b) = k
        BY <2>2, <3>1, <4>1
      <4>3. \A l \in 1..k : b[l] = c[l]
        <5>1. \A l \in 1..j : SubSeq(c, 1, j)[l] = c[l]
          <6>1. j \in 0..Len(c)
            BY <1>0, <2>2
          <6> QED BY <1>0, <6>1, Begun
        <5>2. \A l \in 1..j : b[l] = SubSeq(c, 1, j)[l]
          BY <3>1
        <5>3. b[k] = <<"empty">>
          BY <2>2, <3>1
        <5>4. \A l \in 1..k : l \in 1..j \/ l = k
          BY <1>0, <2>2
        <5> HIDE DEF b
        <5> QED BY <2>2, <2>3, <5>1, <5>2, <5>3, <5>4
      <4> HIDE DEF b, c
      <4>4. b = c
        BY <1>0, <4>2, <4>3, SameSeq
      <4> QED BY <4>4 DEF b
    <3>3. << <<"empty">> >> \in Seq(Seq(Kinds)) /\ Rendering(<< <<"empty">> >>) = <<>>
      <4>1. << <<"empty">> >> \in Seq(Seq(Kinds))
        BY DEF Kinds
      <4>2. Kept(<< <<"empty">> >>) = Append(<<>>, <<>>)
        BY DEF Kept
      <4>3. <<>> \in Seq(Seq(Kinds)) /\ <<>> \in Seq(Kinds) /\ <<>> \o <<>> = <<>>
        OBVIOUS
      <4>4. FlattenSeq(Append(<<>>, <<>>)) = <<>>
        BY <4>3, FlatStep, FlatEmpty
      <4> QED BY <4>1, <4>2, <4>4, RenderingType
    <3>4. Rendering(c) = Rendering(SubSeq(c, 1, j)) \o <<>>
      BY <3>1, <3>2, <3>3, TextIsSeq, RenderingConcat
    <3>5. Rendering(SubSeq(c, 1, j)) \in Seq(Kinds)
      BY <3>1, TextIsSeq, RenderingType
    <3>6. Rendering(c) = Rendering(SubSeq(c, 1, j))
      BY <3>4, <3>5
    <3> QED BY <1>0, <3>6, WholeBeginning
  <2> QED BY <1>3, <2>4, <2>5
<1>9. CASE k <= j
  <2>1. SubSeq(ms, 1, k) = c
    <3>1. \A l \in 1..k : ms[l] = c[l]
      BY <1>0, <1>5, <1>9, Unchanged DEF LiveTyped
    <3> QED BY <1>0, <3>1, SameBeginning, WholeBeginning
  <2>2. k \in 0..Len(ms) /\ j \in k..Len(ms)
    BY <1>0, <1>5, <1>9
  <2>3. Lines(ms, k) <= Lines(ms, j)
    BY <2>2, TextIsSeq, RenderingGrows
  <2>4. Lines(ms, k) = Lines(c, k)
    BY <1>0, <2>1, WholeBeginning
  <2>5. Lines(ms, k) \in Nat /\ Lines(ms, j) \in Nat
    BY <1>1, <2>2
  <2> HIDE DEF Lines
  <2> QED BY <1>3, <2>3, <2>4, <2>5
<1> QED BY <1>0, <1>7, <1>8, <1>9

\* What is done with new messages keeps the invariant.
LEMMA ReconcileKeeps ==
  ASSUME LiveTyped, ShownFits, NothingProtectedShown, NEW ms \in Seq(Text), Reconcile(ms)
  PROVE  /\ candidates' \in Seq(Text) /\ shown' \in Seq(Kinds)
         /\ ShownFits' /\ NothingProtectedShown'
<1>1. CASE UNCHANGED <<candidates, shown>>
  BY <1>1 DEF LiveTyped, ShownFits, NothingProtectedShown
<1>2. CASE candidates' = ms /\ shown' = shown /\ ~Changed(ms)
  <2>1. ShownFits'
    BY <1>2, GrowthFits DEF ShownFits
  <2>2. ASSUME NEW i \in DOMAIN ms, Crosses(SubSeq(ms, 1, i))
        PROVE  Len(shown) <= Len(Rendering(SubSeq(ms, 1, i - 1)))
    <3>1. i \in 1..Len(ms)
      OBVIOUS
    <3> QED BY <1>2, <2>2, <3>1, SplitStays
  <2>3. NothingProtectedShown'
    BY <1>2, <2>2 DEF NothingProtectedShown
  <2> QED BY <1>2, <2>1, <2>3 DEF LiveTyped
<1>3. CASE /\ candidates' = ms /\ ~Crosses(ms)
           /\ shown' = Visible(ms) /\ Safe(Visible(ms))
  <2>1. Visible(ms) \in Seq(Kinds) /\ Len(Visible(ms)) <= Len(Rendering(ms))
    BY VisibleType
  <2>2. \A l \in DOMAIN Visible(ms) :
           Visible(ms)[l] \in {"x", "y", "blank", "empty", "half", "rest"}
    BY <1>3, <2>1 DEF Safe, Kinds
  <2>3. ASSUME NEW i \in DOMAIN ms, Crosses(SubSeq(ms, 1, i)) PROVE FALSE
    <3>1. i \in 1..Len(ms) /\ Len(ms) \in Nat /\ Len(ms) \in 1..Len(ms)
      OBVIOUS
    <3>2. PICK j \in 1..(i - 1) : Last(ms[j]) = "half" /\ Head(ms[j + 1]) = "rest"
      BY <2>3, <3>1, CrossesIs
    <3>3. j \in 1..(Len(ms) - 1)
      BY <3>1
    <3> QED BY <1>3, <3>2, <3>3 DEF Crosses
  <2>4. NothingProtectedShown'
    BY <1>3, <2>2, <2>3 DEF NothingProtectedShown
  <2> QED BY <1>3, <2>1, <2>4 DEF ShownFits
<1>4. \/ UNCHANGED <<candidates, shown>>
      \/ candidates' = ms /\ shown' = shown /\ ~Changed(ms)
      \/ /\ candidates' = ms /\ ~Crosses(ms)
         /\ shown' = Visible(ms) /\ Safe(Visible(ms))
  BY DEF Reconcile, Refuse, Keep
<1> QED BY <1>1, <1>2, <1>3, <1>4

\* What is made of a record has the types the live output needs.
LEMMA ObservedType ==
  ASSUME LiveTyped, NEW r \in Records
  PROVE  /\ Normalize(norm, r) \in NormType /\ Told(Normalize(norm, r))
         /\ Looked(r) => Completed(Normalize(norm, r), r).messages \in Seq(Text)
<1>1. Legible(r) /\ (Looked(r) => r.texts # <<>> \/ stream \in {"claude", "omp"})
  BY RecordsLegible DEF LiveTyped
<1>2. Normalize(norm, r) \in NormType /\ Told(Normalize(norm, r))
  BY <1>1, NormalizeType DEF LiveTyped
<1>3. ASSUME Looked(r) PROVE Completed(Normalize(norm, r), r).messages \in Seq(Text)
  <2>1. stream = "prime" => r.texts # <<>>
    BY <1>1, <1>3
  <2>2. Completed(Normalize(norm, r), r) \in NormType
    BY <1>1, <1>2, <2>1, CompletedType DEF LiveTyped
  <2> QED BY <2>2, NormFields
<1> QED BY <1>2, <1>3

\* The invariant is inductive.
LEMMA LiveInductive ==
  LiveTyped /\ ShownFits /\ NothingProtectedShown /\ [LiveNext]_liveVars
     => (LiveTyped /\ ShownFits /\ NothingProtectedShown)'
<1> SUFFICES ASSUME LiveTyped, ShownFits, NothingProtectedShown, [LiveNext]_liveVars
             PROVE  (LiveTyped /\ ShownFits /\ NothingProtectedShown)'
  OBVIOUS
<1>1. CASE UNCHANGED <<norm, candidates, shown, stream>>
  BY <1>1 DEF LiveTyped, ShownFits, NothingProtectedShown, Told
<1>2. CASE Observe
  <2>1. PICK r \in Records :
           LET n == Normalize(norm, r)
               whole == Completed(n, r)
           IN /\ norm' = n
              /\ IF ~Looked(r) THEN UNCHANGED candidates /\ Keep
                 ELSE IF ~Accepted(whole) THEN Refuse
                 ELSE IF whole.messages = <<>> THEN UNCHANGED candidates /\ Keep
                 ELSE Reconcile(whole.messages)
    BY <1>2 DEF Observe
  <2>2. stream' = stream /\ norm' \in NormType /\ Told(norm)'
    <3>1. stream' = stream
      BY <1>2 DEF Observe
    <3>2. norm' = Normalize(norm, r)
      BY <2>1
    <3>3. norm' \in NormType /\ Told(Normalize(norm, r))
      BY <3>2, ObservedType
    <3> HIDE DEF Normalize
    <3> QED BY <3>1, <3>2, <3>3 DEF Told
  <2>3. CASE UNCHANGED <<candidates, shown>>
    BY <2>2, <2>3 DEF LiveTyped, ShownFits, NothingProtectedShown, Told
  <2>4. CASE /\ Looked(r) /\ Reconcile(Completed(Normalize(norm, r), r).messages)
    BY <2>2, <2>4, ObservedType, ReconcileKeeps DEF LiveTyped, Told
  <2> QED BY <2>1, <2>3, <2>4 DEF Keep, Refuse
<1>3. CASE Settle
  BY <1>1, <1>3 DEF Settle
<1>4. CASE UNCHANGED liveVars
  BY <1>1, <1>4 DEF liveVars
<1> QED BY <1>2, <1>3, <1>4 DEF LiveNext

LEMMA LiveSound == LiveSpec => [](LiveTyped /\ ShownFits /\ NothingProtectedShown)
<1>1. LiveInit => LiveTyped /\ ShownFits /\ NothingProtectedShown
  <2> SUFFICES ASSUME LiveInit PROVE LiveTyped /\ ShownFits /\ NothingProtectedShown
    OBVIOUS
  <2>1. <<>> \in Seq(Text) /\ <<>> \in Seq(Kinds) /\ Len(<<>>) = 0 /\ <<>> \in Seq(Seq(Kinds))
    OBVIOUS
  <2>2. norm \in NormType /\ Told(norm)
    BY <2>1 DEF LiveInit, NoRecords, NormType, Phases, Told
  <2>3. LiveTyped
    BY <2>1, <2>2 DEF LiveInit, LiveTyped
  <2>4. Len(Rendering(<<>>)) \in Nat
    BY <2>1, RenderingType
  <2>5. ShownFits
    BY <2>1, <2>4 DEF LiveInit, ShownFits
  <2>6. NothingProtectedShown
    BY DEF LiveInit, NothingProtectedShown
  <2> QED BY <2>3, <2>5, <2>6
<1> QED BY <1>1, LiveInductive, PTL DEF LiveSpec

\* Nothing that is protected is shown, however it was streamed, split between messages
\* or completed: for all texts and any number of messages (InstalledHumanStream).
THEOREM NothingLeaks == LiveSpec => []NothingProtectedShown
BY LiveSound, PTL

-----------------------------------------------------------------------------
(* Nothing valid is refused                                                 *)

\* The text p is a beginning of the text t, line by line.
Leads(t, p) == Len(p) <= Len(t) /\ \A i \in 1..Len(p) : t[i] = p[i]

\* A text that is led by another starts with it,
LEMMA LeadsStarts ==
  ASSUME NEW t \in Seq(Kinds), NEW p \in Seq(Kinds), Leads(t, p)
  PROVE  Starts(t, p)
<1>1. CASE p = <<>>
  BY <1>1 DEF Starts
<1>2. CASE p # <<>>
  <2>1. Len(p) \in 1..Len(p) /\ Len(p) <= Len(t)
    BY <1>2 DEF Leads
  <2>2. p[Len(p)] \in Kinds /\ t[Len(p)] = p[Len(p)]
    BY <2>1 DEF Leads
  <2>3. <<p[Len(p)], t[Len(p)]>> \in Growth
    BY <2>2, GrowthIs
  <2>4. \A i \in 1..(Len(p) - 1) : t[i] = p[i]
    BY DEF Leads
  <2> QED BY <1>2, <2>1, <2>3, <2>4, StartsIs
<1> QED BY <1>1, <1>2

\* and with what leads that one.
LEMMA LeadsOn ==
  ASSUME NEW t \in Seq(Kinds), NEW q \in Seq(Kinds), NEW p \in Seq(Kinds), Leads(t, q), Leads(q, p)
  PROVE  Leads(t, p)
BY DEF Leads

\* What comes first leads, and what leads still does behind it.
LEMMA JoinLeads ==
  ASSUME NEW s \in Seq(Kinds), NEW t \in Seq(Kinds)
  PROVE  Leads(s \o t, s)
BY DEF Leads

LEMMA BehindLeads ==
  ASSUME NEW s \in Seq(Kinds), NEW t \in Seq(Kinds), NEW p \in Seq(Kinds), Leads(t, p)
  PROVE  Leads(s \o t, s \o p)
<1>1. Len(s \o t) = Len(s) + Len(t) /\ Len(s \o p) = Len(s) + Len(p)
  OBVIOUS
<1>2. ASSUME NEW i \in 1..Len(s \o p) PROVE (s \o t)[i] = (s \o p)[i]
  <2>1. CASE i <= Len(s)
    BY <1>1, <2>1 DEF Leads
  <2>2. CASE i > Len(s)
    <3>1. i - Len(s) \in 1..Len(p) /\ i - Len(s) \in 1..Len(t)
      BY <1>1, <2>2 DEF Leads
    <3>2. (s \o t)[i] = t[i - Len(s)] /\ (s \o p)[i] = p[i - Len(s)]
      BY <1>1, <2>2, <3>1
    <3> QED BY <3>1, <3>2 DEF Leads
  <2>3. i \in Nat /\ Len(s) \in Nat
    BY <1>1
  <2>4. i <= Len(s) \/ i > Len(s)
    BY <2>3
  <2> QED BY <2>1, <2>2, <2>4
<1>3. Len(s \o p) <= Len(s \o t)
  BY <1>1 DEF Leads
<1> QED BY <1>2, <1>3 DEF Leads

\* Messages of which blank ones are no part, unless there is only one.
Fine(ms) == Len(ms) <= 1 \/ \A i \in 1..Len(ms) : HasLine(ms[i])

\* What of them may be shown.
LEMMA VisibleIs ==
  ASSUME NEW u \in Seq(Text), NEW e \in Text, Fine(Append(u, e))
  PROVE  Visible(Append(u, e)) = IF HasLine(e) THEN FlattenSeq(u) \o Stripped(e) ELSE <<>>
<1> DEFINE ms == Append(u, e)
           n == Len(u) + 1
<1>1. /\ ms \in Seq(Text) /\ Len(ms) = n /\ n \in 1..n /\ ms[n] = e /\ DOMAIN ms = 1..n
      /\ \A i \in 1..Len(u) : ms[i] = u[i] /\ i \in 1..n
  OBVIOUS
<1>2. u \in Seq(Seq(Kinds)) /\ e \in Seq(Kinds)
  BY TextIsSeq
<1>3. CASE ~HasLine(e)
  <2>1. Len(ms) = 1
    <3>1. ~\A i \in 1..Len(ms) : HasLine(ms[i])
      BY <1>1, <1>3
    <3>2. Len(ms) <= 1
      BY <3>1 DEF Fine
    <3> HIDE DEF ms
    <3> QED BY <1>1, <3>2
  <2>2. ~\E i \in DOMAIN ms : HasLine(ms[i])
    <3>1. \A i \in DOMAIN ms : i = n
      BY <1>1, <2>1
    <3> HIDE DEF ms, n
    <3> QED BY <1>1, <1>3, <3>1
  <2> HIDE DEF ms
  <2>3. Visible(ms) = <<>>
    BY <2>2 DEF Visible
  <2> QED BY <1>3, <2>3 DEF ms
<1>4. CASE HasLine(e)
  <2> DEFINE s == Stripped(e)
  <2>1. \E i \in DOMAIN ms : HasLine(ms[i])
    BY <1>1, <1>4
  <2>2. Carrier(ms) = n
    <3>1. /\ Carrier(ms) \in 1..n
          /\ \A j \in (Carrier(ms) + 1)..n : ~HasLine(ms[j])
      <4> HIDE DEF ms, n
      <4> QED BY <1>1, <2>1, CarrierIs
    <3>2. n \notin (Carrier(ms) + 1)..n
      <4> HIDE DEF ms, n
      <4> QED BY <1>1, <1>4, <3>1
    <3> HIDE DEF ms
    <3> QED BY <3>1, <3>2
  <2>3. s \in Seq(Kinds) /\ s # <<"empty">>
    <3>1. PICK m \in 0..(LastLine(e) - 1) : s = SubSeq(e, 1, m) /\ (m # 0 => ~IsBlank(e[m]))
      BY <1>2, <1>4, StrippedIs
    <3>2. LastLine(e) \in 1..Len(e)
      BY <1>2, <1>4, LastLineIs
    <3>3. m \in 0..Len(e)
      BY <3>1, <3>2
    <3>4. s \in Seq(Kinds) /\ Len(s) = m /\ \A i \in 1..m : s[i] = e[i]
      BY <1>2, <3>1, <3>3, Begun
    <3>5. ASSUME s = <<"empty">> PROVE FALSE
      <4>1. m = 1 /\ s[1] = "empty"
        BY <3>4, <3>5
      <4>2. e[m] = "empty"
        BY <3>4, <4>1
      <4> QED BY <3>1, <4>1, <4>2 DEF IsBlank
    <3> QED BY <3>4, <3>5
  <2> HIDE DEF s
  <2>4. [ms EXCEPT ![Carrier(ms)] = Stripped(@)] = Append(u, s)
    <3>1. [ms EXCEPT ![n] = Stripped(@)] = [ms EXCEPT ![n] = s]
      BY <1>1 DEF s
    <3>2. [ms EXCEPT ![n] = s] = Append(u, s)
      <4> DEFINE vs == [ms EXCEPT ![n] = s]
      <4>1. vs \in Seq(Seq(Kinds)) /\ Len(vs) = n /\ vs[n] = s /\ \A i \in 1..Len(u) : vs[i] = u[i]
        <5>1. ms \in Seq(Seq(Kinds)) /\ n \notin 1..Len(u)
          BY <1>2
        <5> HIDE DEF ms, n
        <5>2. vs \in Seq(Seq(Kinds)) /\ Len(vs) = n
          BY <1>1, <2>3, <5>1
        <5>3. vs[n] = s /\ \A i \in 1..Len(u) : vs[i] = u[i]
          BY <1>1, <5>1
        <5> QED BY <5>2, <5>3
      <4>2. /\ Append(u, s) \in Seq(Seq(Kinds)) /\ Len(Append(u, s)) = n /\ Append(u, s)[n] = s
            /\ \A i \in 1..Len(u) : Append(u, s)[i] = u[i]
        BY <1>2, <2>3
      <4> HIDE DEF vs
      <4>3. \A i \in 1..Len(vs) : i \in 1..Len(u) \/ i = n
        BY <4>1
      <4>4. \A i \in 1..Len(vs) : vs[i] = Append(u, s)[i]
        BY <4>1, <4>2, <4>3
      <4>5. vs = Append(u, s)
        BY <4>1, <4>2, <4>4, SameSeq
      <4> QED BY <4>5 DEF vs
    <3> HIDE DEF ms, n
    <3> QED BY <2>2, <3>1, <3>2
  <2>5. Kept(Append(u, s)) = Append(u, s)
    <3>1. Append(u, s) \in Seq(Seq(Kinds)) /\ Len(Append(u, s)) = n /\ Append(u, s)[n] = s
          /\ \A i \in 1..Len(u) : Append(u, s)[i] = u[i]
      BY <1>2, <2>3
    <3>2. \A i \in 1..Len(u) : u[i] # <<"empty">>
      <4> SUFFICES ASSUME NEW i \in 1..Len(u), u[i] = <<"empty">> PROVE FALSE
        OBVIOUS
      <4>1. Len(ms) > 1
        BY <1>1
      <4>2. HasLine(ms[i]) /\ ms[i] = u[i]
        BY <1>1, <4>1 DEF Fine
      <4> HIDE DEF ms
      <4>3. HasLine(<<"empty">>)
        BY <4>2
      <4> QED BY <4>3 DEF HasLine, IsBlank
    <3>3. \A i \in 1..n : i \in 1..Len(u) \/ i = n
      OBVIOUS
    <3>4. \A i \in 1..Len(Append(u, s)) : Append(u, s)[i] # <<"empty">>
      BY <2>3, <3>1, <3>2, <3>3
    <3> DEFINE w == Append(u, s)
    <3> HIDE DEF w, n
    <3>5. w \in Seq(Seq(Kinds)) /\ \A i \in 1..Len(w) : w[i] # <<"empty">>
      BY <3>1, <3>4 DEF w
    <3>6. Kept(w) = w
      <4>1. \A i \in 1..Len(Kept(w)) : Kept(w)[i] = w[i]
        BY <3>5, KeptAt, KeptType
      <4> QED BY <3>5, <4>1, KeptType, SameSeq
    <3> QED BY <3>6 DEF w
  <2>6. Rendering(Append(u, s)) = FlattenSeq(u) \o s
    <3>1. Append(u, s) \in Seq(Seq(Kinds))
      BY <1>2, <2>3
    <3>2. Rendering(Append(u, s)) = FlattenSeq(Append(u, s))
      BY <2>5, <3>1, RenderingType
    <3> QED BY <1>2, <2>3, <3>2, FlatStep
  <2>7. Visible(ms) = Rendering(Append(u, s))
    BY <2>1, <2>4 DEF Visible
  <2> QED BY <1>4, <2>6, <2>7 DEF s, ms
<1> QED BY <1>3, <1>4

\* It leads the messages as they are.
LEMMA VisibleLeads ==
  ASSUME NEW ms \in Seq(Text), Fine(ms)
  PROVE  Visible(ms) \in Seq(Kinds) /\ FlattenSeq(ms) \in Seq(Kinds) /\ Leads(FlattenSeq(ms), Visible(ms))
<1>1. Visible(ms) \in Seq(Kinds) /\ FlattenSeq(ms) \in Seq(Kinds)
  BY VisibleType, TextIsSeq, FlatType
<1>2. CASE Visible(ms) = <<>>
  BY <1>1, <1>2 DEF Leads
<1>3. CASE Visible(ms) # <<>>
  <2>1. Len(ms) # 0
    <3> SUFFICES ASSUME ms = <<>> PROVE Visible(ms) = <<>>
      BY <1>3
    <3> QED BY DEF Visible
  <2>2. PICK u \in Seq(Text), e \in Text : ms = Append(u, e) /\ Len(u) = Len(ms) - 1
    <3>1. Len(ms) - 1 \in Nat /\ Len(ms) = (Len(ms) - 1) + 1
      BY <2>1
    <3> QED BY <3>1, LastApart, ZenonT(90)
  <2>3. HasLine(e) /\ Visible(ms) = FlattenSeq(u) \o Stripped(e)
    BY <1>3, <2>2, VisibleIs
  <2>4. FlattenSeq(ms) = FlattenSeq(u) \o e /\ FlattenSeq(u) \in Seq(Kinds) /\ e \in Seq(Kinds)
    BY <2>2, TextIsSeq, FlatStep, FlatType
  <2>5. Stripped(e) \in Seq(Kinds) /\ Leads(e, Stripped(e))
    <3>1. PICK m \in 0..(LastLine(e) - 1) : Stripped(e) = SubSeq(e, 1, m)
      BY <2>3, <2>4, StrippedIs
    <3>2. m \in 0..Len(e)
      BY <2>3, <2>4, <3>1, LastLineIs
    <3> QED BY <2>4, <3>1, <3>2, Begun DEF Leads
  <2> QED BY <1>1, <2>3, <2>4, <2>5, BehindLeads
<1> QED BY <1>2, <1>3

\* A text that grows keeps its last line, or what came before it as it was.
LEMMA StrippedGrows ==
  ASSUME NEW t \in Seq(Kinds), NEW p \in Seq(Kinds), p # <<>>, Starts(t, p), HasLine(p)
  PROVE  /\ HasLine(t) /\ Stripped(t) \in Seq(Kinds) /\ Stripped(p) \in Seq(Kinds)
         /\ Leads(Stripped(t), Stripped(p))
<1>1. /\ Len(p) \in Nat /\ Len(t) \in Nat /\ Len(p) <= Len(t) 
      /\ \A i \in 1..(Len(p) - 1) : t[i] = p[i]
      /\ <<p[Len(p)], t[Len(p)]>> \in Growth
  BY StartsIs
<1> DEFINE lp == LastLine(p)
           lt == LastLine(t)
<1>2. /\ lp \in 1..Len(p) /\ ~IsBlank(p[lp])
      /\ \A j \in (lp + 1)..Len(p) : IsBlank(p[j])
  BY LastLineIs
<1>3. ~IsBlank(t[lp])
  <2>1. CASE lp = Len(p)
    <3>1. <<p[lp], t[lp]>> \in Growth
      BY <1>1, <2>1
    <3> QED BY <1>2, <3>1, GrowthIs DEF IsBlank
  <2>2. CASE lp # Len(p)
    <3>1. lp \in 1..(Len(p) - 1)
      BY <1>1, <1>2, <2>2
    <3> QED BY <1>1, <1>2, <3>1
  <2> QED BY <2>1, <2>2
<1>4. HasLine(t)
  <2>1. lp \in DOMAIN t
    BY <1>1, <1>2
  <2> QED BY <1>3, <2>1 DEF HasLine
<1>5. /\ lt \in 1..Len(t) /\ ~IsBlank(t[lt])
      /\ \A j \in (lt + 1)..Len(t) : IsBlank(t[j])
  BY <1>4, LastLineIs
<1>6. PICK m \in 0..(lp - 1) :
         /\ Stripped(p) = SubSeq(p, 1, m)
         /\ m # 0 => ~IsBlank(p[m])
         /\ \A j \in (m + 1)..(lp - 1) : IsBlank(p[j])
  BY StrippedIs
<1>7. PICK k \in 0..(lt - 1) :
         /\ Stripped(t) = SubSeq(t, 1, k)
         /\ k # 0 => ~IsBlank(t[k])
         /\ \A j \in (k + 1)..(lt - 1) : IsBlank(t[j])
  BY <1>4, StrippedIs
<1> HIDE DEF lp, lt
<1>8. lp <= lt
  <2> SUFFICES ASSUME lt < lp PROVE FALSE
    BY <1>2, <1>5
  <2>1. lp \in (lt + 1)..Len(t)
    BY <1>1, <1>2, <1>5
  <2> QED BY <1>3, <1>5, <2>1
<1>9. m <= k
  <2> SUFFICES ASSUME k < m PROVE FALSE
    BY <1>6, <1>7
  <2>1. m \in 1..(Len(p) - 1) /\ m \in (k + 1)..(lt - 1) /\ m # 0
    BY <1>1, <1>2, <1>5, <1>6, <1>7, <1>8
  <2>2. ~IsBlank(p[m]) /\ p[m] = t[m]
    BY <1>1, <1>6, <2>1
  <2> QED BY <1>7, <2>1, <2>2
<1>10. m \in 0..Len(p) /\ k \in 0..Len(t)
  BY <1>1, <1>2, <1>5, <1>6, <1>7
<1>11. /\ Stripped(p) \in Seq(Kinds) /\ Len(Stripped(p)) = m /\ \A i \in 1..m : Stripped(p)[i] = p[i]
       /\ Stripped(t) \in Seq(Kinds) /\ Len(Stripped(t)) = k /\ \A i \in 1..k : Stripped(t)[i] = t[i]
  BY <1>6, <1>7, <1>10, Begun
<1>12. ASSUME NEW i \in 1..m PROVE t[i] = p[i] /\ i \in 1..k
  BY <1>1, <1>2, <1>6, <1>9
<1> QED BY <1>4, <1>9, <1>11, <1>12 DEF Leads

\* Messages that follow others: those stay, but for the last, which may grow.
Follows(ms, cs) ==
    /\ Len(cs) <= Len(ms)
    /\ \A i \in 1..Len(cs) :
          \/ ms[i] = cs[i]
          \/ i = Len(cs) /\ i = Len(ms) /\ Starts(ms[i], cs[i])

\* Nothing that was visible has to be taken back.
LEMMA VisibleGrows ==
  ASSUME NEW ms \in Seq(Text), NEW cs \in Seq(Text), Fine(ms), Fine(cs), Follows(ms, cs)
  PROVE  Leads(Visible(ms), Visible(cs))
<1>1. Visible(ms) \in Seq(Kinds) /\ Visible(cs) \in Seq(Kinds)
  BY VisibleType
<1>2. CASE Visible(cs) = <<>>
  BY <1>1, <1>2 DEF Leads
<1>3. CASE Visible(cs) # <<>>
  <2>1. Len(cs) # 0
    <3> SUFFICES ASSUME cs = <<>> PROVE Visible(cs) = <<>>
      BY <1>3
    <3> QED BY DEF Visible
  <2>2. /\ Len(cs) \in Nat \ {0} /\ Len(ms) \in Nat /\ Len(cs) <= Len(ms)
        /\ \A i \in 1..Len(cs) :
              \/ ms[i] = cs[i]
              \/ i = Len(cs) /\ i = Len(ms) /\ Starts(ms[i], cs[i])
    BY <2>1 DEF Follows
  <2>3. PICK u \in Seq(Text), e \in Text : cs = Append(u, e) /\ Len(u) = Len(cs) - 1
    <3>1. Len(cs) - 1 \in Nat /\ Len(cs) = (Len(cs) - 1) + 1
      BY <2>2
    <3> QED BY <3>1, LastApart, ZenonT(90)
  <2>4. PICK v \in Seq(Text), d \in Text : ms = Append(v, d) /\ Len(v) = Len(ms) - 1
    <3>1. Len(ms) - 1 \in Nat /\ Len(ms) = (Len(ms) - 1) + 1
      BY <2>2
    <3> QED BY <3>1, LastApart
  <2>5. HasLine(e) /\ Visible(cs) = FlattenSeq(u) \o Stripped(e)
    BY <1>3, <2>3, VisibleIs
  <2>6. /\ FlattenSeq(u) \in Seq(Kinds) /\ FlattenSeq(v) \in Seq(Kinds)
        /\ FlattenSeq(cs) \in Seq(Kinds)
        /\ e \in Seq(Kinds) /\ d \in Seq(Kinds) /\ e # <<>>
    BY TextIsSeq, FlatType DEF Text
  <2>7. /\ cs[Len(cs)] = e /\ ms[Len(ms)] = d
        /\ \A i \in 1..(Len(cs) - 1) : cs[i] = u[i] /\ i \in 1..Len(cs) /\ i # Len(cs)
        /\ \A i \in 1..(Len(ms) - 1) : ms[i] = v[i]
    BY <2>2, <2>3, <2>4
  <2>8. CASE Len(ms) = Len(cs)
    <3>1. u = v
      <4>1. \A i \in 1..Len(u) : u[i] = v[i]
        BY <2>2, <2>3, <2>7, <2>8
      <4> QED BY <2>3, <2>4, <2>8, <4>1, SameSeq
    <3>2. Starts(d, e)
      <4>0. Len(cs) \in 1..Len(cs)
        BY <2>2
      <4>1. d = e \/ Starts(d, e)
        BY <2>2, <2>7, <2>8, <4>0, Zenon
      <4>2. Leads(e, e)
        BY <2>6 DEF Leads
      <4> QED BY <2>6, <4>1, <4>2, LeadsStarts
    <3>3. /\ HasLine(d) /\ Stripped(d) \in Seq(Kinds) /\ Stripped(e) \in Seq(Kinds)
          /\ Leads(Stripped(d), Stripped(e))
      BY <2>5, <2>6, <3>2, StrippedGrows
    <3>4. Visible(ms) = FlattenSeq(u) \o Stripped(d)
      BY <2>4, <3>1, <3>3, VisibleIs
    <3> QED BY <2>5, <2>6, <3>3, <3>4, BehindLeads
  <2>9. CASE Len(ms) # Len(cs)
    <3>0. Len(cs) < Len(ms) /\ Len(ms) > 1 /\ Len(ms) \in 1..Len(ms)
      BY <2>2, <2>9
    <3>1. HasLine(d)
      <4>1. \A i \in 1..Len(ms) : HasLine(ms[i])
        BY <2>2, <3>0 DEF Fine
      <4> QED BY <2>7, <3>0, <4>1, Zenon
    <3>2. Stripped(d) \in Seq(Kinds) /\ Visible(ms) = FlattenSeq(v) \o Stripped(d)
      <4>1. PICK m \in 0..(LastLine(d) - 1) : Stripped(d) = SubSeq(d, 1, m)
        BY <2>6, <3>1, StrippedIs
      <4>2. m \in 0..Len(d)
        BY <2>6, <3>1, <4>1, LastLineIs
      <4> QED BY <2>4, <2>6, <3>1, <4>1, <4>2, VisibleIs, Begun
    <3> DEFINE w == SubSeq(v, Len(cs) + 1, Len(v))
    <3>3. w \in Seq(Text) /\ Len(w) = Len(v) - Len(cs) /\ \A i \in 1..Len(w) : w[i] = v[i + Len(cs)]
      BY <2>2, <2>4, <3>0
    <3> HIDE DEF w
    <3>4. v = cs \o w
      <4>1. cs \o w \in Seq(Text) /\ Len(cs \o w) = Len(v)
        BY <2>2, <2>4, <3>0, <3>3
      <4>2. ASSUME NEW i \in 1..Len(v) PROVE v[i] = (cs \o w)[i]
        <5>1. CASE i <= Len(cs)
          <6>1. i \in 1..Len(cs) /\ i \in 1..(Len(ms) - 1) /\ Len(cs) # Len(ms)
            BY <2>2, <2>4, <3>0, <5>1
          <6>2. v[i] = ms[i] /\ ms[i] = cs[i]
            BY <2>2, <2>7, <6>1
          <6> QED BY <6>1, <6>2, <3>3
        <5>2. CASE i > Len(cs)
          <6>1. i - Len(cs) \in 1..Len(w) /\ (i - Len(cs)) + Len(cs) = i
            BY <2>2, <2>4, <3>3, <5>2
          <6>2. (cs \o w)[i] = w[i - Len(cs)]
            BY <2>2, <3>3, <4>1, <5>2
          <6> QED BY <3>3, <6>1, <6>2
        <5>3. i <= Len(cs) \/ i > Len(cs)
          BY <2>2
        <5> QED BY <5>1, <5>2, <5>3
      <4> QED BY <4>1, <4>2, SameSeq
    <3>5. FlattenSeq(v) = FlattenSeq(cs) \o FlattenSeq(w) /\ FlattenSeq(w) \in Seq(Kinds)
      BY <3>3, <3>4, TextIsSeq, FlatConcat, FlatType
    <3>6. Leads(FlattenSeq(cs), Visible(cs))
      BY VisibleLeads
    <3>7. Leads(FlattenSeq(v), FlattenSeq(cs)) /\ Leads(Visible(ms), FlattenSeq(v))
      BY <2>6, <3>2, <3>5, JoinLeads
    <3>8. Leads(FlattenSeq(v), Visible(cs))
      BY <1>1, <2>6, <3>6, <3>7, LeadsOn
    <3> QED BY <1>1, <2>6, <3>7, <3>8, LeadsOn
  <2> QED BY <2>8, <2>9
<1> QED BY <1>2, <1>3

-----------------------------------------------------------------------------
(* What the live output hears                                               *)

Broken == {"malformed", "failed"}

\* The messages so far: of a streamed one its text so far.
Heard(n) ==
    IF stream = "prime" \/ (stream = "omp" /\ n.at \notin {"turnend", "agentend", "complete"})
    THEN IF n.text = <<>> THEN <<>> ELSE <<n.text>>
    ELSE n.messages

\* Every message has a line, or there is at most one.
Sane(n) ==
    /\ stream \in {"codex", "sdk", "claude"} =>
          \A i \in 1..Len(n.messages) : HasLine(n.messages[i])
    /\ stream = "omp" => Len(n.messages) <= 1
    /\ stream = "prime" /\ n.at = "complete" => n.text # <<>> /\ n.messages = <<n.text>>

HasLines == \A m \in Messages : HasLine(m)
OneBlock == "omp" \in Streams => MaxBlocks <= 1

LEMMA HeardFine ==
  ASSUME NEW n \in NormType, Sane(n), stream \in Streams
  PROVE  Heard(n) \in Seq(Text) /\ Fine(Heard(n))
<1>1. n.messages \in Seq(Text) /\ (n.text # <<>> => n.text \in Text)
  BY DEF NormType, Text
<1>2. n.text # <<>> => <<n.text>> \in Seq(Text) /\ Len(<<n.text>>) = 1
  BY <1>1
<1>3. <<>> \in Seq(Text) /\ Len(<<>>) = 0
  OBVIOUS
<1>4. CASE Heard(n) = <<>>
  BY <1>3, <1>4 DEF Fine
<1>5. CASE n.text # <<>> /\ Heard(n) = <<n.text>>
  BY <1>2, <1>5 DEF Fine
<1>6. CASE Heard(n) = n.messages /\ stream # "prime"
  <2>1. Fine(n.messages)
    BY <1>6, LiveAssumption DEF Sane, Fine
  <2> QED BY <1>1, <1>6, <2>1
<1>7. \/ Heard(n) = <<>>
      \/ n.text # <<>> /\ Heard(n) = <<n.text>>
      \/ Heard(n) = n.messages /\ stream # "prime"
  BY DEF Heard
<1> QED BY <1>4, <1>5, <1>6, <1>7

\* Where messages are only added, what is heard are the messages.
LEMMA Listed ==
  ASSUME stream \in {"codex", "sdk", "claude"}, NEW n \in NormType, Sane(n), NEW ts \in Seq(Text),
         \A i \in 1..Len(ts) : HasLine(ts[i]), NEW m, m.messages = n.messages \o ts
  PROVE  Sane(m) /\ Heard(m) = m.messages /\ Heard(n) = n.messages /\ Follows(Heard(m), Heard(n))
<1> DEFINE a == n.messages
<1>1. a \in Seq(Text) /\ \A i \in 1..Len(a) : HasLine(a[i])
  BY DEF NormType, Sane
<1>2. Heard(m) = m.messages /\ Heard(n) = a
  BY DEF Heard
<1> HIDE DEF a
<1>3. m.messages = a \o ts
  BY DEF a
<1>4. /\ Len(a \o ts) = Len(a) + Len(ts) /\ Len(a) \in Nat /\ Len(ts) \in Nat
      /\ \A i \in 1..Len(a) : (a \o ts)[i] = a[i]
      /\ \A i \in 1..Len(ts) : (a \o ts)[i + Len(a)] = ts[i]
  BY <1>1
<1>5. ASSUME NEW i \in 1..Len(a \o ts) PROVE HasLine((a \o ts)[i])
  <2>1. CASE i \in 1..Len(a)
    <3>1. (a \o ts)[i] = a[i] /\ HasLine(a[i])
      BY <1>1, <1>4, <2>1
    <3> QED BY <3>1, Zenon
  <2>2. CASE i - Len(a) \in 1..Len(ts)
    <3>1. (a \o ts)[i] = ts[i - Len(a)]
      BY <1>4, <2>2
    <3>2. HasLine(ts[i - Len(a)])
      BY <2>2
    <3> QED BY <3>1, <3>2, Zenon
  <2>3. i \in 1..Len(a) \/ i - Len(a) \in 1..Len(ts)
    BY <1>4
  <2> QED BY <2>1, <2>2, <2>3
<1>6. Follows(a \o ts, a)
  BY <1>4 DEF Follows
<1>7. \A i \in 1..Len(m.messages) : HasLine(m.messages[i])
  BY <1>3, <1>5
<1>8. Sane(m)
  BY <1>7 DEF Sane
<1> QED BY <1>2, <1>3, <1>6, <1>8 DEF a

\* What a record that breaks nothing adds to what is heard.
StepHeard(r) ==
    LET n == Normalize(norm, r)
    IN /\ Sane(n)
       /\ ~Looked(r) => Heard(n) = Heard(norm)
       /\ Looked(r) => /\ Accepted(Completed(n, r)) /\ Completed(n, r).messages = Heard(n)
                       /\ Follows(Heard(n), Heard(norm))

LEMMA CodexHeard ==
  ASSUME LiveTyped, HasLines, stream = "codex", Sane(norm), NEW r \in Records,
         norm.at \notin Broken, Normalize(norm, r).at \notin Broken
  PROVE  StepHeard(r)
<1> DEFINE n == Normalize(norm, r)
<1>1. n = Codex(norm, r) /\ n.at \notin Broken /\ n \in NormType
  <2>1. n \in NormType
    BY RecordsLegible, NormalizeType DEF LiveTyped
  <2> QED BY <2>1, ZenonT(90) DEF Normalize, Broken
<1>2. norm \in NormType /\ Bad(norm).at \in Broken
  BY BadType DEF LiveTyped, Broken
<1> HIDE DEF n
<1>3. CASE Looked(r)
  <2>1. r.kind = "agent_message"
    BY <1>3 DEF Looked
  <2>2. PICK t \in Messages : r.texts = <<t>>
    BY <2>1 DEF Records, Bare, Texts, Record
  <2>3. t \in Text /\ HasLine(t)
    BY LiveAssumption DEF HasLines
  <2>4. n = Said(norm, <<t>>) /\ norm.at = "items"
    BY <1>1, <1>2, <2>1, <2>2 DEF Codex
  <2>5. n.messages = norm.messages \o <<t>> /\ n.at = "items"
    BY <1>2, <2>4 DEF Said, NormType
  <2>6. Completed(n, r) = At(n, "complete")
    <3>1. Completed(n, r) = Normalize(n, Record("turn.completed", <<>>))
      BY DEF Completed
    <3>2. Normalize(n, Record("turn.completed", <<>>)) = Codex(n, Record("turn.completed", <<>>))
      BY <2>5, ZenonT(90) DEF Normalize
    <3> QED BY <2>5, <3>1, <3>2 DEF Codex, Record
  <2>7. Completed(n, r).at = "complete" /\ Completed(n, r).messages = n.messages
    BY <1>1, <2>6 DEF At, NormType
  <2>8. <<t>> \in Seq(Text) /\ \A i \in 1..Len(<<t>>) : <<t>>[i] = t
    BY <2>3
  <2>9. \A i \in 1..Len(<<t>>) : HasLine(<<t>>[i])
    BY <2>3, <2>8
  <2>10. Sane(n) /\ Heard(n) = n.messages /\ Follows(Heard(n), Heard(norm))
    BY <1>2, <2>5, <2>8, <2>9, Listed
  <2> QED BY <1>3, <2>7, <2>10 DEF StepHeard, Accepted, n
<1>4. CASE ~Looked(r)
  <2>1. r.kind # "agent_message"
    BY <1>4 DEF Looked
  <2>2. n = norm \/ \E p \in {"turn", "items", "failed", "complete"} : n = At(norm, p)
    BY <1>1, <1>2, <2>1 DEF Codex
  <2>3. n.messages = norm.messages
    BY <1>2, <2>2 DEF At, NormType
  <2>4. Sane(n) /\ Heard(n) = Heard(norm)
    BY <2>3 DEF Sane, Heard
  <2> QED BY <1>4, <2>4 DEF StepHeard, n
<1> QED BY <1>3, <1>4

LEMMA SdkHeard ==
  ASSUME LiveTyped, HasLines, stream = "sdk", Sane(norm), NEW r \in Records,
         norm.at \notin Broken, Normalize(norm, r).at \notin Broken
  PROVE  StepHeard(r)
<1> DEFINE n == Normalize(norm, r)
<1>1. n = Sdk(norm, r) /\ n.at \notin Broken
  BY ZenonT(90) DEF Normalize, Broken
<1>2. norm \in NormType /\ Bad(norm).at \in Broken
  BY BadType DEF LiveTyped, Broken
<1> HIDE DEF n
<1>3. CASE Looked(r)
  <2>1. r.kind = "final"
    BY <1>3 DEF Looked
  <2>2. PICK t \in Messages : r.texts = <<t>>
    BY <2>1 DEF Records, Bare, Texts, Record
  <2>3. t \in Text /\ HasLine(t)
    BY LiveAssumption DEF HasLines
  <2>4. n = At(Said(norm, <<t>>), "complete")
    BY <1>1, <1>2, <2>1, <2>2 DEF Sdk
  <2>5. n.messages = norm.messages \o <<t>> /\ n.at = "complete"
    BY <1>2, <2>4 DEF Said, At, NormType
  <2>6. Completed(n, r) = n
    BY DEF Completed
  <2>8. <<t>> \in Seq(Text) /\ \A i \in 1..Len(<<t>>) : <<t>>[i] = t
    BY <2>3
  <2>9. \A i \in 1..Len(<<t>>) : HasLine(<<t>>[i])
    BY <2>3, <2>8
  <2>10. Sane(n) /\ Heard(n) = n.messages /\ Follows(Heard(n), Heard(norm))
    BY <1>2, <2>5, <2>8, <2>9, Listed
  <2> QED BY <1>3, <2>5, <2>6, <2>10 DEF StepHeard, Accepted, n
<1>4. CASE ~Looked(r)
  <2>1. r.kind # "final"
    BY <1>4 DEF Looked
  <2>2. n = norm \/ \E p \in {"tools", "failed"} : n = At(norm, p)
    BY <1>1, <1>2, <2>1 DEF Sdk
  <2>3. n.messages = norm.messages
    BY <1>2, <2>2 DEF At, NormType
  <2>4. Sane(n) /\ Heard(n) = Heard(norm)
    BY <2>3 DEF Sane, Heard
  <2> QED BY <1>4, <2>4 DEF StepHeard, n
<1> QED BY <1>3, <1>4

LEMMA ClaudeHeard ==
  ASSUME LiveTyped, HasLines, stream = "claude", Sane(norm), NEW r \in Records,
         norm.at \notin Broken, Normalize(norm, r).at \notin Broken
  PROVE  StepHeard(r)
<1> DEFINE n == Normalize(norm, r)
<1>1. n = Claude(norm, r) /\ n.at \notin Broken /\ n \in NormType
  <2>1. n \in NormType
    BY RecordsLegible, NormalizeType DEF LiveTyped
  <2> QED BY <2>1, ZenonT(90) DEF Normalize, Broken
<1>2. norm \in NormType /\ Bad(norm).at \in Broken
  BY BadType DEF LiveTyped, Broken
<1> HIDE DEF n
<1>3. CASE Looked(r)
  <2>1. r.kind = "assistant"
    BY <1>3 DEF Looked
  <2>2. r.texts \in Blocks
    BY <2>1 DEF Records, Bare, Record
  <2>3. r.texts \in Seq(Text) /\ \A i \in 1..Len(r.texts) : r.texts[i] \in Messages
    <3>1. PICK k \in 0..MaxBlocks : r.texts \in [1..k -> Messages]
      BY <2>2 DEF Blocks
    <3>2. k \in Nat
      BY LiveAssumption
    <3>3. Len(r.texts) = k
      BY <3>1, <3>2
    <3> QED BY <2>2, <3>1, <3>3, BlocksType
  <2>4. n = At(Said(norm, r.texts), "chat")
    BY <1>1, <1>2, <2>1 DEF Claude
  <2>5. n.messages = norm.messages \o r.texts /\ n.at = "chat"
    BY <1>2, <2>4 DEF Said, At, NormType
  <2>6. Completed(n, r) = At(n, "complete")
    <3>1. Completed(n, r) = Normalize(n, Record("result", <<>>))
      BY DEF Completed
    <3>2. Normalize(n, Record("result", <<>>)) = Claude(n, Record("result", <<>>))
      BY <2>5, ZenonT(90) DEF Normalize
    <3> QED BY <2>5, <3>1, <3>2 DEF Claude, Record
  <2>7. Completed(n, r).at = "complete" /\ Completed(n, r).messages = n.messages
    BY <1>1, <2>6 DEF At, NormType
  <2>9. \A i \in 1..Len(r.texts) : HasLine(r.texts[i])
    BY <2>3 DEF HasLines
  <2>10. Sane(n) /\ Heard(n) = n.messages /\ Follows(Heard(n), Heard(norm))
    BY <1>2, <2>3, <2>5, <2>9, Listed
  <2> QED BY <1>3, <2>7, <2>10 DEF StepHeard, Accepted, n
<1>4. CASE ~Looked(r)
  <2>1. r.kind # "assistant"
    BY <1>4 DEF Looked
  <2>2. n = norm \/ \E p \in {"chat", "notified", "failed", "complete"} : n = At(norm, p)
    BY <1>1, <1>2, <2>1 DEF Claude
  <2>3. n.messages = norm.messages
    BY <1>2, <2>2 DEF At, NormType
  <2>4. Sane(n) /\ Heard(n) = Heard(norm)
    BY <2>3 DEF Sane, Heard
  <2> QED BY <1>4, <2>4 DEF StepHeard, n
<1> QED BY <1>3, <1>4

\* The next state of Prime, for a record that is in order.
PrimeText(n, r) ==
    IF r.kind \in {"text_delta", "text_end", "assistant_end"} THEN r.texts[1] ELSE n.text
PrimeRight(n, r) ==
    CASE r.kind = "text_delta" -> PrimeText(n, r) # <<"empty">> /\ Starts(PrimeText(n, r), n.text)
      [] r.kind = "text_end" -> PrimeText(n, r) # <<"empty">> /\ n.text \in {<<>>, PrimeText(n, r)}
      [] r.kind = "assistant_end" -> PrimeText(n, r) = n.text
      [] OTHER -> TRUE
PrimeNext(n, r) ==
    [n EXCEPT !.at = PrimeOrder[r.kind][2], !.text = PrimeText(n, r),
              !.messages = IF r.kind = "agent_end" THEN <<PrimeText(n, r)>> ELSE @]

LEMMA PrimeInOrder ==
  ASSUME NEW n \in NormType, n.at \notin Broken, stream = "prime", NEW r,
         r.kind \in DOMAIN PrimeOrder, n.at \in PrimeOrder[r.kind][1], PrimeRight(n, r)
  PROVE  /\ Normalize(n, r) = PrimeNext(n, r)
         /\ Normalize(n, r).at = PrimeOrder[r.kind][2]
         /\ Normalize(n, r).text = PrimeText(n, r)
         /\ Normalize(n, r).messages =
               IF r.kind = "agent_end" THEN <<PrimeText(n, r)>> ELSE n.messages
<1>1. Normalize(n, r) = Prime(n, r)
  BY ZenonT(90) DEF Normalize, Broken
<1>2. r.kind \notin {"refused", "extension_ui_request"}
  BY DEF PrimeOrder
<1>3. Prime(n, r) = PrimeNext(n, r)
  <2> USE DEF PrimeText
  <2> HIDE DEF PrimeOrder, Starts
  <2> QED BY <1>2 DEF Prime, PrimeRight, PrimeNext
<1>4. /\ PrimeNext(n, r).at = PrimeOrder[r.kind][2]
      /\ PrimeNext(n, r).text = PrimeText(n, r)
      /\ PrimeNext(n, r).messages =
             IF r.kind = "agent_end" THEN <<PrimeText(n, r)>> ELSE n.messages
  BY DEF PrimeNext, NormType
<1> QED BY <1>1, <1>3, <1>4

\* Only such a record does not break it.
LEMMA PrimeOnlyInOrder ==
  ASSUME NEW n \in NormType, n.at \notin Broken, stream = "prime", NEW r,
         Normalize(n, r).at \notin Broken
  PROVE  r.kind \in DOMAIN PrimeOrder /\ n.at \in PrimeOrder[r.kind][1] /\ PrimeRight(n, r)
<1>1. Normalize(n, r) = Prime(n, r)
  BY ZenonT(90) DEF Normalize, Broken
<1>2. Bad(n).at \in Broken /\ At(n, "failed").at \in Broken
  BY BadType, AtType DEF Broken, Phases
<1> HIDE DEF PrimeOrder, Starts
<1>3. Prime(n, r) # Bad(n) /\ Prime(n, r) # At(n, "failed")
  BY <1>1, <1>2
<1> QED BY <1>3 DEF Prime, PrimeRight, PrimeText

\* One record more of its end.
PrimeAt(n, t, phase) == n \in NormType /\ n.at = phase /\ n.text = t

LEMMA PrimeEnding ==
  ASSUME NEW n, NEW t \in Text, stream = "prime", stream \in Streams
  PROVE  /\ PrimeAt(n, t, "textdeltas") /\ t # <<"empty">> =>
               PrimeAt(Normalize(n, Record("text_end", <<t>>)), t, "messageend")
         /\ PrimeAt(n, t, "messageend") =>
               PrimeAt(Normalize(n, Record("assistant_end", <<t>>)), t, "turnend")
         /\ PrimeAt(n, t, "turnend") =>
               PrimeAt(Normalize(n, Record("turn_end", <<>>)), t, "agentend")
         /\ PrimeAt(n, t, "agentend") =>
               /\ Normalize(n, Record("agent_end", <<>>)).at = "complete"
               /\ Normalize(n, Record("agent_end", <<>>)).messages = <<t>>
<1>0. /\ \A k \in {"turn_end", "agent_end"} : Legible(Record(k, <<>>))
      /\ \A k \in {"text_end", "assistant_end"} : Legible(Record(k, <<t>>))
  <2>1. <<>> \in Seq(Text)
    OBVIOUS
  <2> QED BY <2>1, OneText DEF Legible, Record
<1>1. t # <<>> /\ Phases \cap Broken = Broken
  BY DEF Text, Phases, Broken
<1>2. \A phase : PrimeAt(n, t, phase) => Told(n)
  BY <1>1 DEF PrimeAt, Told
<1>3. ASSUME PrimeAt(n, t, "textdeltas"), t # <<"empty">>
      PROVE  PrimeAt(Normalize(n, Record("text_end", <<t>>)), t, "messageend")
  <2> DEFINE r == Record("text_end", <<t>>)
  <2>1. r.kind = "text_end" /\ r.texts[1] = t
    BY DEF Record
  <2> HIDE DEF r
  <2>2. /\ r.kind \in DOMAIN PrimeOrder /\ n.at \in PrimeOrder[r.kind][1]
        /\ PrimeOrder[r.kind][2] = "messageend"
    BY <1>3, <2>1 DEF PrimeOrder, PrimeAt
  <2>3. PrimeText(n, r) = t /\ PrimeRight(n, r)
    BY <1>3, <2>1 DEF PrimeText, PrimeRight, PrimeAt
  <2>4. Normalize(n, r).at = "messageend" /\ Normalize(n, r).text = t
    BY <1>3, <2>2, <2>3, PrimeInOrder DEF PrimeAt, Broken
  <2>5. Normalize(n, r) \in NormType
    BY <1>0, <1>2, <1>3, NormalizeType DEF r, PrimeAt
  <2> QED BY <2>4, <2>5 DEF PrimeAt, r
<1>4. ASSUME PrimeAt(n, t, "messageend")
      PROVE  PrimeAt(Normalize(n, Record("assistant_end", <<t>>)), t, "turnend")
  <2> DEFINE r == Record("assistant_end", <<t>>)
  <2>1. r.kind = "assistant_end" /\ r.texts[1] = t
    BY DEF Record
  <2> HIDE DEF r
  <2>2. /\ r.kind \in DOMAIN PrimeOrder /\ n.at \in PrimeOrder[r.kind][1]
        /\ PrimeOrder[r.kind][2] = "turnend"
    BY <1>4, <2>1 DEF PrimeOrder, PrimeAt
  <2>3. PrimeText(n, r) = t /\ PrimeRight(n, r)
    BY <1>4, <2>1 DEF PrimeText, PrimeRight, PrimeAt
  <2>4. Normalize(n, r).at = "turnend" /\ Normalize(n, r).text = t
    BY <1>4, <2>2, <2>3, PrimeInOrder DEF PrimeAt, Broken
  <2>5. Normalize(n, r) \in NormType
    BY <1>0, <1>2, <1>4, NormalizeType DEF r, PrimeAt
  <2> QED BY <2>4, <2>5 DEF PrimeAt, r
<1>5. ASSUME PrimeAt(n, t, "turnend")
      PROVE  PrimeAt(Normalize(n, Record("turn_end", <<>>)), t, "agentend")
  <2> DEFINE r == Record("turn_end", <<>>)
  <2>1. r.kind = "turn_end"
    BY DEF Record
  <2> HIDE DEF r
  <2>2. /\ r.kind \in DOMAIN PrimeOrder /\ n.at \in PrimeOrder[r.kind][1]
        /\ PrimeOrder[r.kind][2] = "agentend"
    BY <1>5, <2>1 DEF PrimeOrder, PrimeAt
  <2>3. PrimeText(n, r) = t /\ PrimeRight(n, r)
    BY <1>5, <2>1 DEF PrimeText, PrimeRight, PrimeAt
  <2>4. Normalize(n, r).at = "agentend" /\ Normalize(n, r).text = t
    BY <1>5, <2>2, <2>3, PrimeInOrder DEF PrimeAt, Broken
  <2>5. Normalize(n, r) \in NormType
    BY <1>0, <1>2, <1>5, NormalizeType DEF r, PrimeAt
  <2> QED BY <2>4, <2>5 DEF PrimeAt, r
<1>6. ASSUME PrimeAt(n, t, "agentend")
      PROVE  /\ Normalize(n, Record("agent_end", <<>>)).at = "complete"
             /\ Normalize(n, Record("agent_end", <<>>)).messages = <<t>>
  <2> DEFINE r == Record("agent_end", <<>>)
  <2>1. r.kind = "agent_end"
    BY DEF Record
  <2> HIDE DEF r
  <2>2. /\ r.kind \in DOMAIN PrimeOrder /\ n.at \in PrimeOrder[r.kind][1]
        /\ PrimeOrder[r.kind][2] = "complete"
    BY <1>6, <2>1 DEF PrimeOrder, PrimeAt
  <2>3. PrimeText(n, r) = t /\ PrimeRight(n, r)
    BY <1>6, <2>1 DEF PrimeText, PrimeRight, PrimeAt
  <2>4. Normalize(n, r).at = "complete" /\ Normalize(n, r).messages = <<t>>
    BY <1>6, <2>1, <2>2, <2>3, PrimeInOrder DEF PrimeAt, Broken
  <2> QED BY <2>4 DEF r
<1> QED BY <1>3, <1>4, <1>5, <1>6

\* The completed stream is the text so far.
LEMMA PrimeCompletes ==
  ASSUME NEW n, NEW t \in Text, stream = "prime", stream \in Streams,
         NEW r, r.texts = <<t>>,
         \/ r.kind = "text_delta" /\ PrimeAt(n, t, "textdeltas") /\ t # <<"empty">>
         \/ r.kind = "text_end" /\ PrimeAt(n, t, "messageend")
         \/ r.kind = "assistant_end" /\ PrimeAt(n, t, "turnend")
  PROVE  Completed(n, r).at = "complete" /\ Completed(n, r).messages = <<t>>
<1> DEFINE told == IF r.kind = "text_delta" THEN Normalize(n, Record("text_end", <<t>>)) ELSE n
           said == IF r.kind = "assistant_end" THEN told
                   ELSE Normalize(told, Record("assistant_end", <<t>>))
           ended == Normalize(said, Record("turn_end", <<>>))
           over == Normalize(ended, Record("agent_end", <<>>))
<1>1. Completed(n, r) = over
  BY DEF Completed
<1>2. r.kind # "assistant_end" => PrimeAt(told, t, "messageend")
  BY PrimeEnding
<1>3. r.kind = "assistant_end" => PrimeAt(told, t, "turnend")
  OBVIOUS
<1> HIDE DEF told
<1>4. PrimeAt(said, t, "turnend")
  BY <1>2, <1>3, PrimeEnding
<1> HIDE DEF said
<1>5. PrimeAt(ended, t, "agentend")
  BY <1>4, PrimeEnding
<1> HIDE DEF ended
<1>6. over.at = "complete" /\ over.messages = <<t>>
  BY <1>5, PrimeEnding
<1> QED BY <1>1, <1>6

\* The texts of its records.
LEMMA PrimeRecords ==
  ASSUME NEW r \in Records, stream = "prime", norm \in NormType
  PROVE  Looked(r) => \E t \in Text : r.texts = <<t>>
<1>1. /\ norm.text \in Seq(Kinds)
      /\ Messages \subseteq Text
  BY NormFields, LiveAssumption
<1>2. \/ r \in Bare((DOMAIN PrimeOrder \ {"text_delta", "text_end", "assistant_end"})
                     \cup {"refused", "extension_ui_request", "unknown"})
      \/ r \in Texts("text_delta", Grown(norm.text))
      \/ r \in Texts("text_end", (Messages \cup {norm.text}) \ {<<>>})
      \/ r \in Texts("assistant_end", (Messages \cup {norm.text}) \ {<<>>})
  BY DEF Records
<1>3. CASE r \in Bare((DOMAIN PrimeOrder \ {"text_delta", "text_end", "assistant_end"})
                      \cup {"refused", "extension_ui_request", "unknown"})
  BY <1>3 DEF Bare, Record, Looked
<1>4. CASE r \in Texts("text_delta", Grown(norm.text))
  <2>1. \E t \in Grown(norm.text) : r.texts = <<t>>
    BY <1>4 DEF Texts, Record
  <2> QED BY <1>1, <2>1, GrownType
<1>5. CASE \E k : r \in Texts(k, (Messages \cup {norm.text}) \ {<<>>})
  <2>1. \E t \in (Messages \cup {norm.text}) \ {<<>>} : r.texts = <<t>>
    BY <1>5 DEF Texts, Record
  <2>2. (Messages \cup {norm.text}) \ {<<>>} \subseteq Text
    BY <1>1 DEF Text
  <2> QED BY <2>1, <2>2
<1> QED BY <1>2, <1>3, <1>4, <1>5

LEMMA FollowsOne ==
  ASSUME NEW t \in Text, NEW p \in Seq(Kinds), p # <<>> => Starts(t, p)
  PROVE  Follows(<<t>>, IF p = <<>> THEN <<>> ELSE <<p>>)
<1>1. Len(<<t>>) = 1 /\ <<t>>[1] = t /\ Len(<<p>>) = 1 /\ <<p>>[1] = p /\ Len(<<>>) = 0
  OBVIOUS
<1> QED BY <1>1 DEF Follows

\* A text starts with itself.
LEMMA StartsItself == ASSUME NEW t \in Text PROVE Starts(t, t)
  BY LeadsStarts DEF Leads, Text

LEMMA PrimeHeard ==
  ASSUME LiveTyped, stream = "prime", Sane(norm), NEW r \in Records,
         norm.at \notin Broken, Normalize(norm, r).at \notin Broken
  PROVE  StepHeard(r)
<1> DEFINE n == Normalize(norm, r)
<1>1. n \in NormType /\ n.at \notin Broken
  BY RecordsLegible, NormalizeType DEF LiveTyped
<1>2. norm \in NormType /\ Told(norm) /\ stream \in Streams
  BY DEF LiveTyped
<1>3. r.kind \in DOMAIN PrimeOrder /\ norm.at \in PrimeOrder[r.kind][1] /\ PrimeRight(norm, r)
  BY <1>2, PrimeOnlyInOrder
<1>4. /\ n.at = PrimeOrder[r.kind][2] /\ n.text = PrimeText(norm, r)
      /\ n.messages = IF r.kind = "agent_end" THEN <<PrimeText(norm, r)>> ELSE norm.messages
  BY <1>2, <1>3, PrimeInOrder
<1> HIDE DEF n
<1>5. CASE Looked(r)
  <2>1. r.kind \in {"text_delta", "text_end", "assistant_end"}
    BY <1>5 DEF Looked
  <2>2. PICK t \in Text : r.texts = <<t>>
    BY <1>2, <1>5, PrimeRecords
  <2>3. n.text = t /\ t # <<>>
    BY <1>4, <2>1, <2>2 DEF PrimeText, Text
  <2>4. \/ r.kind = "text_delta" /\ PrimeAt(n, t, "textdeltas") /\ t # <<"empty">>
        \/ r.kind = "text_end" /\ PrimeAt(n, t, "messageend")
        \/ r.kind = "assistant_end" /\ PrimeAt(n, t, "turnend")
    BY <1>1, <1>3, <1>4, <2>1, <2>2, <2>3 DEF PrimeOrder, PrimeRight, PrimeText, PrimeAt
  <2>5. Completed(n, r).at = "complete" /\ Completed(n, r).messages = <<t>>
    BY <1>2, <2>2, <2>4, PrimeCompletes
  <2>6. Heard(n) = <<t>> /\ Heard(norm) = IF norm.text = <<>> THEN <<>> ELSE <<norm.text>>
    BY <2>3 DEF Heard
  <2>7. norm.text # <<>> => Starts(t, norm.text)
    <3>1. Starts(t, norm.text) \/ norm.text \in {<<>>, t}
      BY <1>3, <2>1, <2>2 DEF PrimeRight, PrimeText
    <3> QED BY <3>1, StartsItself
  <2>8. norm.text \in Seq(Kinds)
    BY <1>2, NormFields
  <2>9. Follows(Heard(n), Heard(norm))
    BY <2>6, <2>7, <2>8, FollowsOne
  <2>10. Sane(n)
    BY <2>4 DEF Sane, PrimeAt
  <2> QED BY <1>5, <2>5, <2>6, <2>9, <2>10 DEF StepHeard, Accepted, n
<1>6. CASE ~Looked(r)
  <2>1. r.kind \notin {"text_delta", "text_end", "assistant_end"}
    BY <1>6 DEF Looked
  <2>2. n.text = norm.text
    BY <1>4, <2>1 DEF PrimeText
  <2>3. Heard(n) = Heard(norm)
    BY <2>2 DEF Heard
  <2>4. n.at = "complete" => r.kind = "agent_end" /\ norm.at = "agentend"
    BY <1>3, <1>4 DEF PrimeOrder
  <2>5. Sane(n)
    BY <1>2, <1>4, <2>1, <2>2, <2>4 DEF Sane, Told, PrimeText
  <2> QED BY <1>6, <2>3, <2>5 DEF StepHeard, n
<1> QED BY <1>5, <1>6

\* A record of OMP that is in order.
LEMMA OmpInOrder ==
  ASSUME NEW n \in NormType, n.at \notin Broken, stream = "omp", NEW r,
         r.kind \in DOMAIN OmpOrder, n.at = OmpOrder[r.kind][1]
  PROVE  /\ Normalize(n, r).at = OmpOrder[r.kind][2]
         /\ Normalize(n, r).text = IF r.kind = "text_delta" THEN r.texts[1] ELSE n.text
         /\ Normalize(n, r).messages = IF r.kind = "assistant_end" THEN r.texts ELSE n.messages
         /\ Normalize(n, r).ack = n.ack
<1> DEFINE m == [n EXCEPT !.at = OmpOrder[r.kind][2],
                      !.text = IF r.kind = "text_delta" THEN r.texts[1] ELSE @,
                      !.messages = IF r.kind = "assistant_end" THEN r.texts ELSE @]
<1>1. Normalize(n, r) = Omp(n, r)
  BY ZenonT(90) DEF Normalize, Broken
<1>2. r.kind \notin {"presentation", "interaction", "response", "refused", "state_failed",
                     "nonterminal"}
  BY DEF OmpOrder
<1>3. Omp(n, r) = m
  <2> HIDE DEF OmpOrder
  <2> QED BY <1>2 DEF Omp
<1>4. /\ m.at = OmpOrder[r.kind][2]
      /\ m.text = IF r.kind = "text_delta" THEN r.texts[1] ELSE n.text
      /\ m.messages = IF r.kind = "assistant_end" THEN r.texts ELSE n.messages
      /\ m.ack = n.ack
  BY DEF NormType
<1> QED BY <1>1, <1>3, <1>4

\* Only such a record, presentation and the answer to the prompt do not break it.
LEMMA OmpOnlyInOrder ==
  ASSUME NEW n \in NormType, n.at \notin Broken, stream = "omp", NEW r,
         Normalize(n, r).at \notin Broken
  PROVE  \/ r.kind \in DOMAIN OmpOrder /\ n.at = OmpOrder[r.kind][1]
         \/ /\ r.kind \notin {"text_delta", "assistant_end"}
            /\ Normalize(n, r) \in {n, [n EXCEPT !.ack = TRUE]}
<1>1. Normalize(n, r) = Omp(n, r)
  BY ZenonT(90) DEF Normalize, Broken
<1>2. Bad(n).at \in Broken /\ At(n, "failed").at \in Broken
  BY BadType, AtType DEF Broken, Phases
<1>3. Omp(n, r) # Bad(n) /\ Omp(n, r) # At(n, "failed")
  BY <1>1, <1>2
<1> QED BY <1>1, <1>3 DEF Omp, OmpOrder

\* One record more of its end.
OmpAt(n, ms, phase) == n \in NormType /\ n.at = phase /\ n.messages = ms

LEMMA OmpEnding ==
  ASSUME NEW n, NEW ms \in Seq(Text), stream = "omp", stream \in Streams
  PROVE  /\ n \in NormType /\ n.at = "messageend" =>
               /\ OmpAt(Normalize(n, Record("assistant_end", ms)), ms, "turnend")
               /\ Normalize(n, Record("assistant_end", ms)).ack = n.ack
         /\ OmpAt(n, ms, "turnend") =>
               /\ OmpAt(Normalize(n, Record("turn_end", <<>>)), ms, "agentend")
               /\ Normalize(n, Record("turn_end", <<>>)).ack = n.ack
         /\ OmpAt(n, ms, "agentend") =>
               /\ OmpAt(Normalize(n, Record("agent_end", <<>>)), ms, "complete")
               /\ Normalize(n, Record("agent_end", <<>>)).ack = n.ack
         /\ OmpAt(n, ms, "complete") /\ ~n.ack =>
               /\ OmpAt(Normalize(n, Record("response", <<>>)), ms, "complete")
               /\ Normalize(n, Record("response", <<>>)).ack
<1>1. /\ \A k \in {"turn_end", "agent_end", "response"} : Legible(Record(k, <<>>))
      /\ Legible(Record("assistant_end", ms))
  <2>1. <<>> \in Seq(Text)
    OBVIOUS
  <2> QED BY <2>1 DEF Legible, Record
<1>2. Told(n)
  BY DEF Told
<1>3. ASSUME n \in NormType, n.at = "messageend"
      PROVE  /\ OmpAt(Normalize(n, Record("assistant_end", ms)), ms, "turnend")
             /\ Normalize(n, Record("assistant_end", ms)).ack = n.ack
  <2> DEFINE r == Record("assistant_end", ms)
  <2>1. r.kind = "assistant_end" /\ r.texts = ms
    BY DEF Record
  <2> HIDE DEF r
  <2>2. /\ r.kind \in DOMAIN OmpOrder /\ n.at = OmpOrder[r.kind][1]
        /\ OmpOrder[r.kind][2] = "turnend"
    BY <1>3, <2>1 DEF OmpOrder
  <2>3. Normalize(n, r) \in NormType
    BY <1>1, <1>2, <1>3, NormalizeType DEF r
  <2> QED BY <1>3, <2>1, <2>2, <2>3, OmpInOrder DEF OmpAt, Broken, r
<1>4. ASSUME OmpAt(n, ms, "turnend")
      PROVE  /\ OmpAt(Normalize(n, Record("turn_end", <<>>)), ms, "agentend")
             /\ Normalize(n, Record("turn_end", <<>>)).ack = n.ack
  <2> DEFINE r == Record("turn_end", <<>>)
  <2>1. r.kind = "turn_end"
    BY DEF Record
  <2> HIDE DEF r
  <2>2. /\ r.kind \in DOMAIN OmpOrder /\ n.at = OmpOrder[r.kind][1]
        /\ OmpOrder[r.kind][2] = "agentend"
    BY <1>4, <2>1 DEF OmpOrder, OmpAt
  <2>3. Normalize(n, r) \in NormType
    BY <1>1, <1>2, <1>4, NormalizeType DEF r, OmpAt
  <2> QED BY <1>4, <2>1, <2>2, <2>3, OmpInOrder DEF OmpAt, Broken, r
<1>5. ASSUME OmpAt(n, ms, "agentend")
      PROVE  /\ OmpAt(Normalize(n, Record("agent_end", <<>>)), ms, "complete")
             /\ Normalize(n, Record("agent_end", <<>>)).ack = n.ack
  <2> DEFINE r == Record("agent_end", <<>>)
  <2>1. r.kind = "agent_end"
    BY DEF Record
  <2> HIDE DEF r
  <2>2. /\ r.kind \in DOMAIN OmpOrder /\ n.at = OmpOrder[r.kind][1]
        /\ OmpOrder[r.kind][2] = "complete"
    BY <1>5, <2>1 DEF OmpOrder, OmpAt
  <2>3. Normalize(n, r) \in NormType
    BY <1>1, <1>2, <1>5, NormalizeType DEF r, OmpAt
  <2> QED BY <1>5, <2>1, <2>2, <2>3, OmpInOrder DEF OmpAt, Broken, r
<1>6. ASSUME OmpAt(n, ms, "complete"), ~n.ack
      PROVE  /\ OmpAt(Normalize(n, Record("response", <<>>)), ms, "complete")
             /\ Normalize(n, Record("response", <<>>)).ack
  <2>1. Normalize(n, Record("response", <<>>)) = Omp(n, Record("response", <<>>))
    BY <1>6, ZenonT(90) DEF Normalize, OmpAt
  <2>2. Omp(n, Record("response", <<>>)) = [n EXCEPT !.ack = TRUE]
    <3> DEFINE r == Record("response", <<>>)
    <3>1. r.kind = "response"
      BY DEF Record
    <3> HIDE DEF r
    <3>2. Omp(n, r) = [n EXCEPT !.ack = TRUE]
      BY <1>6, <3>1 DEF Omp, OmpAt, OmpOrder
    <3> QED BY <3>2 DEF r
  <2> QED BY <1>6, <2>1, <2>2 DEF OmpAt, NormType
<1> QED BY <1>3, <1>4, <1>5, <1>6

\* The completed stream is the text so far, or the message as it ended.
LEMMA OmpCompletes ==
  ASSUME NEW n \in NormType, NEW ms \in Seq(Text), stream = "omp", stream \in Streams,
         NEW r, r.texts = ms,
         \/ r.kind = "text_delta" /\ n.at = "messageend"
         \/ r.kind = "assistant_end" /\ OmpAt(n, ms, "turnend")
  PROVE  Accepted(Completed(n, r)) /\ Completed(n, r).messages = ms
<1> DEFINE said == IF r.kind = "assistant_end" THEN n
                   ELSE Normalize(n, Record("assistant_end", ms))
           ended == Normalize(said, Record("turn_end", <<>>))
           over == Normalize(ended, Record("agent_end", <<>>))
<1>1. Completed(n, r) = IF n.ack THEN over ELSE Normalize(over, Record("response", <<>>))
  BY DEF Completed
<1>2. OmpAt(said, ms, "turnend") /\ said.ack = n.ack
  BY OmpEnding
<1> HIDE DEF said
<1>3. OmpAt(ended, ms, "agentend") /\ ended.ack = n.ack
  BY <1>2, OmpEnding
<1> HIDE DEF ended
<1>4. OmpAt(over, ms, "complete") /\ over.ack = n.ack
  BY <1>3, OmpEnding
<1> HIDE DEF over
<1>5. ~n.ack => /\ OmpAt(Normalize(over, Record("response", <<>>)), ms, "complete")
                /\ Normalize(over, Record("response", <<>>)).ack
  BY <1>4, OmpEnding
<1> QED BY <1>1, <1>4, <1>5 DEF OmpAt, Accepted

\* The texts of its records: the message is the streamed text, or has at most one block.
LEMMA OmpRecords ==
  ASSUME NEW r \in Records, stream = "omp", norm \in NormType, stream \in Streams, OneBlock
  PROVE  /\ r.kind = "text_delta" => \E t \in Text : r.texts = <<t>> /\ Starts(t, norm.text)
         /\ r.kind = "assistant_end" =>
               /\ r.texts \in Seq(Text) /\ Len(r.texts) <= 1
               /\ norm.text # <<>> => r.texts = <<norm.text>>
<1>1. norm.text \in Seq(Kinds) /\ (norm.text # <<>> => norm.text \in Text)
  BY NormFields DEF Text
<1>2. CASE r.kind = "text_delta"
  <2>1. r \in Texts("text_delta", Grown(norm.text))
    BY <1>2 DEF Records, Bare, Record, OmpOrder
  <2>2. PICK t \in Grown(norm.text) : r.texts = <<t>>
    BY <2>1 DEF Texts, Record
  <2>3. Starts(t, norm.text)
    BY DEF Grown
  <2>4. t \in Text
    BY <1>1, GrownType
  <2> QED BY <1>2, <2>2, <2>3, <2>4
<1>3. CASE r.kind = "assistant_end"
  <2>1. PICK ts \in IF norm.text = <<>> THEN Blocks ELSE Split(norm.text) :
                r = Record("assistant_end", ts)
    <3>1. r \in {Record("assistant_end", ts) :
                    ts \in IF norm.text = <<>> THEN Blocks ELSE Split(norm.text)}
      BY <1>3 DEF Records, Bare, Texts, Record, OmpOrder
    <3> QED BY <3>1
  <2>2. r.texts = ts
    BY <2>1 DEF Record
  <2>3. MaxBlocks \in Nat /\ MaxBlocks <= 1
    BY LiveAssumption DEF OneBlock
  <2>4. CASE norm.text = <<>>
    <3>1. ts \in Blocks
      BY <2>1, <2>4
    <3>2. PICK k \in 0..MaxBlocks : ts \in [1..k -> Messages]
      BY <3>1 DEF Blocks
    <3>3. Len(ts) = k /\ k <= 1
      BY <2>3, <3>2
    <3> QED BY <1>3, <2>2, <2>4, <3>1, <3>3, BlocksType
  <2>5. CASE norm.text # <<>>
    <3>1. ts = <<norm.text>>
      BY <2>1, <2>3, <2>5 DEF Split
    <3>2. <<norm.text>> \in Seq(Text) /\ Len(<<norm.text>>) = 1
      BY <1>1, <2>5
    <3> QED BY <1>3, <2>2, <3>1, <3>2
  <2> QED BY <2>4, <2>5
<1> QED BY <1>2, <1>3

LEMMA OmpHeard ==
  ASSUME LiveTyped, OneBlock, stream = "omp", Sane(norm), NEW r \in Records,
         norm.at \notin Broken, Normalize(norm, r).at \notin Broken
  PROVE  StepHeard(r)
<1> DEFINE n == Normalize(norm, r)
           ended == {"turnend", "agentend", "complete"}
<1>1. n \in NormType /\ n.at \notin Broken
  BY RecordsLegible, NormalizeType DEF LiveTyped
<1>2. norm \in NormType /\ stream \in Streams
  BY DEF LiveTyped
<1>3. \/ r.kind \in DOMAIN OmpOrder /\ norm.at = OmpOrder[r.kind][1]
      \/ /\ r.kind \notin {"text_delta", "assistant_end"}
         /\ n \in {norm, [norm EXCEPT !.ack = TRUE]}
  BY <1>2, OmpOnlyInOrder
<1>4. r.kind \in DOMAIN OmpOrder /\ norm.at = OmpOrder[r.kind][1] =>
         /\ n.at = OmpOrder[r.kind][2]
         /\ n.text = IF r.kind = "text_delta" THEN r.texts[1] ELSE norm.text
         /\ n.messages = IF r.kind = "assistant_end" THEN r.texts ELSE norm.messages
  BY <1>2, OmpInOrder
<1> HIDE DEF n
<1>5. CASE r.kind = "text_delta"
  <2>1. PICK t \in Text : r.texts = <<t>> /\ Starts(t, norm.text)
    BY <1>2, <1>5, OmpRecords
  <2>2. n.at = "messageend" /\ n.text = t /\ n.messages = norm.messages /\ norm.at = "messageend"
    BY <1>3, <1>4, <1>5, <2>1 DEF OmpOrder
  <2>3. Accepted(Completed(n, r)) /\ Completed(n, r).messages = <<t>>
    BY <1>1, <1>2, <1>5, <2>1, <2>2, OneText, OmpCompletes
  <2>4. /\ Heard(n) = <<t>>
        /\ Heard(norm) = IF norm.text = <<>> THEN <<>> ELSE <<norm.text>>
    BY <2>2 DEF Heard, Text
  <2>5. Follows(Heard(n), Heard(norm))
    BY <1>2, <2>1, <2>4, NormFields, FollowsOne
  <2>6. Sane(n) /\ Looked(r)
    BY <1>5, <2>2 DEF Sane, Looked
  <2> QED BY <2>3, <2>4, <2>5, <2>6 DEF StepHeard, n
<1>6. CASE r.kind = "assistant_end"
  <2>1. /\ r.texts \in Seq(Text) /\ Len(r.texts) <= 1
        /\ norm.text # <<>> => r.texts = <<norm.text>>
    BY <1>2, <1>6, OmpRecords
  <2>2. n.at = "turnend" /\ n.messages = r.texts /\ norm.at = "messageend"
    BY <1>3, <1>4, <1>6 DEF OmpOrder
  <2>3. Accepted(Completed(n, r)) /\ Completed(n, r).messages = r.texts
    BY <1>1, <1>2, <1>6, <2>1, <2>2, OmpCompletes DEF OmpAt
  <2>4. /\ Heard(n) = r.texts
        /\ Heard(norm) = IF norm.text = <<>> THEN <<>> ELSE <<norm.text>>
    BY <2>2 DEF Heard
  <2>5. Follows(Heard(n), Heard(norm))
    <3>1. CASE norm.text = <<>>
      BY <2>1, <2>4, <3>1 DEF Follows
    <3>2. CASE norm.text # <<>>
      <4>1. norm.text \in Text
        BY <1>2, <3>2 DEF NormType, Text
      <4> QED BY <2>1, <2>4, <3>2, <4>1, StartsItself, NormFields, <1>2, FollowsOne
    <3> QED BY <3>1, <3>2
  <2>6. Sane(n) /\ Looked(r)
    BY <1>6, <2>1, <2>2 DEF Sane, Looked
  <2> QED BY <2>3, <2>4, <2>5, <2>6 DEF StepHeard, n
<1>7. CASE r.kind \notin {"text_delta", "assistant_end"}
  <2>1. /\ n.text = norm.text /\ n.messages = norm.messages
        /\ n.at \in ended <=> norm.at \in ended
    <3>1. CASE n \in {norm, [norm EXCEPT !.ack = TRUE]}
      BY <1>2, <3>1 DEF NormType
    <3>2. CASE r.kind \in DOMAIN OmpOrder /\ norm.at = OmpOrder[r.kind][1]
      BY <1>4, <1>7, <3>2 DEF OmpOrder
    <3> QED BY <1>3, <3>1, <3>2
  <2>2. Heard(n) = Heard(norm) /\ Sane(n)
    BY <2>1 DEF Heard, Sane
  <2>3. ~Looked(r)
    BY <1>7 DEF Looked
  <2> QED BY <2>2, <2>3 DEF StepHeard, n
<1> QED BY <1>5, <1>6, <1>7

\* Every stream.
LEMMA RecordsHeard ==
  ASSUME LiveTyped, HasLines, OneBlock, Sane(norm), NEW r \in Records,
         norm.at \notin Broken, Normalize(norm, r).at \notin Broken
  PROVE  StepHeard(r)
BY LiveAssumption, CodexHeard, SdkHeard, ClaudeHeard, PrimeHeard, OmpHeard DEF LiveTyped

LEMMA BrokenStays ==
  ASSUME NEW n, n.at \in Broken, NEW r PROVE Normalize(n, r) = n
  BY ZenonT(90) DEF Normalize, Broken

-----------------------------------------------------------------------------
(* The invariant                                                            *)

\* What is shown is a beginning of what may be shown of the messages heard, all of it
\* unless something is withheld.
Heeded ==
    /\ ending = "running" /\ norm.at \notin Broken => Sane(norm) /\ candidates = Heard(norm)
    /\ ending = "running" =>
          /\ Fine(candidates) /\ Leads(Visible(candidates), shown)
          /\ ~stalled => shown = Visible(candidates)

LEMMA FollowsUnchanged ==
  ASSUME candidates \in Seq(Text), NEW ms \in Seq(Text), Follows(ms, candidates)
  PROVE  ~Changed(ms)
<1>1. Len(candidates) <= Len(ms) /\ Len(candidates) \in Nat /\ Len(ms) \in Nat
  BY DEF Follows
<1>2. ASSUME NEW i \in 1..Len(candidates)
      PROVE  IF Len(ms) = Len(candidates) /\ i = Len(ms) THEN Starts(ms[i], candidates[i])
             ELSE ms[i] = candidates[i]
  <2>1. \/ ms[i] = candidates[i]
        \/ i = Len(candidates) /\ i = Len(ms) /\ Starts(ms[i], candidates[i])
    BY DEF Follows
  <2>2. candidates[i] \in Text
    OBVIOUS
  <2>3. Starts(candidates[i], candidates[i])
    BY <2>2, StartsItself
  <2> QED BY <2>1, <2>3
<1> QED BY <1>1, <1>2 DEF Changed

\* New messages are not refused.
LEMMA ReconcileAccepts ==
  ASSUME LiveTyped, NEW ms \in Seq(Text), Fine(ms), Follows(ms, candidates), Reconcile(ms),
         Fine(candidates), Leads(Visible(candidates), shown), ending = "running",
         ~stalled => shown = Visible(candidates)
  PROVE  /\ candidates' = ms
         /\ ending' \in {"running", "sink"}
         /\ ending' = "running" => /\ Leads(Visible(ms), shown')
                                   /\ ~stalled' => shown' = Visible(ms)
<1>1. candidates \in Seq(Text) /\ shown \in Seq(Kinds)
  BY DEF LiveTyped
<1>2. Visible(ms) \in Seq(Kinds) /\ Visible(candidates) \in Seq(Kinds)
  BY <1>1, VisibleType
<1>3. ~Changed(ms)
  BY <1>1, FollowsUnchanged
<1>4. Leads(Visible(ms), Visible(candidates))
  BY <1>1, VisibleGrows
<1>5. Leads(Visible(ms), shown) /\ Starts(Visible(ms), shown)
  BY <1>1, <1>2, <1>4, LeadsOn, LeadsStarts
<1>6. Leads(Visible(ms), Visible(ms))
  BY <1>2 DEF Leads
<1>7. /\ candidates' = ms
      /\ \/ stalled' = TRUE /\ UNCHANGED <<shown, ending>>
         \/ stalled /\ UNCHANGED <<shown, stalled, ending>>
         \/ Visible(ms) = shown /\ UNCHANGED <<shown, stalled, ending>>
         \/ shown' = Visible(ms) /\ UNCHANGED <<stalled, ending>>
         \/ ending' = "sink"
  BY <1>3, <1>5 DEF Reconcile, Keep
<1> QED BY <1>5, <1>6, <1>7

LEMMA HeededAtFirst == ASSUME LiveInit PROVE Heeded /\ LiveAcceptsValid
<1>1. norm.messages = <<>> /\ norm.text = <<>> /\ norm.at = "first" /\ candidates = <<>>
  BY DEF LiveInit, NoRecords
<1>2. Heard(norm) = <<>>
  BY <1>1 DEF Heard
<1>3. Len(<<>>) = 0
  OBVIOUS
<1>4. Sane(norm) /\ Fine(candidates)
  BY <1>1, <1>3 DEF Sane, Fine
<1>5. Visible(<<>>) = <<>>
  BY DEF Visible
<1>6. shown = Visible(candidates) /\ shown = <<>> /\ ending = "running"
  BY <1>1, <1>5 DEF LiveInit
<1>7. Leads(Visible(candidates), shown)
  BY <1>3, <1>5, <1>6 DEF Leads
<1> QED BY <1>1, <1>2, <1>4, <1>6, <1>7 DEF Heeded, LiveAcceptsValid

\* A broken stream is completed to a broken one.
LEMMA BrokenCompletes ==
  ASSUME NEW n, n.at \in Broken, NEW r, stream \in Streams PROVE Completed(n, r) = n
<1>1. /\ Normalize(n, Record("text_end", r.texts)) = n
      /\ Normalize(n, Record("assistant_end", r.texts)) = n
      /\ \A k : Normalize(n, Record(k, <<>>)) = n
  BY BrokenStays
<1> QED BY <1>1, LiveAssumption DEF Completed

LEMMA ObserveHeeds ==
  ASSUME HasLines, OneBlock, LiveTyped, Heeded, LiveAcceptsValid, Observe
  PROVE  Heeded' /\ LiveAcceptsValid'
<1>1. PICK r \in Records :
         LET n == Normalize(norm, r)
             whole == Completed(n, r)
         IN /\ norm' = n
            /\ IF ~Looked(r) THEN UNCHANGED candidates /\ Keep
               ELSE IF ~Accepted(whole) THEN Refuse
               ELSE IF whole.messages = <<>> THEN UNCHANGED candidates /\ Keep
               ELSE Reconcile(whole.messages)
  BY DEF Observe
<1> DEFINE n == Normalize(norm, r)
<1>2. norm' = n /\ stream' = stream /\ ending = "running"
  BY <1>1 DEF Observe
<1>3. n \in NormType /\ stream \in Streams /\ candidates \in Seq(Text)
  BY ObservedType DEF LiveTyped
<1>4. /\ Fine(candidates) /\ Leads(Visible(candidates), shown)
      /\ ~stalled => shown = Visible(candidates)
  BY <1>2 DEF Heeded
<1>5. CASE UNCHANGED candidates /\ Keep /\ (n.at \notin Broken => Sane(n) /\ candidates = Heard(n))
  <2>1. norm'.at \notin Broken => Sane(norm)' /\ candidates' = Heard(norm)'
    BY <1>2, <1>5 DEF Sane, Heard
  <2>2. ending' = "running" /\ shown' = shown /\ stalled' = stalled
    BY <1>2, <1>5 DEF Keep
  <2> QED BY <1>4, <1>5, <2>1, <2>2 DEF Heeded, LiveAcceptsValid
<1>6. CASE n.at \in Broken
  <2>1. CASE ~Looked(r)
    BY <1>1, <1>5, <1>6, <2>1
  <2>2. CASE Looked(r)
    <3>1. Completed(n, r) = n
      BY <1>3, <1>6, BrokenCompletes
    <3>2. ~Accepted(Completed(n, r))
      BY <1>6, <3>1 DEF Accepted, Broken
    <3>3. ending' = "refused"
      BY <1>1, <2>2, <3>2 DEF Refuse
    <3> QED BY <1>2, <1>6, <3>3 DEF Heeded, LiveAcceptsValid, Broken
  <2> QED BY <2>1, <2>2
<1>7. CASE n.at \notin Broken
  <2>1. norm.at \notin Broken
    BY <1>7, BrokenStays
  <2>2. Sane(norm) /\ candidates = Heard(norm)
    BY <1>2, <2>1 DEF Heeded
  <2>3. StepHeard(r)
    BY <1>7, <2>1, <2>2, RecordsHeard
  <2>4. /\ Sane(n)
        /\ ~Looked(r) => Heard(n) = candidates
        /\ Looked(r) => /\ Accepted(Completed(n, r)) /\ Completed(n, r).messages = Heard(n)
                        /\ Follows(Heard(n), candidates)
    BY <2>2, <2>3 DEF StepHeard
  <2>5. Heard(n) \in Seq(Text) /\ Fine(Heard(n))
    BY <1>3, <2>4, HeardFine
  <2> HIDE DEF n
  <2>6. CASE ~Looked(r)
    BY <1>1, <1>5, <2>4, <2>6 DEF n
  <2>7. CASE Looked(r) /\ Heard(n) = <<>>
    <3>1. UNCHANGED candidates /\ Keep
      BY <1>1, <2>4, <2>7 DEF n
    <3>2. Len(candidates) <= 0
      BY <2>4, <2>7 DEF Follows
    <3>3. candidates = Heard(n)
      BY <1>3, <2>7, <3>2
    <3> QED BY <1>5, <2>4, <3>1, <3>3
  <2>8. CASE Looked(r) /\ Heard(n) # <<>>
    <3>1. Reconcile(Heard(n))
      BY <1>1, <2>4, <2>8 DEF n
    <3>2. /\ candidates' = Heard(n)
          /\ ending' \in {"running", "sink"}
          /\ ending' = "running" => /\ Leads(Visible(Heard(n)), shown')
                                    /\ ~stalled' => shown' = Visible(Heard(n))
      BY <1>2, <1>4, <2>4, <2>5, <2>8, <3>1, ReconcileAccepts
    <3>3. Sane(norm)' /\ candidates' = Heard(norm)'
      BY <1>2, <2>4, <3>2 DEF Sane, Heard
    <3>4. Fine(candidates') /\ (ending' = "running" =>
             Leads(Visible(candidates'), shown') /\ (~stalled' => shown' = Visible(candidates')))
      BY <2>5, <3>2
    <3>5. Heeded'
      BY <3>3, <3>4 DEF Heeded
    <3> QED BY <3>2, <3>5 DEF LiveAcceptsValid
  <2> QED BY <2>6, <2>7, <2>8
<1> QED BY <1>6, <1>7

LEMMA SettleHeeds ==
  ASSUME LiveTyped, Heeded, Settle
  PROVE  Heeded' /\ LiveAcceptsValid'
<1>1. /\ ending = "running" /\ ending' \in {"malformed", "mismatch", "ok"}
      /\ ending' = "mismatch" => Accepted(norm) /\ ~Starts(Rendered(norm.messages), shown)
  BY DEF Settle
<1>2. ASSUME Accepted(norm) PROVE Starts(Rendered(norm.messages), shown)
  <2>1. norm.at = "complete"
    BY <1>2 DEF Accepted
  <2>2. /\ Sane(norm) /\ candidates = Heard(norm) /\ Fine(candidates)
        /\ Leads(Visible(candidates), shown)
    BY <1>1, <2>1 DEF Heeded, Broken
  <2>3. candidates = norm.messages
    BY <2>1, <2>2 DEF Heard, Sane
  <2>4. candidates \in Seq(Text) /\ shown \in Seq(Kinds)
    BY DEF LiveTyped
  <2>5. /\ Visible(candidates) \in Seq(Kinds) /\ FlattenSeq(candidates) \in Seq(Kinds)
        /\ Leads(FlattenSeq(candidates), Visible(candidates))
    BY <2>2, <2>4, VisibleLeads
  <2>6. Leads(FlattenSeq(candidates), shown)
    BY <2>2, <2>4, <2>5, LeadsOn
  <2>7. Starts(FlattenSeq(candidates), shown) /\ Starts(Visible(candidates), shown)
    BY <2>2, <2>4, <2>5, <2>6, LeadsStarts
  <2> QED BY <2>3, <2>7 DEF Rendered
<1>3. ending' \in {"malformed", "ok"}
  BY <1>1, <1>2
<1> QED BY <1>3 DEF Heeded, LiveAcceptsValid

\* Human output refuses no run that is valid, at no record and not at the end
\* (cli/README.md:391), for every bound and every set of messages that have a line which is
\* not blank; a message of OMP must be one block of text, as its deltas are.
THEOREM ValidAccepted == HasLines /\ OneBlock => (LiveSpec => []LiveAcceptsValid)
<1> SUFFICES ASSUME HasLines, OneBlock PROVE LiveSpec => []LiveAcceptsValid
  OBVIOUS
<1>1. LiveInit => Heeded /\ LiveAcceptsValid
  BY HeededAtFirst
<1>2. LiveTyped /\ Heeded /\ LiveAcceptsValid /\ [LiveNext]_liveVars => (Heeded /\ LiveAcceptsValid)'
  <2> SUFFICES ASSUME LiveTyped, Heeded, LiveAcceptsValid, [LiveNext]_liveVars
               PROVE  Heeded' /\ LiveAcceptsValid'
    OBVIOUS
  <2>1. CASE Observe
    BY <2>1, ObserveHeeds
  <2>2. CASE Settle
    BY <2>2, SettleHeeds
  <2>3. CASE UNCHANGED liveVars
    <3>1. norm' = norm /\ stream' = stream
      BY <2>3 DEF liveVars
    <3>2. Sane(norm)' <=> Sane(norm)
      BY <3>1 DEF Sane
    <3>3. Heard(norm)' = Heard(norm)
      BY <3>1 DEF Heard
    <3> QED BY <2>3, <3>2, <3>3 DEF liveVars, Heeded, LiveAcceptsValid
  <2> QED BY <2>1, <2>2, <2>3 DEF LiveNext
<1> QED BY <1>1, <1>2, LiveSound, PTL DEF LiveSpec

-----------------------------------------------------------------------------
(* A stream of records with tools                                           *)

\* What the ledger says of a call whose last record the reader saw.
Entered(stage) ==
    CASE stage = "absent" -> "unasked" [] stage = "declared" -> "declared"
      [] stage = "started" -> "begun" [] stage = "ended" -> "done" [] stage = "told" -> "told"

\* The calls of the last message are where the ledger has them, the calls of
\* earlier messages are told or their results are owed by the history.
LedgerFollows ==
    /\ \A t \in ToolIds : toolCalls[t] # "absent" =>
          Token(t) \in Tokens \ omittedResults /\ toolLedger[Token(t)] = Entered(toolCalls[t])
    /\ \A k \in Tokens :
          \/ toolLedger[k] \in {"unasked", "told"}
          \/ k \in omittedResults
          \/ k[1] = toolAccount.asked /\ toolCalls[k[2]] # "absent"

\* A history that is owed holds calls that are done, until a segment gave it.
HistoryOwes ==
    \A k \in omittedResults :
        /\ Drains
        /\ k[1] <= toolAccount.asked
        /\ toolLedger[k] = IF dialog.closed \/ dialog.ended THEN "told" ELSE "done"

DialogShape ==
    /\ dialog.open.role # "none" => dialog.turn
    /\ dialog.closed \/ dialog.ended => ~dialog.turn
    /\ dialog.ended => ~dialog.closed
    /\ dialog.closed => Drains
    /\ dialog.open.role = "assistant" => dialog.answer = "none"
    /\ dialog.answer = "none" => CallsAsked = {}
    /\ ~dialog.turn => AllTold
    /\ toolAccount.segments >= 1 => dialog.closed \/ dialog.ended \/ dialog.resumed
    /\ toolAccount.segments > 1 => dialog.resumed

QueueFollows ==
    /\ agentQueue.seen = "idle" => dialog.closed \/ toolAccount.idleSince
    /\ toolAccount.everSeen => agentQueue.seen # "unknown"
    /\ agentQueue.seen # "unknown" => Drains
    /\ \A a \in agentQueue.current : toolAccount.announced \subseteq Members(a.items)
    /\ agentQueue.current = {} => toolAccount.announced = {}
    /\ agentQueue.continued /\ agentQueue.phase # "preparing" => toolAccount.announced = {}

RestartShape ==
    /\ agentQueue.phase = "none" <=> agentQueue.expected = Nothing
    /\ toolAccount.due \subseteq {agentQueue.expected} \ {Nothing}
    /\ agentQueue.phase # "none" =>
          Drains /\ ~dialog.ended /\ agentQueue.seen = "busy"
    /\ agentQueue.phase \in {"preparing", "committing", "agent"} => dialog.closed
    /\ agentQueue.phase \in {"running", "turn", "open", "close"} => ~dialog.closed

ToolInv ==
    StreamTypeOK /\ LedgerFollows /\ HistoryOwes /\ DialogShape /\ QueueFollows /\ RestartShape
    /\ ToolRunIsSettled

LEMMA ItemsArePreviews ==
  ASSUME NEW a \in Snapshots
  PROVE  Members(a.items) \subseteq Previews /\ a.count \in Nat /\ a.active \in Activities
<1>1. a \in [count : Nat, items : Seq(Previews), active : Activities]
  BY StreamAssumption DEF ValidSnapshot
<1>2. a.items \in Seq(Previews)
  BY <1>1
<1> QED BY <1>1, <1>2 DEF Members

LEMMA SegmentCounted ==
  ASSUME NEW a \in AccountType
  PROVE  [a EXCEPT !.segments = IF @ < 2 THEN @ + 1 ELSE @, !.idleSince = FALSE] \in AccountType
<1>1. \A n \in 0..2 : (IF n < 2 THEN n + 1 ELSE n) \in 0..2
  OBVIOUS
<1>2. a.segments \in 0..2
  BY DEF AccountType
<1>3. PICK n \in 0..2 : n = IF a.segments < 2 THEN a.segments + 1 ELSE a.segments
  BY <1>1, <1>2
<1>4. [a EXCEPT !.segments = n, !.idleSince = FALSE] \in AccountType
  BY DEF AccountType
<1> QED BY <1>3, <1>4

LEMMA ToolTypes ==
  StreamTypeOK /\ LedgerFollows /\ [StreamNext]_toolVars => StreamTypeOK'
<1> SUFFICES ASSUME StreamTypeOK, LedgerFollows, [StreamNext]_toolVars PROVE StreamTypeOK'
  OBVIOUS
<1> USE DEF StreamTypeOK
<1>1. CASE \/ ReadyShown \/ Commands \/ SessionState \/ Inventory \/ PromptTaken
  BY <1>1 DEF ReadyShown, Commands, SessionState, Inventory, PromptTaken, Greet, Preliminaries
<1>2. CASE AgentStarts \/ UserEnds \/ CustomEnds \/ TurnEnds
  <2>1. CASE AgentStarts
    BY <2>1, ZenonT(90) DEF AgentStarts, DialogType
  <2>2. CASE TurnEnds
    BY <2>2, ZenonT(90) DEF TurnEnds, DialogType
  <2>3. CASE UserEnds
    <3>1. dialog' \in DialogType
      BY <2>3 DEF UserEnds, NoMessage, DialogType, Roles
    <3> QED BY <2>3, <3>1 DEF UserEnds
  <2>4. CASE CustomEnds
    <3>1. dialog' \in DialogType
      BY <2>4 DEF CustomEnds, NoMessage, DialogType, Roles
    <3> QED BY <2>4, <3>1 DEF CustomEnds
  <2> QED BY <1>2, <2>1, <2>2, <2>3, <2>4
<1>3. CASE TurnStarts
  <2>1. dialog' \in DialogType
    BY <1>3 DEF TurnStarts, Reopened, DialogType
  <2>2. agentQueue' \in QueueType /\ omittedResults' \subseteq Tokens
    BY <1>3 DEF TurnStarts, Reopens, QueueType
  <2> QED BY <1>3, <2>1, <2>2 DEF TurnStarts, NoCalls, CallStages
<1>4. CASE UserStarts \/ CustomStarts \/ AssistantStarts
  <2>1. dialog' \in DialogType
    BY <1>4 DEF UserStarts, CustomStarts, AssistantStarts, Opens, Opened, DialogType, Roles
  <2> QED BY <1>4, <2>1 DEF UserStarts, CustomStarts, AssistantStarts, Opens
<1>5. ASSUME NEW t \in ToolIds, ResultStarts(t) PROVE StreamTypeOK'
  <2>1. dialog' \in DialogType
    BY <1>5 DEF ResultStarts, Opens, DialogType, Roles
  <2> QED BY <1>5, <2>1 DEF ResultStarts, Opens
<1>6. CASE TurnImplied
  <2>1. dialog' \in DialogType
    BY <1>6 DEF TurnImplied, Infers, Opens, Opened, Reopened, DialogType, Roles
  <2>2. agentQueue' \in QueueType /\ omittedResults' \subseteq Tokens
    BY <1>6 DEF TurnImplied, Reopens, QueueType
  <2> QED BY <1>6, <2>1, <2>2 DEF TurnImplied, Infers, Opens, NoCalls, CallStages
<1>7. CASE MarkersImplied
  <2>1. dialog' \in DialogType
    BY <1>7 DEF MarkersImplied, Infers, Opens, Opened, DialogType, Roles
  <2> QED BY <1>7, <2>1 DEF MarkersImplied, Infers, Opens, NoCalls, CallStages
<1>8. ASSUME NEW t \in ToolIds, ResultImplied(t) PROVE StreamTypeOK'
  <2>0. Token(t) \in Tokens
    BY <1>8 DEF ResultImplied, LedgerFollows
  <2>1. dialog' \in DialogType
    BY <1>8 DEF ResultImplied, Infers, Opens, Opened, DialogType, Roles
  <2> QED BY <1>8, <2>0, <2>1 DEF ResultImplied, Infers, Opens, NoCalls, CallStages
<1>9. ASSUME NEW stop \in {"stop", "toolUse"}, NEW asks \in SUBSET ToolIds,
             AssistantEnds(stop, asks)
      PROVE  StreamTypeOK'
  <2>1. dialog' \in DialogType
    BY <1>9 DEF AssistantEnds, NoMessage, DialogType, Roles
  <2>2. toolAccount' \in AccountType
    BY <1>9, StreamAssumption DEF AssistantEnds, AccountType
  <2>3. toolLedger' \in [Tokens -> {"unasked", "declared", "begun", "done", "told", "broken"}]
    BY <1>9 DEF AssistantEnds
  <2>4. toolCalls' \in [ToolIds -> CallStages]
    BY <1>9 DEF AssistantEnds, CallStages
  <2> QED BY <1>9, <2>1, <2>2, <2>3, <2>4 DEF AssistantEnds
<1>10. ASSUME NEW t \in ToolIds, ToolStarts(t) \/ ToolEnds(t) \/ ResultEnds(t)
       PROVE  StreamTypeOK'
  <2>1. dialog' \in DialogType
    BY <1>10 DEF ToolStarts, ToolEnds, ResultEnds, CallMoves, NoMessage, DialogType, Roles
  <2>2. toolLedger' \in [Tokens -> {"unasked", "declared", "begun", "done", "told", "broken"}]
    BY <1>10 DEF ToolStarts, ToolEnds, ResultEnds, Noted
  <2>3. toolCalls' \in [ToolIds -> CallStages]
    BY <1>10 DEF ToolStarts, ToolEnds, ResultEnds, CallMoves, CallStages
  <2> QED BY <1>10, <2>1, <2>2, <2>3 DEF ToolStarts, ToolEnds, ResultEnds, CallMoves
<1>11. ASSUME NEW a \in Snapshots, QueueShown(a) \/ QueueMoves(a) PROVE StreamTypeOK'
  <2>1. Members(a.items) \subseteq Previews
    BY ItemsArePreviews
  <2>2. NextPhase(agentQueue.phase) \in RestartPhases \/ ~QueueMoves(a)
    BY DEF QueueMoves, NextPhase, RestartPhases
  <2>3. agentQueue' \in QueueType
    <3>1. Shows(agentQueue, a) \in QueueType
      BY <2>1 DEF Shows, QueueType
    <3>2. ASSUME NEW q \in QueueType, NEW ph \in RestartPhases
          PROVE  [q EXCEPT !.phase = ph] \in QueueType
      BY DEF QueueType
    <3>3. Shows(agentQueue, a).phase = agentQueue.phase
      BY DEF Shows, QueueType
    <3> QED BY <1>11, <2>2, <3>1, <3>2, <3>3 DEF QueueShown, QueueMoves
  <2>4. toolAccount' \in AccountType
    BY <1>11, <2>1 DEF QueueShown, QueueMoves, Observes, Idle, NothingQueued, AccountType
  <2> QED BY <1>11, <2>3, <2>4 DEF QueueShown, QueueMoves
<1>13. ASSUME NEW c \in Kids, ChildShown(c) PROVE StreamTypeOK'
  <2>1. agentQueue' \in QueueType
    BY <1>13 DEF ChildShown, QueueType
  <2> QED BY <1>13, <2>1 DEF ChildShown
<1>14. CASE AgentRestarts \/ TurnRestarts
  <2>1. dialog' \in DialogType
    <3>1. CASE AgentRestarts
      BY <3>1, ZenonT(90) DEF AgentRestarts, DialogType
    <3>2. CASE TurnRestarts
      BY <3>2 DEF TurnRestarts, DialogType
    <3> QED BY <1>14, <3>1, <3>2
  <2>2. agentQueue' \in QueueType
    BY <1>14 DEF AgentRestarts, TurnRestarts, QueueType, RestartPhases
  <2> QED BY <1>14, <2>1, <2>2 DEF AgentRestarts, TurnRestarts, NoCalls, CallStages
<1>15. ASSUME NEW m \in Deliveries, DeliveryStarts(m) PROVE StreamTypeOK'
  <2>1. dialog' \in DialogType
    BY <1>15 DEF DeliveryStarts, DialogType, Roles
  <2>2. agentQueue' \in QueueType
    BY <1>15 DEF DeliveryStarts, QueueType, RestartPhases
  <2> QED BY <1>15, <2>1, <2>2 DEF DeliveryStarts
<1>16. ASSUME NEW m \in Deliveries
       PROVE  /\ Consumed(agentQueue, m) \in QueueType
              /\ Delivered(toolAccount, m) \in AccountType
  <2>1. m.about \in Previews
    BY StreamAssumption
  <2> QED BY <2>1 DEF Consumed, Delivered, QueueType, AccountType
<1>17. ASSUME NEW m \in Deliveries, DeliveryEnds(m) PROVE StreamTypeOK'
  <2>1. dialog' \in DialogType
    BY <1>17 DEF DeliveryEnds, NoMessage, DialogType, Roles
  <2>2. \A q \in QueueType : [q EXCEPT !.phase = "none", !.expected = Nothing] \in QueueType
    BY DEF QueueType, RestartPhases
  <2> QED BY <1>16, <1>17, <2>1, <2>2 DEF DeliveryEnds
<1>18. CASE RefuseRecord \/ HarnessFails \/ StreamEnds
  BY <1>18 DEF RefuseRecord, HarnessFails, StreamEnds, Judged
<1>19. CASE PlainEnds
  <2>1. dialog' \in DialogType
    BY <1>19 DEF PlainEnds, DialogType
  <2>2. toolAccount' \in AccountType
    BY <1>19, SegmentCounted DEF PlainEnds
  <2> QED BY <1>19, <2>1, <2>2 DEF PlainEnds
<1>20. ASSUME NEW q \in QueueType, NEW a \in AccountType, AnyEnd(q, a)
       PROVE  StreamTypeOK'
  <2>1. ASSUME NEW d \in DialogType, NEW r \in QueueType, NEW b \in AccountType,
               SegmentEnds(d, r, b)
        PROVE  StreamTypeOK'
    <3>1. toolAccount' \in AccountType
      BY <2>1, SegmentCounted DEF SegmentEnds
    <3>2. toolLedger' \in [Tokens -> {"unasked", "declared", "begun", "done", "told", "broken"}]
      BY <2>1 DEF SegmentEnds
    <3> QED BY <2>1, <3>1, <3>2 DEF SegmentEnds
  <2>2. /\ [dialog EXCEPT !.closed = TRUE] \in DialogType
        /\ [dialog EXCEPT !.ended = TRUE] \in DialogType
        /\ [a EXCEPT !.due = @ \cup a.announced] \in AccountType
        /\ [q EXCEPT !.seen = IF @ = "unknown" THEN @ ELSE "busy"] \in QueueType
        /\ \A p \in Announcements :
              [q EXCEPT !.seen = "busy", !.expected = p, !.phase = "preparing",
                        !.continued = TRUE] \in QueueType
    BY DEF DialogType, AccountType, QueueType, RestartPhases
  <2> QED BY <1>20, <2>1, <2>2 DEF AnyEnd, SegmentPauses, RunEnds, RestartPromised
<1>21. CASE PlainHistory
  BY <1>20, <1>21 DEF PlainHistory
<1>22. ASSUME NEW m \in Deliveries, LedHistory(m) PROVE StreamTypeOK'
  BY <1>16, <1>20, <1>22 DEF LedHistory
<1>23. CASE UNCHANGED toolVars
  BY <1>23 DEF toolVars
<1> QED
  BY <1>1, <1>2, <1>3, <1>4, <1>5, <1>6, <1>7, <1>8, <1>9, <1>10, <1>11, <1>13, <1>14,
     <1>15, <1>17, <1>18, <1>19, <1>21, <1>22, <1>23 DEF StreamNext

LEMMA ContractStays == [StreamNext]_toolVars => UNCHANGED contract
<1> SUFFICES ASSUME [StreamNext]_toolVars PROVE UNCHANGED contract
  OBVIOUS
<1>1. \A q, a : AnyEnd(q, a) => UNCHANGED contract
  BY DEF AnyEnd, SegmentPauses, RunEnds, RestartPromised, SegmentEnds
<1>2. CASE \/ ReadyShown \/ Commands \/ SessionState \/ Inventory \/ PromptTaken
           \/ AgentStarts \/ TurnStarts \/ TurnEnds \/ PlainEnds
           \/ UserStarts \/ UserEnds \/ CustomStarts \/ CustomEnds
           \/ AssistantStarts \/ TurnImplied \/ MarkersImplied
  BY <1>2 DEF ReadyShown, Commands, SessionState, Inventory, PromptTaken, Greet, AgentStarts,
     TurnStarts, TurnEnds, PlainEnds, UserStarts, UserEnds, CustomStarts, CustomEnds,
     AssistantStarts, TurnImplied, MarkersImplied, Infers, Opens
<1>3. ASSUME NEW stop, NEW asks, AssistantEnds(stop, asks) PROVE UNCHANGED contract
  BY <1>3 DEF AssistantEnds
<1>4. ASSUME NEW t, \/ ToolStarts(t) \/ ToolEnds(t) \/ ResultStarts(t) \/ ResultEnds(t)
                    \/ ResultImplied(t)
      PROVE  UNCHANGED contract
  BY <1>4 DEF ToolStarts, ToolEnds, ResultStarts, ResultEnds, ResultImplied, CallMoves, Infers,
     Opens
<1>5. ASSUME NEW a, QueueShown(a) \/ QueueMoves(a) \/ ChildShown(a) PROVE UNCHANGED contract
  BY <1>5 DEF QueueShown, QueueMoves, ChildShown
<1>6. ASSUME NEW m, DeliveryStarts(m) \/ DeliveryEnds(m) \/ LedHistory(m)
      PROVE  UNCHANGED contract
  BY <1>1, <1>6 DEF DeliveryStarts, DeliveryEnds, LedHistory
<1>7. CASE \/ AgentRestarts \/ TurnRestarts \/ RefuseRecord \/ HarnessFails \/ StreamEnds
           \/ PlainHistory \/ UNCHANGED toolVars
  BY <1>1, <1>7 DEF AgentRestarts, TurnRestarts, RefuseRecord, HarnessFails, StreamEnds, Judged,
     PlainHistory, toolVars
<1> QED BY <1>2, <1>3, <1>4, <1>5, <1>6, <1>7 DEF StreamNext

LEMMA DialogStep ==
  ASSUME ToolInv, [StreamNext]_toolVars
  PROVE  DialogShape'
<1> USE DEF ToolInv, StreamTypeOK, DialogShape, DialogType, CallsAsked, AllTold, Drains
<1>1. CASE \/ ReadyShown \/ Commands \/ SessionState \/ Inventory \/ PromptTaken
           \/ RefuseRecord \/ HarnessFails \/ StreamEnds \/ UNCHANGED toolVars
  BY <1>1 DEF ReadyShown, Commands, SessionState, Inventory, PromptTaken, Greet, RefuseRecord,
     HarnessFails, StreamEnds, Judged, toolVars
<1>2. CASE AgentStarts
  BY <1>2 DEF AgentStarts, Admits
<1>3. CASE UserEnds
  BY <1>3 DEF UserEnds, NoMessage
<1>4. CASE CustomEnds
  BY <1>4 DEF CustomEnds, NoMessage
<1>5. CASE TurnEnds
  BY <1>5 DEF TurnEnds, InTurn, Quiet
<1>6. CASE TurnStarts
  BY <1>6 DEF TurnStarts, Reopened, Quiet, NoCalls, Admits
<1>7. CASE UserStarts \/ CustomStarts \/ AssistantStarts
  BY <1>7 DEF UserStarts, CustomStarts, AssistantStarts, Opens, Opened, InTurn, Quiet
<1>8. ASSUME NEW t \in ToolIds, ResultStarts(t) PROVE DialogShape'
  BY <1>8 DEF ResultStarts, Opens, InTurn, Quiet
<1>9. CASE TurnImplied
  BY <1>9 DEF TurnImplied, Infers, Opens, Opened, Reopened, NoCalls, Admits
<1>10. CASE MarkersImplied
  BY <1>10 DEF MarkersImplied, Infers, Opens, Opened, NoCalls, Admits, InTurn
<1>11. ASSUME NEW t \in ToolIds, ResultImplied(t) PROVE DialogShape'
  BY <1>11 DEF ResultImplied, Infers, Opens, Opened, NoCalls, Admits
<1>12. ASSUME NEW stop \in {"stop", "toolUse"}, NEW asks \in SUBSET ToolIds,
              AssistantEnds(stop, asks)
       PROVE  DialogShape'
  BY <1>12 DEF AssistantEnds, NoMessage, AccountType
<1>13. ASSUME NEW t \in ToolIds, ToolStarts(t) \/ ToolEnds(t) PROVE DialogShape'
  BY <1>13 DEF ToolStarts, ToolEnds, CallMoves, InTurn, Quiet
<1>14. ASSUME NEW t \in ToolIds, ResultEnds(t) PROVE DialogShape'
  BY <1>14 DEF ResultEnds, CallMoves, NoMessage
<1>15. ASSUME NEW a \in Snapshots, QueueShown(a) \/ QueueMoves(a) PROVE DialogShape'
  <2>1. toolAccount'.segments = toolAccount.segments
    BY <1>15 DEF QueueShown, QueueMoves, Observes, AccountType
  <2>2. UNCHANGED <<contract, dialog, toolCalls>>
    BY <1>15 DEF QueueShown, QueueMoves
  <2> QED BY <2>1, <2>2
<1>16. ASSUME NEW c \in Kids, ChildShown(c) PROVE DialogShape'
  BY <1>16 DEF ChildShown
<1>17. CASE AgentRestarts
  BY <1>17 DEF AgentRestarts, NoCalls, Quiet
<1>18. CASE TurnRestarts
  BY <1>18 DEF TurnRestarts, RestartShape, Pending, Quiet
<1>19. ASSUME NEW m \in Deliveries, DeliveryStarts(m) PROVE DialogShape'
  BY <1>19 DEF DeliveryStarts, InTurn
<1>20. ASSUME NEW m \in Deliveries, DeliveryEnds(m) PROVE DialogShape'
  BY <1>20 DEF DeliveryEnds, NoMessage, Delivered, AccountType
<1>21. CASE PlainEnds
  <2>1. toolAccount'.segments > 1 => toolAccount.segments >= 1
    BY <1>21 DEF PlainEnds, AccountType
  <2>2. dialog' = [dialog EXCEPT !.ended = TRUE] /\ UNCHANGED toolCalls
    BY <1>21 DEF PlainEnds
  <2>3. ~dialog.turn /\ dialog.open.role = "none" /\ ~dialog.ended
    BY <1>21 DEF PlainEnds, Rests, Quiet, Admits
  <2>4. dialog.closed = FALSE
    BY <1>21 DEF PlainEnds
  <2> QED BY <2>1, <2>2, <2>3, <2>4
<1>22. ASSUME NEW q, NEW a \in AccountType, a.segments = toolAccount.segments, AnyEnd(q, a)
       PROVE  DialogShape'
  <2>0. a.segments = toolAccount.segments
    BY <1>22
  <2>1. ASSUME NEW d \in DialogType, NEW r, NEW b \in AccountType,
               b.segments = toolAccount.segments, SegmentEnds(d, r, b),
               \/ d = [dialog EXCEPT !.closed = TRUE] \/ d = [dialog EXCEPT !.ended = TRUE]
        PROVE  DialogShape'
    <3>1. toolAccount'.segments > 1 => toolAccount.segments >= 1
      BY <2>1 DEF SegmentEnds, AccountType
    <3> QED BY <2>1, <3>1 DEF SegmentEnds, Rests, Quiet, Admits
  <2>2. [a EXCEPT !.due = @ \cup a.announced] \in AccountType
    BY DEF AccountType
  <2>3. [a EXCEPT !.due = @ \cup a.announced].segments = a.segments
    BY DEF AccountType
  <2>4. /\ [dialog EXCEPT !.closed = TRUE] \in DialogType
        /\ [dialog EXCEPT !.ended = TRUE] \in DialogType
    OBVIOUS
  <2>5. CASE SegmentPauses(q, a)
    BY <1>22, <2>1, <2>4, <2>5 DEF SegmentPauses
  <2>6. CASE RunEnds(q, a)
    <3>1. SegmentEnds([dialog EXCEPT !.ended = TRUE],
                      [q EXCEPT !.seen = IF @ = "unknown" THEN @ ELSE "busy"],
                      [a EXCEPT !.due = @ \cup a.announced])
      BY <2>6 DEF RunEnds
    <3> HIDE DEF ToolInv, StreamTypeOK, DialogShape, DialogType
    <3> QED BY <3>1, <2>0, <2>1, <2>2, <2>3, <2>4
  <2>7. ASSUME NEW p \in Announcements, RestartPromised(q, a, p) PROVE DialogShape'
    <3>1. SegmentEnds([dialog EXCEPT !.closed = TRUE],
                      [q EXCEPT !.seen = "busy", !.expected = p, !.phase = "preparing",
                                !.continued = TRUE],
                      [a EXCEPT !.due = @ \cup a.announced])
      BY <2>7 DEF RestartPromised
    <3> HIDE DEF ToolInv, StreamTypeOK, DialogShape, DialogType
    <3> QED BY <3>1, <2>0, <2>1, <2>2, <2>3, <2>4
  <2> QED BY <1>22, <2>5, <2>6, <2>7 DEF AnyEnd
<1>23. CASE PlainHistory
  BY <1>22, <1>23 DEF PlainHistory
<1>24. ASSUME NEW m \in Deliveries, LedHistory(m) PROVE DialogShape'
  <2>1. /\ Delivered(toolAccount, m) \in AccountType
        /\ Delivered(toolAccount, m).segments = toolAccount.segments
    BY DEF Delivered, AccountType
  <2> QED BY <1>22, <1>24, <2>1 DEF LedHistory
<1> QED
  BY <1>1, <1>2, <1>3, <1>4, <1>5, <1>6, <1>7, <1>8, <1>9, <1>10, <1>11, <1>12, <1>13, <1>14,
     <1>15, <1>16, <1>17, <1>18, <1>19, <1>20, <1>21, <1>23, <1>24 DEF StreamNext

\* A message of a child takes its announcement out of what is owed.
LEMMA ConsumedFollows ==
  ASSUME StreamTypeOK, QueueFollows, NEW m \in Deliveries
  PROVE  LET q == Consumed(agentQueue, m)
             a == Delivered(toolAccount, m)
         IN  /\ q \in QueueType /\ a \in AccountType
             /\ q.seen = agentQueue.seen /\ q.continued = agentQueue.continued
             /\ q.phase = agentQueue.phase /\ q.expected = agentQueue.expected
             /\ a.idleSince = toolAccount.idleSince /\ a.everSeen = toolAccount.everSeen
             /\ a.segments = toolAccount.segments /\ a.asked = toolAccount.asked
             /\ a.announced \subseteq toolAccount.announced
             /\ a.due = toolAccount.due \ {m.about}
             /\ \A b \in q.current : a.announced \subseteq Members(b.items)
             /\ q.current = {} => a.announced = {}
<1> USE DEF StreamTypeOK, QueueFollows
<1> DEFINE q == Consumed(agentQueue, m)
           a == Delivered(toolAccount, m)
<1>1. m.about \in Previews
  BY StreamAssumption
<1>2. q \in QueueType /\ a \in AccountType
  BY <1>1, ZenonT(90) DEF Consumed, Delivered, QueueType, AccountType
<1>3. /\ q.seen = agentQueue.seen /\ q.continued = agentQueue.continued
      /\ q.phase = agentQueue.phase /\ q.expected = agentQueue.expected
      /\ q.current = {b \in agentQueue.current : ~HoldsOnly(b, m.about)}
  BY DEF Consumed, QueueType
<1>4. /\ a.idleSince = toolAccount.idleSince /\ a.everSeen = toolAccount.everSeen
      /\ a.segments = toolAccount.segments /\ a.asked = toolAccount.asked
      /\ a.announced = toolAccount.announced \ {m.about}
      /\ a.due = toolAccount.due \ {m.about}
  BY DEF Delivered, AccountType
<1>5. \A b : HoldsOnly(b, m.about) => Members(b.items) = {m.about}
  BY DEF HoldsOnly, Members
<1>6. q.current = {} => a.announced = {}
  BY <1>3, <1>4, <1>5
<1> QED BY <1>2, <1>3, <1>4, <1>6

LEMMA QueueStep ==
  ASSUME ToolInv, [StreamNext]_toolVars
  PROVE  QueueFollows' /\ RestartShape'
<1> USE DEF ToolInv, StreamTypeOK, QueueFollows, RestartShape, Drains
<1>1. ASSUME UNCHANGED <<contract, agentQueue, toolAccount>>,
             dialog'.closed = dialog.closed, dialog'.ended = dialog.ended
      PROVE  QueueFollows' /\ RestartShape'
  BY <1>1
<1>2. CASE \/ ReadyShown \/ Commands \/ SessionState \/ Inventory \/ PromptTaken
           \/ RefuseRecord \/ HarnessFails \/ StreamEnds \/ UNCHANGED toolVars
  BY <1>1, <1>2 DEF ReadyShown, Commands, SessionState, Inventory, PromptTaken, Greet,
     RefuseRecord, HarnessFails, StreamEnds, Judged, toolVars
<1>3. CASE AgentStarts \/ UserEnds \/ CustomEnds \/ TurnEnds
  BY <1>1, <1>3, ZenonT(90) DEF AgentStarts, UserEnds, CustomEnds, TurnEnds, DialogType
<1>4. CASE UserStarts \/ CustomStarts \/ AssistantStarts \/ MarkersImplied
  BY <1>1, <1>4, ZenonT(90)
     DEF UserStarts, CustomStarts, AssistantStarts, MarkersImplied, Infers, Opens,
     DialogType
<1>5. ASSUME NEW t \in ToolIds,
             ResultStarts(t) \/ ResultImplied(t) \/ ToolStarts(t) \/ ToolEnds(t) \/ ResultEnds(t)
      PROVE  QueueFollows' /\ RestartShape'
  <2>1. UNCHANGED <<contract, agentQueue, toolAccount>>
    BY <1>5 DEF ResultStarts, ResultImplied, Infers, Opens, ToolStarts, ToolEnds, ResultEnds,
       CallMoves
  <2>2. CASE ResultStarts(t) \/ ResultImplied(t)
    BY <1>1, <2>1, <2>2, ZenonT(90) DEF ResultStarts, ResultImplied, Infers, Opens, DialogType
  <2>3. CASE ToolStarts(t) \/ ToolEnds(t)
    BY <1>1, <2>1, <2>3 DEF ToolStarts, ToolEnds
  <2>4. CASE ResultEnds(t)
    BY <1>1, <2>1, <2>4 DEF ResultEnds, DialogType
  <2> QED BY <1>5, <2>2, <2>3, <2>4
<1>6. CASE TurnStarts \/ TurnImplied
  <2>1. /\ dialog'.closed = FALSE /\ dialog'.ended = dialog.ended
        /\ UNCHANGED <<contract, toolAccount>>
        /\ agentQueue.phase = "none"
    BY <1>6 DEF TurnStarts, TurnImplied, Infers, Opens, Reopened, DialogType, Admits
  <2>2. CASE dialog.closed
    <3>1. agentQueue' = [agentQueue EXCEPT !.seen = "busy"]
      BY <1>6, <2>2 DEF TurnStarts, TurnImplied, Reopens
    <3>2. Drains
      BY <2>2 DEF DialogShape
    <3> QED BY <2>1, <3>1, <3>2 DEF QueueType
  <2>3. CASE ~dialog.closed
    <3>1. UNCHANGED agentQueue
      BY <1>6, <2>3 DEF TurnStarts, TurnImplied, Reopens
    <3> QED BY <1>1, <2>1, <2>3, <3>1 DEF DialogType
  <2> QED BY <2>2, <2>3
<1>7. ASSUME NEW stop, NEW asks, AssistantEnds(stop, asks)
      PROVE  QueueFollows' /\ RestartShape'
  <2>1. /\ UNCHANGED <<contract, agentQueue>>
        /\ dialog'.closed = dialog.closed /\ dialog'.ended = dialog.ended
    BY <1>7 DEF AssistantEnds, DialogType
  <2>2. /\ toolAccount'.idleSince = toolAccount.idleSince
        /\ toolAccount'.everSeen = toolAccount.everSeen
        /\ toolAccount'.announced = toolAccount.announced /\ toolAccount'.due = toolAccount.due
    BY <1>7 DEF AssistantEnds, AccountType
  <2> QED BY <2>1, <2>2
<1>8. ASSUME NEW a \in Snapshots, QueueShown(a) \/ QueueMoves(a)
      PROVE  QueueFollows' /\ RestartShape'
  <2>1. UNCHANGED <<contract, dialog>>
    BY <1>8 DEF QueueShown, QueueMoves
  <2>2. /\ toolAccount'.announced = Members(a.items) /\ toolAccount'.due = toolAccount.due
        /\ toolAccount'.everSeen = TRUE /\ toolAccount'.idleSince = Idle(a)
    BY <1>8 DEF QueueShown, QueueMoves, Observes, AccountType
  <2>3. /\ agentQueue'.current = {a} /\ agentQueue'.continued = agentQueue.continued
        /\ agentQueue'.seen = IF Idle(a) THEN "idle" ELSE "busy"
        /\ agentQueue'.expected = agentQueue.expected
    BY <1>8 DEF QueueShown, QueueMoves, Shows, QueueType
  <2>4. NothingQueued(a) => Members(a.items) = {}
    BY DEF NothingQueued, Members
  <2>5. CASE QueueShown(a)
    <3>1. agentQueue'.phase = agentQueue.phase /\ agentQueue.phase = "none"
      BY <2>5 DEF QueueShown, Shows, QueueType
    <3>2. (agentQueue.continued => NothingQueued(a)) /\ Drains
      BY <2>5 DEF QueueShown
    <3> QED BY <2>1, <2>2, <2>3, <2>4, <3>1, <3>2
  <2>6. CASE QueueMoves(a)
    <3>1. /\ agentQueue.phase \in {"preparing", "committing", "running"}
          /\ agentQueue'.phase = NextPhase(agentQueue.phase)
      BY <2>6 DEF QueueMoves, Shows, QueueType
    <3>2. NothingQueued(a) /\ ~Idle(a)
      BY <2>6 DEF QueueMoves, Pending, Idle
    <3> QED BY <2>1, <2>2, <2>3, <2>4, <3>1, <3>2 DEF NextPhase
  <2> QED BY <1>8, <2>5, <2>6
<1>9. ASSUME NEW c \in Kids, ChildShown(c) PROVE QueueFollows' /\ RestartShape'
  BY <1>9 DEF ChildShown, QueueType
<1>10. CASE AgentRestarts
  <2>1. /\ dialog'.closed = FALSE /\ dialog'.ended = dialog.ended
        /\ UNCHANGED <<contract, toolAccount>>
        /\ agentQueue' = [agentQueue EXCEPT !.phase = "running"] /\ agentQueue.phase = "agent"
    BY <1>10 DEF AgentRestarts, Pending, DialogType
  <2> QED BY <2>1 DEF QueueType
<1>11. CASE TurnRestarts
  <2>1. /\ dialog'.closed = dialog.closed /\ dialog'.ended = dialog.ended
        /\ UNCHANGED <<contract, toolAccount>>
        /\ agentQueue' = [agentQueue EXCEPT !.phase = "open"] /\ agentQueue.phase = "turn"
    BY <1>11 DEF TurnRestarts, Pending, DialogType
  <2> QED BY <2>1 DEF QueueType
<1>12. ASSUME NEW m \in Deliveries, DeliveryStarts(m) PROVE QueueFollows' /\ RestartShape'
  <2>1. /\ dialog'.closed = dialog.closed /\ dialog'.ended = dialog.ended
        /\ UNCHANGED <<contract, toolAccount>>
        /\ agentQueue' = [agentQueue EXCEPT !.phase = "close"] /\ agentQueue.phase = "open"
    BY <1>12 DEF DeliveryStarts, Pending, DialogType
  <2> QED BY <2>1 DEF QueueType
<1>13. ASSUME NEW m \in Deliveries, DeliveryEnds(m) PROVE QueueFollows' /\ RestartShape'
  <2> DEFINE q == Consumed(agentQueue, m)
  <2>1. /\ dialog'.closed = dialog.closed /\ dialog'.ended = dialog.ended
        /\ UNCHANGED contract /\ toolAccount' = Delivered(toolAccount, m)
        /\ agentQueue' = [q EXCEPT !.phase = "none", !.expected = Nothing]
        /\ agentQueue.phase = "close" /\ m.about = agentQueue.expected
    BY <1>13 DEF DeliveryEnds, Pending, DialogType
  <2>2. /\ q \in QueueType
        /\ q.seen = agentQueue.seen /\ q.continued = agentQueue.continued
        /\ \A b \in q.current : toolAccount'.announced \subseteq Members(b.items)
        /\ q.current = {} => toolAccount'.announced = {}
        /\ toolAccount'.announced \subseteq toolAccount.announced
        /\ toolAccount'.due = toolAccount.due \ {m.about}
        /\ toolAccount'.everSeen = toolAccount.everSeen
    BY <2>1, ConsumedFollows
  <2>3. /\ agentQueue'.seen = agentQueue.seen /\ agentQueue'.continued = agentQueue.continued
        /\ agentQueue'.phase = "none" /\ agentQueue'.expected = Nothing
        /\ agentQueue'.current = q.current
    BY <2>1, <2>2 DEF QueueType
  <2> QED BY <2>1, <2>2, <2>3
<1>14. CASE PlainEnds
  <2>1. UNCHANGED <<contract, agentQueue>> /\ contract # "drain"
    BY <1>14 DEF PlainEnds
  <2>2. agentQueue.phase = "none"
    BY <2>1
  <2>3. /\ toolAccount'.everSeen = toolAccount.everSeen
        /\ toolAccount'.announced = toolAccount.announced /\ toolAccount'.due = toolAccount.due
    BY <1>14 DEF PlainEnds, AccountType
  <2>4. agentQueue.seen = "unknown"
    BY <2>1 DEF QueueType
  <2> QED BY <2>1, <2>2, <2>3, <2>4
<1> DEFINE Same(q, a) ==
             /\ q \in QueueType /\ a \in AccountType
             /\ q.seen = agentQueue.seen /\ q.continued = agentQueue.continued
             /\ q.phase = agentQueue.phase /\ q.expected = agentQueue.expected
             /\ a.everSeen = toolAccount.everSeen
             /\ a.announced \subseteq toolAccount.announced
             /\ a.due \subseteq toolAccount.due
             /\ \A b \in q.current : a.announced \subseteq Members(b.items)
             /\ q.current = {} => a.announced = {}
<1>15. ASSUME NEW q, NEW a, Same(q, a), AnyEnd(q, a)
       PROVE  QueueFollows' /\ RestartShape'
  <2>1. q.phase = "none" /\ q.expected = Nothing /\ a.due = {} /\ Drains
    BY <1>15 DEF AnyEnd, SegmentPauses, RunEnds, RestartPromised, SegmentEnds, Admits
  <2>2. CASE SegmentPauses(q, a)
    <3>1. /\ dialog'.closed = TRUE /\ dialog'.ended = dialog.ended /\ UNCHANGED contract
          /\ agentQueue' = q /\ dialog.ended = FALSE
      BY <2>2 DEF SegmentPauses, SegmentEnds, Admits, DialogType
    <3>2. /\ toolAccount'.everSeen = a.everSeen
          /\ toolAccount'.announced = a.announced /\ toolAccount'.due = a.due
      BY <1>15, <2>2 DEF SegmentPauses, SegmentEnds, AccountType
    <3> QED BY <1>15, <2>1, <3>1, <3>2
  <2>3. CASE RunEnds(q, a)
    <3>1. a.announced = {}
      <4>1. q.continued => a.announced = {}
        BY <1>15, <2>1
      <4>2. \A b : NothingQueued(b) => Members(b.items) = {}
        BY DEF NothingQueued, Members
      <4> QED BY <1>15, <2>3, <4>1, <4>2 DEF RunEnds, PromisesNothing
    <3>2. /\ dialog'.ended = TRUE /\ dialog'.closed = FALSE /\ UNCHANGED contract
          /\ agentQueue' = [q EXCEPT !.seen = IF @ = "unknown" THEN @ ELSE "busy"]
      BY <2>3 DEF RunEnds, SegmentEnds, DialogType
    <3>3. /\ toolAccount'.everSeen = a.everSeen
          /\ toolAccount'.announced = a.announced
          /\ toolAccount'.due = a.due \cup a.announced
      BY <1>15, <2>3 DEF RunEnds, SegmentEnds, AccountType
    <3>4. /\ agentQueue'.seen # "idle" /\ (q.seen # "unknown" => agentQueue'.seen # "unknown")
          /\ agentQueue'.phase = q.phase /\ agentQueue'.expected = q.expected
          /\ agentQueue'.current = q.current
      BY <1>15, <3>2 DEF QueueType
    <3> QED BY <1>15, <2>1, <3>1, <3>2, <3>3, <3>4
  <2>4. ASSUME NEW p \in Announcements, RestartPromised(q, a, p)
        PROVE  QueueFollows' /\ RestartShape'
    <3>1. a.announced \subseteq {p}
      <4>1. \A b : HoldsOnly(b, p) => Members(b.items) = {p}
        BY DEF HoldsOnly, Members
      <4> QED BY <1>15, <2>4, <4>1 DEF RestartPromised, PromisesOne
    <3>2. /\ dialog'.closed = TRUE /\ dialog'.ended = FALSE /\ UNCHANGED contract
          /\ agentQueue' = [q EXCEPT !.seen = "busy", !.expected = p, !.phase = "preparing",
                                     !.continued = TRUE]
      BY <2>4 DEF RestartPromised, SegmentEnds, Admits, DialogType
    <3>3. /\ toolAccount'.everSeen = a.everSeen
          /\ toolAccount'.announced = a.announced
          /\ toolAccount'.due = a.due \cup a.announced
      BY <1>15, <2>4 DEF RestartPromised, SegmentEnds, AccountType
    <3>4. /\ agentQueue'.seen = "busy" /\ agentQueue'.phase = "preparing"
          /\ agentQueue'.expected = p /\ agentQueue'.current = q.current
      BY <1>15, <3>2 DEF QueueType
    <3>5. p # Nothing
      BY StreamAssumption
    <3> QED BY <1>15, <2>1, <3>1, <3>2, <3>3, <3>4, <3>5
  <2> QED BY <1>15, <2>2, <2>3, <2>4 DEF AnyEnd
<1>16. CASE PlainHistory
  <2>1. Same(agentQueue, toolAccount)
    OBVIOUS
  <2> QED BY <1>15, <1>16, <2>1 DEF PlainHistory
<1>17. ASSUME NEW m \in Deliveries, LedHistory(m) PROVE QueueFollows' /\ RestartShape'
  <2>1. Same(Consumed(agentQueue, m), Delivered(toolAccount, m))
    BY ConsumedFollows
  <2> QED BY <1>15, <1>17, <2>1 DEF LedHistory
<1> QED
  BY <1>2, <1>3, <1>4, <1>5, <1>6, <1>7, <1>8, <1>9, <1>10, <1>11, <1>12, <1>13, <1>14, <1>16,
     <1>17 DEF StreamNext

\* A ledger that moves one call of the last message on, with the reader.
LEMMA CallStep ==
  ASSUME ToolInv, NEW t \in ToolIds, NEW from, NEW to, CallMoves(t, from, to), ~dialog.closed,
         ~dialog.ended, from # "absent", from \in CallStages, to \in CallStages, to # "absent",
         toolLedger' = Noted(t, Entered(from), Entered(to)),
         dialog'.closed = dialog.closed, dialog'.ended = dialog.ended
  PROVE  LedgerFollows' /\ HistoryOwes'
<1> USE DEF ToolInv, StreamTypeOK, LedgerFollows, HistoryOwes
<1>1. /\ toolCalls[t] = from /\ toolCalls' = [toolCalls EXCEPT ![t] = to]
      /\ UNCHANGED <<omittedResults, toolAccount>> /\ Drains' = Drains
  BY DEF CallMoves, Drains
<1>2. /\ Token(t) \in Tokens /\ Token(t) \notin omittedResults
      /\ toolLedger[Token(t)] = Entered(from)
  BY <1>1
<1>3. toolLedger' = [toolLedger EXCEPT ![Token(t)] = Entered(to)]
  BY <1>2 DEF Noted
<1>4. \A u \in ToolIds : Token(u)' = Token(u) /\ (u # t => Token(u) # Token(t))
  BY <1>1 DEF Token
<1>5. /\ \A u \in ToolIds : toolCalls'[u] = IF u = t THEN to ELSE toolCalls[u]
      /\ \A k \in Tokens : toolLedger'[k] = IF k = Token(t) THEN Entered(to) ELSE toolLedger[k]
      /\ Token(t)[1] = toolAccount.asked /\ Token(t)[2] = t
      /\ \A k \in Tokens : k[2] \in ToolIds
  BY <1>1, <1>2, <1>3 DEF Token, Tokens
<1>6. \A u \in ToolIds : toolCalls'[u] # "absent" =>
          /\ Token(u)' \in Tokens \ omittedResults'
          /\ toolLedger'[Token(u)'] = Entered(toolCalls'[u])
  BY <1>1, <1>2, <1>4, <1>5
<1>7. \A k \in Tokens :
          \/ toolLedger'[k] \in {"unasked", "told"}
          \/ k \in omittedResults'
          \/ k[1] = toolAccount'.asked /\ toolCalls'[k[2]] # "absent"
  BY <1>1, <1>2, <1>5
<1>8. \A k \in omittedResults' :
        /\ Drains'
        /\ k[1] <= toolAccount'.asked
        /\ toolLedger'[k] = IF dialog'.closed \/ dialog'.ended THEN "told" ELSE "done"
  BY <1>1, <1>2, <1>5
<1> QED BY <1>6, <1>7, <1>8

LEMMA LedgerStep ==
  ASSUME ToolInv, [StreamNext]_toolVars
  PROVE  LedgerFollows' /\ HistoryOwes'
<1> USE DEF ToolInv, StreamTypeOK, LedgerFollows, HistoryOwes
<1>0. Drains' = Drains
  BY ContractStays DEF Drains
<1>1. ASSUME UNCHANGED <<toolCalls, omittedResults, toolLedger>>,
             toolAccount'.asked = toolAccount.asked,
             dialog'.closed \/ dialog'.ended <=> dialog.closed \/ dialog.ended
      PROVE  LedgerFollows' /\ HistoryOwes'
  BY <1>0, <1>1 DEF Token
<1>2. CASE \/ ReadyShown \/ Commands \/ SessionState \/ Inventory \/ PromptTaken
           \/ RefuseRecord \/ HarnessFails \/ StreamEnds \/ UNCHANGED toolVars
  BY <1>1, <1>2 DEF ReadyShown, Commands, SessionState, Inventory, PromptTaken, Greet,
     RefuseRecord, HarnessFails, StreamEnds, Judged, toolVars
<1>3. CASE AgentStarts \/ UserEnds \/ CustomEnds \/ TurnEnds \/ TurnRestarts
  BY <1>1, <1>3, ZenonT(90) DEF AgentStarts, UserEnds, CustomEnds, TurnEnds, TurnRestarts, DialogType
<1>4. CASE UserStarts \/ CustomStarts \/ AssistantStarts
  BY <1>1, <1>4 DEF UserStarts, CustomStarts, AssistantStarts, Opens, DialogType
<1>5. ASSUME NEW t \in ToolIds, ResultStarts(t) PROVE LedgerFollows' /\ HistoryOwes'
  BY <1>1, <1>5 DEF ResultStarts, Opens, DialogType
<1>6. ASSUME NEW a \in Snapshots, QueueShown(a) \/ QueueMoves(a)
      PROVE  LedgerFollows' /\ HistoryOwes'
  <2>1. toolAccount'.asked = toolAccount.asked
    BY <1>6 DEF QueueShown, QueueMoves, Observes, AccountType
  <2> QED BY <1>1, <1>6, <2>1 DEF QueueShown, QueueMoves
<1>7. ASSUME NEW c \in Kids, ChildShown(c) PROVE LedgerFollows' /\ HistoryOwes'
  BY <1>1, <1>7 DEF ChildShown
<1>8. ASSUME NEW m \in Deliveries, DeliveryStarts(m) \/ DeliveryEnds(m)
      PROVE  LedgerFollows' /\ HistoryOwes'
  <2>1. toolAccount'.asked = toolAccount.asked
    BY <1>8 DEF DeliveryStarts, DeliveryEnds, Delivered, AccountType
  <2>2. dialog'.closed = dialog.closed /\ dialog'.ended = dialog.ended
    BY <1>8 DEF DeliveryStarts, DeliveryEnds, DialogType
  <2> QED BY <1>1, <1>8, <2>1, <2>2 DEF DeliveryStarts, DeliveryEnds
\* The calls of the last message are forgotten: they were told.
<1>9. ASSUME AllTold, toolCalls' = NoCalls, UNCHANGED toolLedger,
             toolAccount'.asked = toolAccount.asked,
             \/ /\ UNCHANGED omittedResults
                /\ dialog'.closed \/ dialog'.ended <=> dialog.closed \/ dialog.ended
             \/ omittedResults' = {} /\ dialog.closed
      PROVE  LedgerFollows' /\ HistoryOwes'
  <2>1. \A t \in ToolIds : toolCalls[t] # "absent" => toolLedger[Token(t)] = "told"
    BY <1>9 DEF AllTold, CallsAsked, Entered
  <2>2. \A k \in Tokens : toolLedger[k] \in {"unasked", "told"} \/ k \in omittedResults
    <3>1. \A k \in Tokens : k[1] = toolAccount.asked => k = Token(k[2]) /\ k[2] \in ToolIds
      BY DEF Token, Tokens
    <3> QED BY <2>1, <3>1
  <2>3. \A k \in omittedResults : dialog.closed => toolLedger[k] = "told"
    OBVIOUS
  <2>4. \A t \in ToolIds : toolCalls'[t] = "absent"
    BY <1>9 DEF NoCalls
  <2> QED BY <1>0, <1>9, <2>2, <2>3, <2>4 DEF Token
<1>10. CASE TurnStarts \/ TurnImplied
  <2>1. /\ ~dialog.turn /\ ~dialog.ended
        /\ toolCalls' = NoCalls /\ UNCHANGED <<toolLedger, toolAccount>>
    BY <1>10 DEF TurnStarts, TurnImplied, Infers, Opens, Admits
  <2>2. /\ omittedResults' = IF dialog.closed THEN {} ELSE omittedResults
        /\ dialog'.closed = FALSE /\ dialog'.ended = dialog.ended
    BY <1>10 DEF TurnStarts, TurnImplied, Infers, Opens, Reopens, Reopened, DialogType
  <2>3. AllTold
    BY <2>1 DEF DialogShape
  <2> QED BY <1>9, <2>1, <2>2, <2>3 DEF DialogType
<1>11. CASE MarkersImplied
  <2>1. /\ AllTold /\ toolCalls' = NoCalls /\ UNCHANGED <<toolLedger, toolAccount, omittedResults>>
        /\ dialog'.closed = dialog.closed /\ dialog'.ended = dialog.ended
    BY <1>11 DEF MarkersImplied, Infers, Opens, DialogType
  <2> QED BY <1>9, <2>1
<1>12. CASE AgentRestarts
  <2>1. /\ ~dialog.turn /\ dialog.closed
        /\ toolCalls' = NoCalls /\ UNCHANGED <<toolLedger, toolAccount>> /\ omittedResults' = {}
    BY <1>12 DEF AgentRestarts, Pending, RestartShape
  <2>2. AllTold
    BY <2>1 DEF DialogShape
  <2> QED BY <1>9, <2>1, <2>2
<1>13. ASSUME NEW t \in ToolIds, ResultImplied(t) PROVE LedgerFollows' /\ HistoryOwes'
  <2>1. /\ dialog.turn /\ toolCalls' = NoCalls /\ UNCHANGED <<toolLedger, toolAccount>>
        /\ omittedResults' = omittedResults \cup {Token(t)}
        /\ dialog'.closed = dialog.closed /\ dialog'.ended = dialog.ended
        /\ CallsAsked = {t} /\ toolCalls[t] = "ended"
    BY <1>13 DEF ResultImplied, Infers, Opens, DialogType
  <2>2. ~dialog.closed /\ ~dialog.ended
    BY <2>1 DEF DialogShape
  <2>3. Token(t) \in Tokens /\ toolLedger[Token(t)] = "done" /\ Token(t)[1] = toolAccount.asked
    BY <2>1 DEF Entered, Token
  <2>4. \A k \in Tokens : k[1] = toolAccount.asked /\ toolCalls[k[2]] # "absent" => k = Token(t)
    BY <2>1 DEF Token, Tokens, CallsAsked
  <2>5. \A u \in ToolIds : toolCalls'[u] = "absent"
    BY <2>1 DEF NoCalls
  <2>6. toolAccount.asked \in Nat
    BY DEF AccountType
  <2>7. Drains
    BY <1>13 DEF ResultImplied
  <2> QED BY <1>0, <2>1, <2>2, <2>3, <2>4, <2>5, <2>6, <2>7 DEF Token
<1>14. ASSUME NEW stop, NEW asks \in SUBSET ToolIds, AssistantEnds(stop, asks)
       PROVE  LedgerFollows' /\ HistoryOwes'
  <2>1. /\ dialog.turn /\ CallsAsked = {} /\ UNCHANGED omittedResults
        /\ dialog'.closed = dialog.closed /\ dialog'.ended = dialog.ended
        /\ toolAccount.asked < MaxAsked
    BY <1>14 DEF AssistantEnds, DialogType, DialogShape
  <2>2. toolAccount'.asked = toolAccount.asked + 1 /\ toolAccount.asked \in Nat
    BY <1>14 DEF AssistantEnds, AccountType
  <2>3. \A t \in ToolIds : toolCalls'[t] = IF t \in asks THEN "declared" ELSE "absent"
    BY <1>14, <2>1 DEF AssistantEnds, CallsAsked
  <2>4. \A k \in Tokens : toolLedger'[k] = IF k[1] = toolAccount'.asked /\ k[2] \in asks
                                            THEN "declared" ELSE toolLedger[k]
    BY <1>14, <2>2 DEF AssistantEnds
  <2>5. \A t \in ToolIds : /\ Token(t)' = <<toolAccount.asked + 1, t>>
                           /\ Token(t)' \in Tokens
    BY <2>1, <2>2, StreamAssumption DEF Token, Tokens
  <2>6. \A k \in omittedResults : k \in Tokens /\ k[1] <= toolAccount.asked
    OBVIOUS
  <2>7. \A k \in Tokens : toolLedger[k] \in {"unasked", "told"} \/ k \in omittedResults
    BY <2>1 DEF CallsAsked, Tokens
  <2>8. \A k \in Tokens : k[1] \in Nat /\ k[2] \in ToolIds
    BY DEF Tokens
  <2>9. \A t \in ToolIds : toolCalls'[t] # "absent" =>
            /\ Token(t)' \in Tokens \ omittedResults'
            /\ toolLedger'[Token(t)'] = Entered(toolCalls'[t])
    BY <2>1, <2>2, <2>3, <2>4, <2>5, <2>6 DEF Entered
  <2>10. \A k \in Tokens :
            \/ toolLedger'[k] \in {"unasked", "told"}
            \/ k \in omittedResults'
            \/ k[1] = toolAccount'.asked /\ toolCalls'[k[2]] # "absent"
    BY <2>1, <2>3, <2>4, <2>7, <2>8
  <2>11. \A k \in omittedResults' :
            /\ Drains'
            /\ k[1] <= toolAccount'.asked
            /\ toolLedger'[k] = IF dialog'.closed \/ dialog'.ended THEN "told" ELSE "done"
    BY <1>0, <2>1, <2>2, <2>4, <2>6, <2>8
  <2> QED BY <2>9, <2>10, <2>11
<1>15. ASSUME NEW t \in ToolIds, ToolStarts(t) \/ ToolEnds(t) \/ ResultEnds(t)
       PROVE  LedgerFollows' /\ HistoryOwes'
  <2>1. /\ dialog'.closed = dialog.closed /\ dialog'.ended = dialog.ended
        /\ dialog.turn
    BY <1>15 DEF ToolStarts, ToolEnds, ResultEnds, InTurn, DialogType, DialogShape
  <2>2. ~dialog.closed /\ ~dialog.ended
    BY <2>1 DEF DialogShape
  <2>3. CASE ToolStarts(t)
    BY CallStep, <2>1, <2>2, <2>3 DEF ToolStarts, Entered, CallStages
  <2>4. CASE ToolEnds(t)
    BY CallStep, <2>1, <2>2, <2>4 DEF ToolEnds, Entered, CallStages
  <2>5. CASE ResultEnds(t)
    BY CallStep, <2>1, <2>2, <2>5 DEF ResultEnds, Entered, CallStages
  <2> QED BY <1>15, <2>3, <2>4, <2>5
<1>16. CASE PlainEnds
  <2>1. /\ UNCHANGED <<toolCalls, omittedResults, toolLedger>> /\ contract # "drain"
    BY <1>16 DEF PlainEnds, Drains
  <2>2. toolAccount'.asked = toolAccount.asked
    BY <1>16 DEF PlainEnds, AccountType
  <2>3. omittedResults = {}
    BY <2>1 DEF Drains
  <2> QED BY <2>1, <2>2, <2>3 DEF Token
<1>17. ASSUME NEW q, NEW a \in AccountType, a.asked = toolAccount.asked, AnyEnd(q, a)
       PROVE  LedgerFollows' /\ HistoryOwes'
  <2>1. ASSUME NEW d \in DialogType, NEW r, NEW b \in AccountType, b.asked = toolAccount.asked,
               SegmentEnds(d, r, b), d.closed \/ d.ended
        PROVE  LedgerFollows' /\ HistoryOwes'
    <3>1. /\ UNCHANGED <<toolCalls, omittedResults>> /\ AllTold
          /\ dialog'.closed \/ dialog'.ended
          /\ ~dialog.closed /\ ~dialog.ended
      BY <2>1 DEF SegmentEnds, Rests, Admits
    <3>2. toolAccount'.asked = toolAccount.asked
      BY <2>1 DEF SegmentEnds, AccountType
    <3>3. \A k \in Tokens : toolLedger'[k] =
             IF k \notin omittedResults THEN toolLedger[k]
             ELSE IF toolLedger[k] = "done" THEN "told" ELSE "broken"
      BY <2>1 DEF SegmentEnds
    <3>4. \A k \in omittedResults : toolLedger[k] = "done" /\ toolLedger'[k] = "told"
      BY <3>1, <3>3
    <3>5. \A k \in Tokens : k \notin omittedResults => toolLedger'[k] = toolLedger[k]
      BY <3>3
    <3> QED BY <1>0, <3>1, <3>2, <3>4, <3>5 DEF Token
  <2>2. /\ [a EXCEPT !.due = @ \cup a.announced] \in AccountType
        /\ [a EXCEPT !.due = @ \cup a.announced].asked = a.asked
    BY DEF AccountType
  <2>3. /\ [dialog EXCEPT !.closed = TRUE] \in DialogType
        /\ [dialog EXCEPT !.ended = TRUE] \in DialogType
        /\ [dialog EXCEPT !.closed = TRUE].closed /\ [dialog EXCEPT !.ended = TRUE].ended
    BY DEF DialogType
  <2>4. a.asked = toolAccount.asked
    BY <1>17
  <2>5. CASE SegmentPauses(q, a)
    BY <2>1, <2>3, <2>4, <2>5 DEF SegmentPauses
  <2>6. CASE RunEnds(q, a)
    <3>1. SegmentEnds([dialog EXCEPT !.ended = TRUE],
                      [q EXCEPT !.seen = IF @ = "unknown" THEN @ ELSE "busy"],
                      [a EXCEPT !.due = @ \cup a.announced])
      BY <2>6 DEF RunEnds
    <3> HIDE DEF ToolInv, StreamTypeOK, LedgerFollows, HistoryOwes
    <3> QED BY <3>1, <2>1, <2>2, <2>3, <2>4
  <2>7. ASSUME NEW p \in Announcements, RestartPromised(q, a, p)
        PROVE  LedgerFollows' /\ HistoryOwes'
    <3>1. SegmentEnds([dialog EXCEPT !.closed = TRUE],
                      [q EXCEPT !.seen = "busy", !.expected = p, !.phase = "preparing",
                                !.continued = TRUE],
                      [a EXCEPT !.due = @ \cup a.announced])
      BY <2>7 DEF RestartPromised
    <3> HIDE DEF ToolInv, StreamTypeOK, LedgerFollows, HistoryOwes
    <3> QED BY <3>1, <2>1, <2>2, <2>3, <2>4
  <2> QED BY <1>17, <2>5, <2>6, <2>7 DEF AnyEnd
<1>18. CASE PlainHistory
  BY <1>17, <1>18 DEF PlainHistory
<1>19. ASSUME NEW m \in Deliveries, LedHistory(m) PROVE LedgerFollows' /\ HistoryOwes'
  <2>1. /\ Delivered(toolAccount, m) \in AccountType
        /\ Delivered(toolAccount, m).asked = toolAccount.asked
    BY DEF Delivered, AccountType
  <2> QED BY <1>17, <1>19, <2>1 DEF LedHistory
<1> QED
  BY <1>2, <1>3, <1>4, <1>5, <1>6, <1>7, <1>8, <1>10, <1>11, <1>12, <1>13, <1>14, <1>15, <1>16,
     <1>18, <1>19 DEF StreamNext

\* An accepted stream is one whose run ended with every call told and a queue
\* that owes nothing: the rest is what the invariant says of such a state.
LEMMA AcceptedStep ==
  ASSUME ToolInv, [StreamNext]_toolVars
  PROVE  ToolRunIsSettled'
<1>1. CASE UNCHANGED toolVars
  BY <1>1 DEF ToolInv, ToolRunIsSettled, CallsSettled, Drains, toolVars
<1>2. CASE StreamEnds
  <2> SUFFICES ASSUME toolVerdict' = "accepted"
               PROVE  /\ CallsSettled
                      /\ toolAccount.due = {}
                      /\ Drains /\ (toolAccount.everSeen \/ toolAccount.segments > 1) =>
                             toolAccount.idleSince
    BY <1>2 DEF StreamEnds, Judged, ToolRunIsSettled, CallsSettled, Drains
  <2>1. dialog.ended /\ (Drains => QueueSettled)
    BY <1>2 DEF StreamEnds, Judged
  <2>2. ~dialog.turn /\ ~dialog.closed /\ AllTold
    BY <2>1 DEF ToolInv, DialogShape, StreamTypeOK, DialogType
  <2>3. CallsSettled
    <3>1. \A k \in Tokens : k \in omittedResults => toolLedger[k] = "told"
      BY <2>1 DEF ToolInv, HistoryOwes
    <3>2. \A k \in Tokens : k[1] = toolAccount.asked /\ toolCalls[k[2]] # "absent" =>
             toolLedger[k] = "told"
      <4>1. \A k \in Tokens : k[1] = toolAccount.asked => k = Token(k[2]) /\ k[2] \in ToolIds
        BY DEF Token, Tokens
      <4> QED BY <2>2, <4>1 DEF ToolInv, LedgerFollows, AllTold, CallsAsked, Entered
    <3> QED BY <3>1, <3>2 DEF ToolInv, LedgerFollows, CallsSettled
  <2>4. agentQueue.phase = "none"
    BY <2>1 DEF ToolInv, RestartShape
  <2>5. toolAccount.due = {}
    BY <2>4 DEF ToolInv, RestartShape
  <2>6. ASSUME Drains, toolAccount.everSeen \/ toolAccount.segments > 1
        PROVE  toolAccount.idleSince
    <3>1. dialog.resumed \/ agentQueue.seen # "unknown"
      BY <2>6 DEF ToolInv, DialogShape, QueueFollows
    <3>2. agentQueue.seen = "idle"
      BY <2>1, <2>6, <3>1 DEF QueueSettled
    <3> QED BY <2>2, <3>2 DEF ToolInv, QueueFollows
  <2> QED BY <2>3, <2>5, <2>6
<1>3. CASE StreamNext /\ ~StreamEnds
  <2>1. \A q, a : AnyEnd(q, a) => toolVerdict' = "reading"
    BY DEF AnyEnd, SegmentPauses, RunEnds, RestartPromised, SegmentEnds, Admits, Listening
  <2>2. CASE \/ ReadyShown \/ Commands \/ SessionState \/ Inventory \/ PromptTaken
             \/ AgentStarts \/ TurnStarts \/ TurnEnds \/ PlainEnds
             \/ UserStarts \/ UserEnds \/ CustomStarts \/ CustomEnds
             \/ AssistantStarts \/ TurnImplied \/ MarkersImplied
    <3>1. toolVerdict' = "reading"
      BY <2>2 DEF ReadyShown, Commands, SessionState, Inventory, PromptTaken, Greet, AgentStarts,
         TurnStarts, TurnEnds, PlainEnds, UserStarts, UserEnds, CustomStarts, CustomEnds,
         AssistantStarts, TurnImplied, MarkersImplied, Infers, Opens, Admits, Listening
    <3> QED BY <3>1 DEF ToolRunIsSettled
  <2>3. ASSUME NEW stop, NEW asks, AssistantEnds(stop, asks) PROVE toolVerdict' = "reading"
    BY <2>3 DEF AssistantEnds, Admits, Listening
  <2>4. ASSUME NEW t, \/ ToolStarts(t) \/ ToolEnds(t) \/ ResultStarts(t) \/ ResultEnds(t)
                      \/ ResultImplied(t)
        PROVE  toolVerdict' = "reading"
    BY <2>4 DEF ToolStarts, ToolEnds, ResultStarts, ResultEnds, ResultImplied, CallMoves, Infers,
       Opens, Admits, Listening
  <2>5. ASSUME NEW a, QueueShown(a) \/ QueueMoves(a) \/ ChildShown(a)
        PROVE  toolVerdict' = "reading"
    BY <2>5 DEF QueueShown, QueueMoves, ChildShown, Pending, Admits, Listening
  <2>6. ASSUME NEW m, DeliveryStarts(m) \/ DeliveryEnds(m) \/ LedHistory(m)
        PROVE  toolVerdict' = "reading"
    BY <2>1, <2>6 DEF DeliveryStarts, DeliveryEnds, LedHistory, Pending, Listening
  <2>7. CASE AgentRestarts \/ TurnRestarts \/ PlainHistory
    <3>1. toolVerdict' = "reading"
      BY <2>1, <2>7 DEF AgentRestarts, TurnRestarts, PlainHistory, Pending, Listening
    <3> QED BY <3>1 DEF ToolRunIsSettled
  <2>8. CASE RefuseRecord \/ HarnessFails
    <3>1. toolVerdict' # "accepted"
      BY <2>8 DEF RefuseRecord, HarnessFails, Judged
    <3> QED BY <3>1 DEF ToolRunIsSettled
  <2> QED
    BY <1>3, <2>2, <2>3, <2>4, <2>5, <2>6, <2>7, <2>8 DEF StreamNext, ToolRunIsSettled
<1> QED BY <1>1, <1>2, <1>3

\* An accepted stream of records leaves nothing under way, for every number of
\* calls, messages, children and queues (normalize_mode).
THEOREM ToolRunsSettle == StreamSpec => []ToolRunIsSettled
<1>1. StreamInit => ToolInv
  <2> SUFFICES ASSUME StreamInit PROVE ToolInv
    OBVIOUS
  <2> USE DEF StreamInit, NoDialog, NoQueue, NoAccount, NoMessage, NoCalls
  <2>1. StreamTypeOK
    <3>1. dialog \in DialogType
      BY DEF DialogType, Roles
    <3>2. agentQueue \in QueueType
      BY DEF QueueType, RestartPhases
    <3>3. toolAccount \in AccountType
      BY StreamAssumption DEF AccountType
    <3> QED BY <3>1, <3>2, <3>3 DEF StreamTypeOK, Preliminaries, CallStages
  <2>2. LedgerFollows /\ HistoryOwes
    BY DEF LedgerFollows, HistoryOwes
  <2>3. DialogShape
    BY DEF DialogShape, CallsAsked, AllTold
  <2>4. QueueFollows /\ RestartShape
    BY DEF QueueFollows, RestartShape
  <2>5. ToolRunIsSettled
    BY DEF ToolRunIsSettled
  <2> QED BY <2>1, <2>2, <2>3, <2>4, <2>5 DEF ToolInv
<1>2. ToolInv /\ [StreamNext]_toolVars => ToolInv'
  BY ToolTypes, DialogStep, QueueStep, LedgerStep, AcceptedStep DEF ToolInv
<1>3. ToolInv => ToolRunIsSettled
  BY DEF ToolInv
<1> QED BY <1>1, <1>2, <1>3, PTL DEF StreamSpec
=============================================================================
