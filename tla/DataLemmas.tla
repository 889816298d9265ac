----------------------------- MODULE DataLemmas -----------------------------
(* Induction without an operator parameter: over a set of naturals, from the  *)
(* well-foundedness of strict inclusion on finite sets, and over a set of      *)
(* sequences; and with it what the operators of Queues compute.                *)
EXTENDS Queues, Integers, FiniteSetTheorems, WellFoundedInduction, SequenceTheorems, TLAPS

\* Induction over a set of naturals.
LEMMA NatSetInduction ==
  ASSUME NEW S, 0 \in S, \A n \in Nat : n \in S => n + 1 \in S
  PROVE  Nat \subseteq S
<1> SUFFICES ASSUME NEW n \in Nat, n \notin S PROVE FALSE
  OBVIOUS
<1> DEFINE T == {0 .. k : k \in Nat \ S}
<1>1. T \subseteq FiniteSubsetsOf(Nat) /\ T # {}
  <2>1. \A k \in Nat : 0 .. k \in SUBSET Nat /\ IsFiniteSet(0 .. k)
    BY FS_Interval
  <2> QED BY <2>1 DEF FiniteSubsetsOf
<1>2. PICK x \in T : \A y \in T : <<y, x>> \notin StrictSubsetOrdering(Nat)
  <2> HIDE DEF T
  <2> QED BY <1>1, WFMin, FS_StrictSubsetOrderingWellFounded
<1>3. PICK k \in Nat \ S : x = 0 .. k
  OBVIOUS
<1>4. k # 0 /\ k - 1 \in Nat \ S
  OBVIOUS
<1>5. 0 .. (k - 1) \in T
  BY <1>4
<1>6. <<0 .. (k - 1), 0 .. k>> \in StrictSubsetOrdering(Nat)
  <2>1. k \in 0 .. k /\ k \notin 0 .. (k - 1)
    OBVIOUS
  <2> QED BY <2>1 DEF StrictSubsetOrdering
<1> QED BY <1>2, <1>3, <1>5, <1>6

\* A set of naturals that is not empty has a least element.
LEMMA LeastNat ==
  ASSUME NEW S \in SUBSET Nat, S # {}
  PROVE  \E n \in S : \A m \in S : n <= m
<1> SUFFICES ASSUME \A n \in S : \E m \in S : m < n PROVE FALSE
  OBVIOUS
<1> DEFINE Free == {n \in Nat : \A k \in 0 .. n : k \notin S}
<1>1. 0 \in Free
  OBVIOUS
<1>2. ASSUME NEW n \in Nat, n \in Free PROVE n + 1 \in Free
  <2>1. \A k \in 0 .. n : k \notin S
    BY <1>2
  <2>2. n + 1 \notin S
    BY <2>1
  <2> QED BY <2>1, <2>2
<1>3. Nat \subseteq Free
  <2> HIDE DEF Free
  <2> QED BY <1>1, <1>2, NatSetInduction
<1>4. \A n \in S : n \in Nat /\ n \in 0 .. n
  OBVIOUS
<1> QED BY <1>3, <1>4

-----------------------------------------------------------------------------
(* Sequences *)

\* Induction over a set of sequences, by appending.
LEMMA SeqSetInduction ==
  ASSUME NEW X, NEW P, <<>> \in P,
         \A s \in Seq(X), x \in X : s \in P => Append(s, x) \in P
  PROVE  Seq(X) \subseteq P
<1> DEFINE N == {n \in Nat : \A s \in Seq(X) : Len(s) = n => s \in P}
<1>1. 0 \in N
  BY EmptySeq
<1>2. ASSUME NEW n \in Nat, n \in N PROVE n + 1 \in N
  <2> SUFFICES ASSUME NEW s \in Seq(X), Len(s) = n + 1 PROVE s \in P
    OBVIOUS
  <2> DEFINE f == SubSeq(s, 1, n)
  <2>1. f \in Seq(X) /\ Len(f) = n /\ s[n + 1] \in X
    BY ElementOfSeq
  <2>2. s = Append(f, s[n + 1])
    OBVIOUS
  <2> HIDE DEF f
  <2> QED BY <1>2, <2>1, <2>2
<1>3. Nat \subseteq N
  <2> HIDE DEF N
  <2> QED BY <1>1, <1>2, NatSetInduction
<1> QED BY <1>3, LenProperties

\* One step of the function that Only defines.
OnlyStep(s, S, f, n) ==
  IF n = 0 THEN <<>> ELSE IF s[n] \in S THEN Append(f[n - 1], s[n]) ELSE f[n - 1]

OnlyFunction(s, S, f) == f = [n \in 0 .. Len(s) |-> OnlyStep(s, S, f, n)]

LEMMA OnlyExists ==
  ASSUME NEW X, NEW S, NEW s \in Seq(X)
  PROVE  \E f : f = [n \in 0 .. Len(s) |-> OnlyStep(s, S, f, n)]
<1> DEFINE P == {k \in Nat : k <= Len(s) =>
                   \E f : f = [n \in 0 .. k |-> OnlyStep(s, S, f, n)]}
<1>1. 0 \in P
  <2> DEFINE f == [n \in 0 .. 0 |-> <<>>]
  <2>1. f = [n \in 0 .. 0 |-> OnlyStep(s, S, f, n)]
    BY DEF OnlyStep
  <2> QED BY <2>1
<1>2. ASSUME NEW k \in Nat, k \in P PROVE k + 1 \in P
  <2> SUFFICES ASSUME k + 1 <= Len(s)
               PROVE  \E f : f = [n \in 0 .. (k + 1) |-> OnlyStep(s, S, f, n)]
    OBVIOUS
  <2>1. PICK g : g = [n \in 0 .. k |-> OnlyStep(s, S, g, n)]
    BY <1>2, LenProperties
  <2> DEFINE f == [n \in 0 .. (k + 1) |-> IF n = k + 1 THEN OnlyStep(s, S, g, k + 1) ELSE g[n]]
  <2>2. ASSUME NEW n \in 0 .. (k + 1) PROVE f[n] = OnlyStep(s, S, f, n)
    <3>1. CASE n = k + 1
      BY <3>1 DEF OnlyStep
    <3>2. CASE n \in 0 .. k
      <4>1. f[n] = OnlyStep(s, S, g, n)
        BY <2>1, <3>2
      <4>2. n # 0 => f[n - 1] = g[n - 1]
        BY <3>2
      <4> QED BY <4>1, <4>2 DEF OnlyStep
    <3> QED BY <3>1, <3>2
  <2>3. f = [n \in 0 .. (k + 1) |-> OnlyStep(s, S, f, n)]
    BY <2>2
  <2> QED BY <2>3
<1>3. Nat \subseteq P
  <2> HIDE DEF P
  <2> QED BY <1>1, <1>2, NatSetInduction
<1> QED BY <1>3, LenProperties

LEMMA OnlyIs ==
  ASSUME NEW X, NEW S, NEW s \in Seq(X)
  PROVE  \E f : OnlyFunction(s, S, f) /\ Only(s, S) = f[Len(s)]
<1> DEFINE g == CHOOSE f : f = [n \in 0 .. Len(s) |-> OnlyStep(s, S, f, n)]
<1>1. g = [n \in 0 .. Len(s) |-> OnlyStep(s, S, g, n)]
  BY OnlyExists
<1>2. Only(s, S) = g[Len(s)]
  BY DEF Only, OnlyStep
<1> QED BY <1>1, <1>2 DEF OnlyFunction

LEMMA OnlyEmpty ==
  ASSUME NEW S
  PROVE  Only(<<>>, S) = <<>>
<1>1. <<>> \in Seq({}) /\ Len(<<>>) = 0
  OBVIOUS
<1>2. PICK h : OnlyFunction(<<>>, S, h) /\ Only(<<>>, S) = h[0]
  BY <1>1, OnlyIs
<1> QED BY <1>2 DEF OnlyStep, OnlyFunction

LEMMA OnlyAppend ==
  ASSUME NEW X, NEW S, NEW s \in Seq(X), NEW x \in X
  PROVE  Only(Append(s, x), S) = IF x \in S THEN Append(Only(s, S), x) ELSE Only(s, S)
<1> DEFINE t == Append(s, x)
<1>1. t \in Seq(X) /\ Len(t) = Len(s) + 1 /\ t[Len(s) + 1] = x /\ Len(s) \in Nat
      /\ \A n \in 1 .. Len(s) : t[n] = s[n]
  BY AppendProperties, LenProperties
<1>2. PICK f : OnlyFunction(s, S, f) /\ Only(s, S) = f[Len(s)]
  BY OnlyIs
<1> HIDE DEF t
<1>3. PICK g : OnlyFunction(t, S, g) /\ Only(t, S) = g[Len(t)]
  BY <1>1, OnlyIs
<1> DEFINE P == {n \in Nat : n <= Len(s) => g[n] = f[n]}
<1>4. 0 \in P
  BY <1>1, <1>2, <1>3 DEF OnlyStep, OnlyFunction
<1>5. ASSUME NEW n \in Nat, n \in P PROVE n + 1 \in P
  <2> SUFFICES ASSUME n + 1 <= Len(s) PROVE g[n + 1] = f[n + 1]
    OBVIOUS
  <2>1. g[n] = f[n] /\ t[n + 1] = s[n + 1]
    BY <1>1, <1>5
  <2>2. n + 1 \in 0 .. Len(t) /\ n + 1 \in 0 .. Len(s)
    BY <1>1
  <2>3. g[n + 1] = OnlyStep(t, S, g, n + 1)
    BY <1>3, <2>2 DEF OnlyFunction
  <2>4. f[n + 1] = OnlyStep(s, S, f, n + 1)
    BY <1>2, <2>2 DEF OnlyFunction
  <2> QED BY <2>1, <2>3, <2>4 DEF OnlyStep
<1>6. Nat \subseteq P
  <2> HIDE DEF P
  <2> QED BY <1>4, <1>5, NatSetInduction
<1>7. g[Len(s)] = f[Len(s)]
  BY <1>1, <1>6
<1>8. g[Len(t)] = OnlyStep(t, S, g, Len(s) + 1)
  <2>1. Len(s) + 1 \in 0 .. Len(t)
    BY <1>1
  <2> HIDE DEF P
  <2> QED BY <1>1, <1>3, <2>1 DEF OnlyFunction
<1>9. Only(t, S) = IF x \in S THEN Append(Only(s, S), x) ELSE Only(s, S)
  BY <1>1, <1>2, <1>3, <1>7, <1>8 DEF OnlyStep
<1> QED BY <1>9 DEF t

\* Only picks the items in S, and what it picks of a sequence it picks of its
\* parts.
LEMMA OnlySeq ==
  ASSUME NEW X, NEW S, NEW s \in Seq(X)
  PROVE  Only(s, S) \in Seq(X \cap S)
<1> DEFINE Q == {w \in Seq(X) : Only(w, S) \in Seq(X \cap S)}
<1>1. Only(<<>>, S) = <<>> /\ <<>> \in Seq(X \cap S) /\ <<>> \in Seq(X)
  BY OnlyEmpty
<1>2. ASSUME NEW w \in Seq(X), NEW x \in X, w \in Q PROVE Append(w, x) \in Q
  <2>1. Only(Append(w, x), S) = IF x \in S THEN Append(Only(w, S), x) ELSE Only(w, S)
    BY OnlyAppend
  <2>2. Append(w, x) \in Seq(X) /\ Only(w, S) \in Seq(X \cap S) /\ (x \in S => x \in X \cap S)
    BY <1>2
  <2>3. x \in S => Append(Only(w, S), x) \in Seq(X \cap S)
    BY <2>2
  <2> QED BY <2>1, <2>2, <2>3
<1>3. Seq(X) \subseteq Q
  <2> HIDE DEF Q
  <2>1. <<>> \in Q
    BY <1>1 DEF Q
  <2> QED BY <1>2, <2>1, SeqSetInduction
<1> QED BY <1>3

LEMMA OnlyConcat ==
  ASSUME NEW X, NEW S, NEW u \in Seq(X), NEW v \in Seq(X), NEW w, w = u \o v
  PROVE  Only(w, S) = Only(u, S) \o Only(v, S)
<1> DEFINE P == {r \in Seq(X) : Only(u \o r, S) = Only(u, S) \o Only(r, S)}
<1>1. Only(u, S) \in Seq(X \cap S)
  BY OnlySeq
<1>2. <<>> \in P
  <2>1. <<>> \in Seq(X) /\ Only(<<>>, S) = <<>>
    BY OnlyEmpty
  <2>2. u \o <<>> = u /\ Only(u, S) \o <<>> = Only(u, S)
    BY <1>1
  <2> QED BY <2>1, <2>2
<1>3. ASSUME NEW r \in Seq(X), NEW x \in X, r \in P PROVE Append(r, x) \in P
  <2> DEFINE c == u \o r
  <2>1. Append(r, x) \in Seq(X) /\ c \in Seq(X) /\ u \o Append(r, x) = Append(c, x)
    OBVIOUS
  <2>2. Only(r, S) \in Seq(X \cap S)
    BY OnlySeq
  <2>3. Only(u, S) \o Append(Only(r, S), x) = Append(Only(u, S) \o Only(r, S), x)
    BY <1>1, <2>2, x \in S \/ x \notin S
  <2>4. Only(c, S) = Only(u, S) \o Only(r, S)
    BY <1>3
  <2> HIDE DEF c
  <2>5. Only(Append(c, x), S) = IF x \in S THEN Append(Only(c, S), x) ELSE Only(c, S)
    BY <2>1, OnlyAppend
  <2>6. Only(Append(r, x), S) = IF x \in S THEN Append(Only(r, S), x) ELSE Only(r, S)
    BY OnlyAppend
  <2>7. Only(u \o Append(r, x), S) = Only(u, S) \o Only(Append(r, x), S)
    BY <2>1, <2>3, <2>4, <2>5, <2>6
  <2> QED BY <2>1, <2>7
<1>4. Seq(X) \subseteq P
  <2> HIDE DEF P
  <2> QED BY <1>2, <1>3, SeqSetInduction
<1> QED BY <1>4

LEMMA OnlyHead ==
  ASSUME NEW X, NEW S, NEW s \in Seq(X), s # <<>>
  PROVE  Only(s, S) = IF Head(s) \in S THEN <<Head(s)>> \o Only(Tail(s), S) ELSE Only(Tail(s), S)
<1> DEFINE h == Head(s)
           t == Tail(s)
           b == <<h>>
<1>1. h \in X /\ t \in Seq(X) /\ b \in Seq(X) /\ s = b \o t /\ b = Append(<<>>, h)
      /\ <<>> \in Seq(X)
  OBVIOUS
<1> HIDE DEF h, t, b
<1>2. Only(s, S) = Only(b, S) \o Only(t, S) /\ Only(t, S) \in Seq(X \cap S)
  <2>1. Only(b \o t, S) = Only(b, S) \o Only(t, S)
    BY <1>1, OnlyConcat
  <2>2. Only(t, S) \in Seq(X \cap S)
    BY <1>1, OnlySeq
  <2>3. s = b \o t
    BY <1>1
  <2> QED BY <2>1, <2>2, <2>3
<1>3. Only(Append(<<>>, h), S) = IF h \in S THEN Append(<<>>, h) ELSE <<>>
  <2> DEFINE e == <<>>
  <2>1. e \in Seq(X) /\ Only(e, S) = e
    BY OnlyEmpty
  <2> HIDE DEF e
  <2>2. Only(Append(e, h), S) = IF h \in S THEN Append(Only(e, S), h) ELSE Only(e, S)
    BY <1>1, <2>1, OnlyAppend
  <2>3. Only(Append(e, h), S) = IF h \in S THEN Append(e, h) ELSE e
    BY <2>1, <2>2
  <2> QED BY <2>3 DEF e
<1>4. <<>> \o Only(t, S) = Only(t, S)
  BY <1>2
<1>5. Only(b, S) = IF h \in S THEN b ELSE <<>>
  BY <1>1, <1>3
<1>6. Only(s, S) = Only(b, S) \o Only(t, S)
  BY <1>1, <1>2
<1>7. CASE h \in S
  <2>1. Only(s, S) = b \o Only(t, S)
    BY <1>5, <1>6, <1>7
  <2> QED BY <1>7, <2>1 DEF h, t, b
<1>8. CASE h \notin S
  <2>1. Only(s, S) = Only(t, S)
    BY <1>4, <1>5, <1>6, <1>8
  <2> QED BY <1>8, <2>1 DEF h, t
<1> QED BY <1>7, <1>8

LEMMA OnlyOnly ==
  ASSUME NEW X, NEW S, NEW T, NEW s \in Seq(X)
  PROVE  Only(Only(s, S), T) = Only(s, S \cap T)
<1> DEFINE P == {w \in Seq(X) : Only(Only(w, S), T) = Only(w, S \cap T)}
<1>1. <<>> \in P
  <2>1. <<>> \in Seq(X)
    OBVIOUS
  <2> QED BY <2>1, OnlyEmpty
<1>2. ASSUME NEW w \in Seq(X), NEW x \in X, w \in P PROVE Append(w, x) \in P
  <2>1. Only(w, S) \in Seq(X)
    <3>1. Only(w, S) \in Seq(X \cap S)
      BY OnlySeq
    <3> QED BY <3>1
  <2>2. Only(Append(w, x), S) = IF x \in S THEN Append(Only(w, S), x) ELSE Only(w, S)
    BY OnlyAppend
  <2>3. Only(Append(Only(w, S), x), T) =
          IF x \in T THEN Append(Only(Only(w, S), T), x) ELSE Only(Only(w, S), T)
    BY <2>1, OnlyAppend
  <2>4. Only(Append(w, x), S \cap T) =
          IF x \in S \cap T THEN Append(Only(w, S \cap T), x) ELSE Only(w, S \cap T)
    BY OnlyAppend
  <2>5. Append(w, x) \in Seq(X) /\ Only(Only(w, S), T) = Only(w, S \cap T)
    BY <1>2
  <2>6. Only(Only(Append(w, x), S), T) = Only(Append(w, x), S \cap T)
    <3>1. CASE x \in S
      <4>1. Only(Only(Append(w, x), S), T) = Only(Append(Only(w, S), x), T)
        BY <2>2, <3>1
      <4>2. CASE x \in T
        BY <2>3, <2>4, <2>5, <3>1, <4>1, <4>2
      <4>3. CASE x \notin T
        BY <2>3, <2>4, <2>5, <3>1, <4>1, <4>3
      <4> QED BY <4>2, <4>3
    <3>2. CASE x \notin S
      BY <2>2, <2>4, <2>5, <3>2
    <3> QED BY <3>1, <3>2
  <2> QED BY <2>5, <2>6
<1>3. Seq(X) \subseteq P
  <2> HIDE DEF P
  <2> QED BY <1>1, <1>2, SeqSetInduction
<1> QED BY <1>3

-----------------------------------------------------------------------------
(* Queues without repetitions, and what is in them *)

LEMMA AppendItems ==
  ASSUME NEW X, NEW s \in Seq(X), NEW x \in X
  PROVE  /\ ToSet(Append(s, x)) = ToSet(s) \cup {x}
         /\ IsInjective(s) /\ x \notin ToSet(s) => IsInjective(Append(s, x))
         /\ IsInjective(Append(s, x)) => IsInjective(s) /\ x \notin ToSet(s)
<1> DEFINE t == Append(s, x)
<1>1. /\ Len(s) \in Nat /\ DOMAIN s = 1 .. Len(s) /\ DOMAIN t = 1 .. (Len(s) + 1)
      /\ t[Len(s) + 1] = x /\ \A n \in 1 .. Len(s) : t[n] = s[n]
  OBVIOUS
<1> HIDE DEF t
<1>2. ToSet(t) = ToSet(s) \cup {x}
  BY <1>1 DEF ToSet
<1>3. IsInjective(s) /\ x \notin ToSet(s) => IsInjective(t)
  BY <1>1 DEF ToSet, IsInjective
<1>4. IsInjective(t) => IsInjective(s) /\ x \notin ToSet(s)
  BY <1>1 DEF ToSet, IsInjective
<1> QED BY <1>2, <1>3, <1>4 DEF t

LEMMA ConcatItems ==
  ASSUME NEW X, NEW u \in Seq(X), NEW v \in Seq(X)
  PROVE  /\ ToSet(u \o v) = ToSet(u) \cup ToSet(v)
         /\ IsInjective(u) /\ IsInjective(v) /\ ToSet(u) \cap ToSet(v) = {}
            => IsInjective(u \o v)
<1> DEFINE t == u \o v
           k == Len(u)
<1>1. /\ k \in Nat /\ Len(v) \in Nat /\ DOMAIN u = 1 .. k /\ DOMAIN v = 1 .. Len(v)
      /\ DOMAIN t = 1 .. (k + Len(v))
      /\ \A n \in 1 .. k : t[n] = u[n]
      /\ \A n \in (k + 1) .. (k + Len(v)) : t[n] = v[n - k]
  BY ConcatProperties, LenProperties
<1> HIDE DEF t, k
<1>2. \A n \in DOMAIN t : (n \in DOMAIN u /\ t[n] = u[n])
                         \/ (n - k \in DOMAIN v /\ t[n] = v[n - k])
  <2> SUFFICES ASSUME NEW n \in DOMAIN t, n \notin DOMAIN u
               PROVE  n - k \in DOMAIN v /\ t[n] = v[n - k]
    <3>1. \A n \in DOMAIN u : t[n] = u[n]
      BY <1>1
    <3> QED BY <3>1
  <2>1. n \in (k + 1) .. (k + Len(v)) /\ n - k \in 1 .. Len(v)
    BY <1>1
  <2> QED BY <1>1, <2>1
<1>3. ToSet(t) = ToSet(u) \cup ToSet(v)
  <2>1. ToSet(t) \subseteq ToSet(u) \cup ToSet(v)
    BY <1>2 DEF ToSet
  <2>2. \A n \in DOMAIN v : k + n \in DOMAIN t /\ t[k + n] = v[n]
    <3>1. \A n \in 1 .. Len(v) : k + n \in (k + 1) .. (k + Len(v)) /\ (k + n) - k = n
      BY <1>1
    <3>2. (k + 1) .. (k + Len(v)) \subseteq DOMAIN t
      BY <1>1
    <3> QED BY <1>1, <3>1, <3>2
  <2>3. \A n \in DOMAIN u : n \in DOMAIN t /\ t[n] = u[n]
    BY <1>1
  <2>4. ToSet(u) \cup ToSet(v) \subseteq ToSet(t)
    BY <2>2, <2>3 DEF ToSet
  <2> QED BY <2>1, <2>4
<1>4. ASSUME IsInjective(u), IsInjective(v), ToSet(u) \cap ToSet(v) = {}
      PROVE  IsInjective(t)
  <2> SUFFICES ASSUME NEW m \in DOMAIN t, NEW n \in DOMAIN t, t[m] = t[n] PROVE m = n
    BY DEF IsInjective
  <2>1. CASE m \in DOMAIN u /\ t[m] = u[m] /\ n \in DOMAIN u /\ t[n] = u[n]
    BY <1>4, <2>1 DEF IsInjective
  <2>2. CASE /\ m - k \in DOMAIN v /\ t[m] = v[m - k]
             /\ n - k \in DOMAIN v /\ t[n] = v[n - k]
    <3>1. m - k = n - k
      BY <1>4, <2>2 DEF IsInjective
    <3> QED BY <1>1, <3>1
  <2>3. CASE \/ m \in DOMAIN u /\ t[m] = u[m] /\ n - k \in DOMAIN v /\ t[n] = v[n - k]
             \/ n \in DOMAIN u /\ t[n] = u[n] /\ m - k \in DOMAIN v /\ t[m] = v[m - k]
    BY <1>4, <2>3 DEF ToSet
  <2> QED BY <1>2, <2>1, <2>2, <2>3
<1> QED BY <1>3, <1>4 DEF t

LEMMA TailItems ==
  ASSUME NEW X, NEW s \in Seq(X), s # <<>>
  PROVE  /\ Head(s) \in X /\ Tail(s) \in Seq(X)
         /\ ToSet(s) = ToSet(Tail(s)) \cup {Head(s)}
         /\ IsInjective(s) => IsInjective(Tail(s)) /\ Head(s) \notin ToSet(Tail(s))
<1> DEFINE t == Tail(s)
<1>1. /\ Len(s) \in Nat \ {0} /\ DOMAIN s = 1 .. Len(s) /\ DOMAIN t = 1 .. (Len(s) - 1)
      /\ Head(s) = s[1] /\ \A n \in 1 .. (Len(s) - 1) : t[n] = s[n + 1]
      /\ Head(s) \in X /\ t \in Seq(X)
  OBVIOUS
<1> HIDE DEF t
<1>2. \A n \in DOMAIN s : n = 1 \/ (n - 1 \in DOMAIN t /\ t[n - 1] = s[n])
  <2> SUFFICES ASSUME NEW n \in DOMAIN s, n # 1 PROVE n - 1 \in DOMAIN t /\ t[n - 1] = s[n]
    OBVIOUS
  <2>1. n - 1 \in 1 .. (Len(s) - 1) /\ (n - 1) + 1 = n
    BY <1>1
  <2> QED BY <1>1, <2>1
<1>3. ToSet(s) = ToSet(t) \cup {Head(s)}
  <2>1. ToSet(s) \subseteq ToSet(t) \cup {Head(s)}
    BY <1>1, <1>2 DEF ToSet
  <2>2. ToSet(t) \cup {Head(s)} \subseteq ToSet(s)
    BY <1>1 DEF ToSet
  <2> QED BY <2>1, <2>2
<1>4. IsInjective(s) => IsInjective(t) /\ Head(s) \notin ToSet(t)
  <2> SUFFICES ASSUME IsInjective(s) PROVE IsInjective(t) /\ Head(s) \notin ToSet(t)
    OBVIOUS
  <2>1. \A m, n \in DOMAIN t : m + 1 \in DOMAIN s /\ n + 1 \in DOMAIN s /\ (m + 1 = n + 1 => m = n)
    BY <1>1
  <2>2. IsInjective(t)
    BY <1>1, <2>1 DEF IsInjective
  <2>3. \A n \in DOMAIN t : 1 \in DOMAIN s /\ n + 1 # 1
    BY <1>1
  <2>4. Head(s) \notin ToSet(t)
    BY <1>1, <2>1, <2>3 DEF IsInjective, ToSet
  <2> QED BY <2>2, <2>4
<1> QED BY <1>1, <1>3, <1>4 DEF t

LEMMA OnlyItems ==
  ASSUME NEW X, NEW S, NEW s \in Seq(X)
  PROVE  /\ Only(s, S) \in Seq(X)
         /\ ToSet(Only(s, S)) = ToSet(s) \cap S
         /\ IsInjective(s) => IsInjective(Only(s, S))
<1> DEFINE P == {w \in Seq(X) : /\ Only(w, S) \in Seq(X)
                                /\ ToSet(Only(w, S)) = ToSet(w) \cap S
                                /\ IsInjective(w) => IsInjective(Only(w, S))}
<1>1. <<>> \in P
  <2>1. <<>> \in Seq(X) /\ Only(<<>>, S) = <<>>
    BY OnlyEmpty
  <2>2. ToSet(<<>>) = {}
    BY DEF ToSet
  <2> QED BY <2>1, <2>2
<1>2. ASSUME NEW w \in Seq(X), NEW x \in X, w \in P PROVE Append(w, x) \in P
  <2> DEFINE o == Only(w, S)
             t == Append(w, x)
  <2>1. o \in Seq(X) /\ ToSet(o) = ToSet(w) \cap S /\ (IsInjective(w) => IsInjective(o))
        /\ t \in Seq(X)
    BY <1>2, AppendProperties
  <2>2. Only(t, S) = IF x \in S THEN Append(o, x) ELSE o
    BY OnlyAppend
  <2>3. /\ ToSet(t) = ToSet(w) \cup {x}
        /\ IsInjective(t) => IsInjective(w) /\ x \notin ToSet(w)
    BY AppendItems
  <2>4. /\ Append(o, x) \in Seq(X) /\ ToSet(Append(o, x)) = ToSet(o) \cup {x}
        /\ IsInjective(o) /\ x \notin ToSet(o) => IsInjective(Append(o, x))
    <3> HIDE DEF o
    <3> QED BY <2>1, AppendItems
  <2> HIDE DEF o, t
  <2>5. /\ Only(t, S) \in Seq(X) /\ ToSet(Only(t, S)) = ToSet(t) \cap S
        /\ IsInjective(t) => IsInjective(Only(t, S))
    BY <2>1, <2>2, <2>3, <2>4
  <2> QED BY <2>1, <2>5 DEF t
<1>3. Seq(X) \subseteq P
  <2> HIDE DEF P
  <2> QED BY <1>1, <1>2, SeqSetInduction
<1> QED BY <1>3

\* SetToSeqs gives the orders of a queue's items.
LEMMA OrdersOf ==
  ASSUME NEW X, NEW s \in Seq(X), NEW t \in SetToSeqs(ToSet(s))
  PROVE  t \in Seq(X) /\ ToSet(t) = ToSet(s) /\ IsInjective(t)
<1> DEFINE T == ToSet(s)
           n == Cardinality(T)
<1>1. IsFiniteSet(T)
  <2>1. IsFiniteSet(1 .. Len(s)) /\ s \in Surjection(1 .. Len(s), T)
    <3>1. IsFiniteSet(1 .. Len(s))
      BY FS_Interval, LenProperties
    <3>2. DOMAIN s = 1 .. Len(s) /\ s \in [1 .. Len(s) -> T]
      BY DEF ToSet
    <3> QED BY <3>1, <3>2 DEF Surjection, ToSet
  <2> HIDE DEF T
  <2> QED BY <2>1, FS_Surjection
<1>2. n \in Nat
  BY <1>1, FS_CardinalityType
<1>3. t \in [1 .. n -> T] /\ IsInjective(t)
  BY DEF SetToSeqs, IsInjective
<1>4. IsFiniteSet(1 .. n) /\ Cardinality(1 .. n) = n
  BY <1>2, FS_Interval
<1>5. t \in Surjection(1 .. n, T)
  <2>1. t \in Injection(1 .. n, T)
    BY <1>3 DEF Injection
  <2> HIDE DEF T
  <2> QED BY <1>1, <1>4, <2>1, FS_Injection
<1>6. T \subseteq X
  BY DEF ToSet
<1>7. t \in Seq(X) /\ DOMAIN t = 1 .. n
  BY <1>2, <1>3, <1>6
<1>8. ToSet(t) = T
  BY <1>3, <1>5, <1>7 DEF ToSet, Surjection
<1> QED BY <1>3, <1>7, <1>8
=============================================================================
