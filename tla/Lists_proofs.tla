----------------------------- MODULE Lists_proofs -----------------------------
(***************************************************************************)
(* Facts about lists that the proofs need: what Sublist leaves and what    *)
(* FlattenSeq makes, for lists of any length.  Both are recursive          *)
(* functions over numbers; SetInduction is the induction they take, with   *)
(* a set where the library's theorem has an operator for a parameter.      *)
(* And that there is a function which takes one step after another.        *)
(***************************************************************************)
EXTENDS Lists, SequencesExt, WellFoundedInduction, SequenceTheorems, TLAPS

\* Induction over a set of numbers.
LEMMA SetInduction ==
  ASSUME NEW T, 0 \in T, \A n \in Nat : n \in T => n + 1 \in T
  PROVE  Nat \subseteq T
<1>. DEFINE U == Nat \ T
<1>. SUFFICES ASSUME U # {} PROVE FALSE
  OBVIOUS
<1>1. PICK n \in U : \A m \in U : ~ (<<m, n>> \in OpToRel(<, Nat))
  BY WFMin, NatLessThanWellFounded
<1>2. n \in Nat /\ n \notin T /\ n # 0
  OBVIOUS
<1>3. n - 1 \in Nat /\ n - 1 < n /\ (n - 1) + 1 = n
  BY <1>2
<1>4. <<n - 1, n>> \in OpToRel(<, Nat)
  BY <1>2, <1>3 DEF OpToRel
<1>5. n - 1 \in T
  BY <1>1, <1>3, <1>4
<1>. QED  BY <1>2, <1>3, <1>5

Upto(f, s, P, n) ==
  f = [k \in 0 .. n |->
         IF k = 0 THEN <<>> ELSE IF k \in P THEN Append(f[k - 1], s[k]) ELSE f[k - 1]]

LEMMA UptoExists ==
  ASSUME NEW s, NEW P
  PROVE  \A n \in Nat : \E f : Upto(f, s, P, n)
<1>. DEFINE T == {n \in Nat : \E f : Upto(f, s, P, n)}
<1>1. 0 \in T
  <2>. DEFINE f == [i \in 0 .. 0 |-> <<>>]
  <2>1. Upto(f, s, P, 0)
    BY DEF Upto
  <2>. QED  BY <2>1
<1>2. ASSUME NEW n \in Nat, n \in T PROVE n + 1 \in T
  <2>1. PICK f : Upto(f, s, P, n)
    BY <1>2
  <2>. DEFINE g == [i \in 0 .. n + 1 |->
                 IF i \in 0 .. n THEN f[i] ELSE IF i \in P THEN Append(f[i - 1], s[i]) ELSE f[i - 1]]
              h == [i \in 0 .. n + 1 |->
                 IF i = 0 THEN <<>> ELSE IF i \in P THEN Append(g[i - 1], s[i]) ELSE g[i - 1]]
  <2>2. ASSUME NEW i \in 0 .. n + 1 PROVE g[i] = h[i]
    <3>1. CASE i = 0
      <4>1. f[0] = <<>>
        BY <2>1 DEF Upto
      <4>. QED  BY <3>1, <4>1
    <3>2. CASE i \in 1 .. n
      <4>1. i \in 0 .. n /\ i - 1 \in 0 .. n /\ i # 0 /\ i - 1 \in 0 .. n + 1
        BY <3>2
      <4>2. f[i] = IF i \in P THEN Append(f[i - 1], s[i]) ELSE f[i - 1]
        BY <2>1, <4>1 DEF Upto
      <4>3. g[i] = f[i] /\ g[i - 1] = f[i - 1]
        BY <4>1
      <4>. HIDE DEF g
      <4>. QED  BY <4>1, <4>2, <4>3
    <3>3. CASE i = n + 1
      <4>1. n \in 0 .. n /\ i - 1 = n /\ i \notin 0 .. n /\ i # 0 /\ n \in 0 .. n + 1
        BY <3>3
      <4>2. g[n] = f[n]
        BY <4>1
      <4>3. g[i] = IF i \in P THEN Append(f[i - 1], s[i]) ELSE f[i - 1]
        BY <4>1
      <4>. HIDE DEF g
      <4>. QED  BY <4>1, <4>2, <4>3
    <3>. QED  BY <3>1, <3>2, <3>3
  <2>3. g = h
    BY <2>2
  <2>4. Upto(g, s, P, n + 1)
    BY <2>3 DEF Upto
  <2>. QED  BY <2>4
<1>. HIDE DEF T
<1>3. Nat \subseteq T
  BY <1>1, <1>2, SetInduction
<1>. QED  BY <1>3 DEF T

LEMMA SublistIs ==
  ASSUME NEW S, NEW s \in Seq(S), NEW P
  PROVE  \E f : Upto(f, s, P, Len(s)) /\ Sublist(s, P) = f[Len(s)]
<1>. DEFINE f == CHOOSE f : Upto(f, s, P, Len(s))
<1>1. Upto(f, s, P, Len(s))
  BY UptoExists
<1>2. Sublist(s, P) = f[Len(s)]
  BY Zenon DEF Sublist, Upto
<1>. QED  BY <1>1, <1>2

\* pos picks the elements of s that q consists of: those at P, up to n.
Picks(q, s, P, n, pos) ==
  /\ pos \in [DOMAIN q -> P \cap 1 .. n]
  /\ \A k \in DOMAIN q : q[k] = s[pos[k]]
  /\ \A j, k \in DOMAIN q : j # k => pos[j] # pos[k]
  /\ \A i \in P \cap 1 .. n : \E k \in DOMAIN q : pos[k] = i

LEMMA SublistPicks ==
  ASSUME NEW S, NEW s \in Seq(S), NEW P
  PROVE  /\ Sublist(s, P) \in Seq(S) /\ Len(Sublist(s, P)) <= Len(s)
         /\ \E pos : Picks(Sublist(s, P), s, P, Len(s), pos)
<1>. DEFINE N == Len(s)
<1>1. PICK f : Upto(f, s, P, N) /\ Sublist(s, P) = f[N]
  BY SublistIs
<1>2. N \in Nat
  OBVIOUS
<1>. DEFINE Right(n) == f[n] \in Seq(S) /\ Len(f[n]) <= n /\ \E pos : Picks(f[n], s, P, n, pos)
            T == {n \in Nat : n <= N => Right(n)}
<1>3. 0 \in T
  <2>1. f[0] = <<>>
    BY <1>1, <1>2 DEF Upto
  <2>2. Picks(<<>>, s, P, 0, <<>>)
    BY DEF Picks
  <2>3. \E pos : Picks(f[0], s, P, 0, pos)
    BY <2>1, <2>2
  <2>4. f[0] \in Seq(S) /\ Len(f[0]) <= 0
    BY <2>1
  <2>. HIDE DEF N
  <2>. QED  BY <2>3, <2>4
<1>4. ASSUME NEW n \in Nat, n \in T, n + 1 <= N PROVE Right(n + 1)
  <2>1. Right(n)
    BY <1>2, <1>4
  <2>. DEFINE q == f[n]
              r == f[n + 1]
  <2>2. PICK pos : Picks(q, s, P, n, pos)
    BY <2>1
  <2>3. r = IF n + 1 \in P THEN Append(q, s[n + 1]) ELSE q
    <3>1. n + 1 \in 0 .. N /\ n + 1 # 0 /\ (n + 1) - 1 = n
      BY <1>2, <1>4
    <3>2. f[n + 1] = IF n + 1 = 0 THEN <<>> ELSE IF n + 1 \in P THEN Append(f[(n + 1) - 1], s[n + 1]) ELSE f[(n + 1) - 1]
      BY <1>1, <3>1 DEF Upto
    <3>. QED  BY <3>1, <3>2
  <2>4. q \in Seq(S) /\ Len(q) <= n /\ Len(q) \in Nat /\ DOMAIN q = 1 .. Len(q)
    BY <2>1
  <2>. HIDE DEF q, r
  <2>5. CASE n + 1 \notin P
    <3>1. P \cap 1 .. n + 1 = P \cap 1 .. n
      BY <2>5
    <3>2. r = q /\ Len(r) <= n + 1
      BY <2>3, <2>4, <2>5
    <3>3. Picks(r, s, P, n + 1, pos)
      BY <2>2, <3>1, <3>2 DEF Picks
    <3>. QED  BY <2>4, <3>2, <3>3 DEF r
  <2>6. CASE n + 1 \in P
    <3>. DEFINE z == Len(q) + 1
                p == [k \in 1 .. z |-> IF k = z THEN n + 1 ELSE pos[k]]
    <3>1. s[n + 1] \in S
      BY <1>2, <1>4
    <3>2. /\ r \in Seq(S) /\ Len(r) = z /\ DOMAIN r = 1 .. z
          /\ r[z] = s[n + 1] /\ \A k \in 1 .. Len(q) : r[k] = q[k]
      BY <2>3, <2>4, <2>6, <3>1
    <3>3. /\ \A k \in 1 .. Len(q) : k \in DOMAIN q /\ p[k] = pos[k] /\ pos[k] \in P \cap 1 .. n /\ k # z
          /\ p[z] = n + 1
      BY <2>2, <2>4 DEF Picks
    <3>4. \A k \in 1 .. z : k \in 1 .. Len(q) \/ k = z
      BY <2>4
    <3>. HIDE DEF p, z
    <3>5. \A k \in 1 .. z : p[k] \in P \cap 1 .. n + 1
      BY <2>4, <2>6, <3>3, <3>4
    <3>6. p \in [1 .. z -> P \cap 1 .. n + 1]
      BY <3>5 DEF p
    <3>7. \A k \in 1 .. z : r[k] = s[p[k]]
      BY <2>2, <2>4, <3>2, <3>3, <3>4 DEF Picks
    <3>8. \A j, k \in 1 .. z : j # k => p[j] # p[k]
      <4>1. \A k \in 1 .. Len(q) : p[k] # n + 1
        BY <3>3
      <4>. QED  BY <2>2, <2>4, <3>3, <3>4, <4>1 DEF Picks
    <3>9. ASSUME NEW i \in P \cap 1 .. n + 1 PROVE \E k \in 1 .. z : p[k] = i
      <4>1. CASE i = n + 1
        BY <2>4, <3>3, <4>1 DEF z
      <4>2. CASE i # n + 1
        <5>1. i \in P \cap 1 .. n
          BY <4>2
        <5>2. PICK k \in DOMAIN q : pos[k] = i
          BY <2>2, <5>1 DEF Picks
        <5>. QED  BY <2>4, <3>3, <5>2 DEF z
      <4>. QED  BY <4>1, <4>2
    <3>10. Picks(r, s, P, n + 1, p)
      BY <3>2, <3>6, <3>7, <3>8, <3>9 DEF Picks
    <3>11. Len(r) <= n + 1
      BY <2>4, <3>2 DEF z
    <3>. QED  BY <3>2, <3>10, <3>11 DEF r
  <2>. QED  BY <2>5, <2>6
<1>5. \A n \in Nat : n \in T => n + 1 \in T
  <2>. HIDE DEF Right
  <2>. QED  BY <1>2, <1>4
<1>. HIDE DEF T
<1>6. N \in T
  BY <1>2, <1>3, <1>5, SetInduction
<1>. QED  BY <1>1, <1>2, <1>6 DEF T

LEMMA SeqIntro ==
  ASSUME NEW S, NEW n \in Nat, NEW f \in [1 .. n -> S]
  PROVE  f \in Seq(S) /\ Len(f) = n /\ DOMAIN f = 1 .. n
OBVIOUS

LEMMA SeqElim ==
  ASSUME NEW S, NEW s \in Seq(S)
  PROVE  Len(s) \in Nat /\ DOMAIN s = 1 .. Len(s) /\ s \in [1 .. Len(s) -> S]
OBVIOUS

LEMMA SeqConcat ==
  ASSUME NEW S, NEW s \in Seq(S), NEW t \in Seq(S)
  PROVE  /\ s \o t \in Seq(S) /\ Len(s \o t) = Len(s) + Len(t)
         /\ DOMAIN (s \o t) = 1 .. Len(s) + Len(t)
         /\ \A k \in 1 .. Len(s) : (s \o t)[k] = s[k]
         /\ \A k \in 1 .. Len(t) : (s \o t)[Len(s) + k] = t[k]
         /\ \A k \in DOMAIN (s \o t) : k \in 1 .. Len(s) \/ \E j \in 1 .. Len(t) : k = Len(s) + j
<1>1. s \o t \in Seq(S) /\ Len(s \o t) = Len(s) + Len(t)
  OBVIOUS
<1>2. DOMAIN (s \o t) = 1 .. Len(s) + Len(t) /\ Len(s) \in Nat /\ Len(t) \in Nat
  BY <1>1
<1>3. ASSUME NEW k \in DOMAIN (s \o t), k \notin 1 .. Len(s)
      PROVE  \E j \in 1 .. Len(t) : k = Len(s) + j
  <2>1. k - Len(s) \in 1 .. Len(t) /\ k = Len(s) + (k - Len(s))
    BY <1>2, <1>3
  <2>. QED  BY <2>1
<1>4. \A k \in 1 .. Len(s) : (s \o t)[k] = s[k]
  OBVIOUS
<1>5. \A k \in 1 .. Len(t) : (s \o t)[Len(s) + k] = t[k]
  OBVIOUS
<1>. QED  BY <1>1, <1>2, <1>3, <1>4, <1>5

LEMMA SeqMonotone ==
  ASSUME NEW S, NEW T, S \subseteq T, NEW s \in Seq(S)
  PROVE  s \in Seq(T)
<1>1. Len(s) \in Nat /\ s \in [1 .. Len(s) -> T]
  OBVIOUS
<1>. QED  BY <1>1, SeqDef

IsSequence(s) == s \in Seq({s[k] : k \in DOMAIN s})

LEMMA OfItsOwn ==
  ASSUME NEW S, NEW s \in Seq(S)
  PROVE  IsSequence(s)
<1>1. Len(s) \in Nat /\ DOMAIN s = 1 .. Len(s) /\ s \in [1 .. Len(s) -> {s[k] : k \in DOMAIN s}]
  OBVIOUS
<1>. QED  BY <1>1, SeqDef DEF IsSequence

\* u is s and then t.
Joined(u, s, t) ==
  /\ DOMAIN u = 1 .. Len(s) + Len(t)
  /\ Len(s) \in Nat /\ DOMAIN s = 1 .. Len(s) /\ Len(t) \in Nat /\ DOMAIN t = 1 .. Len(t)
  /\ \A k \in 1 .. Len(s) : u[k] = s[k]
  /\ \A k \in 1 .. Len(t) : u[Len(s) + k] = t[k]
  /\ \A k \in DOMAIN u : k \in 1 .. Len(s) \/ \E j \in 1 .. Len(t) : k = Len(s) + j

LEMMA OwnConcat ==
  ASSUME NEW s, NEW t, IsSequence(s), IsSequence(t), NEW u, u = s \o t
  PROVE  IsSequence(u) /\ Joined(u, s, t)
<1>. DEFINE S == {s[k] : k \in DOMAIN s}
            T == {t[k] : k \in DOMAIN t}
<1>1. S \subseteq S \cup T /\ T \subseteq S \cup T /\ s \in Seq(S) /\ t \in Seq(T)
  BY DEF IsSequence
<1>. HIDE DEF S, T
<1>2. s \in Seq(S \cup T) /\ t \in Seq(S \cup T)
  BY <1>1, SeqMonotone
<1>3. PICK U : U = S \cup T
  OBVIOUS
<1>4. s \in Seq(U) /\ t \in Seq(U)
  BY <1>2, <1>3
<1>5. u \in Seq(U)
  BY <1>4, SeqConcat
<1>6. IsSequence(u)
  BY <1>5, OfItsOwn
<1>. QED  BY <1>4, <1>6, SeqConcat, SeqElim DEF Joined

\* FlattenSeq, up to n.
Flat(f, s, n) ==
  f = [k \in 1 .. n |-> IF k = 1 THEN s[k] ELSE f[k - 1] \o s[k]]

LEMMA FlatExists ==
  ASSUME NEW s
  PROVE  \A n \in Nat : \E f : Flat(f, s, n)
<1>. DEFINE T == {n \in Nat : \E f : Flat(f, s, n)}
<1>1. 0 \in T
  <2>. DEFINE f == [k \in 1 .. 0 |-> s[k]]
  <2>1. f = [k \in 1 .. 0 |-> IF k = 1 THEN s[k] ELSE f[k - 1] \o s[k]]
    <3>. DEFINE g == [k \in 1 .. 0 |-> IF k = 1 THEN s[k] ELSE f[k - 1] \o s[k]]
    <3>1. \A k \in 1 .. 0 : f[k] = g[k]
      OBVIOUS
    <3>. QED  BY <3>1
  <2>2. Flat(f, s, 0)
    BY <2>1 DEF Flat
  <2>. QED  BY <2>2
<1>2. ASSUME NEW n \in Nat, n \in T PROVE n + 1 \in T
  <2>1. PICK f : Flat(f, s, n)
    BY <1>2
  <2>. DEFINE g == [k \in 1 .. n + 1 |->
                 IF k \in 1 .. n THEN f[k] ELSE IF k = 1 THEN s[k] ELSE f[k - 1] \o s[k]]
              h == [k \in 1 .. n + 1 |-> IF k = 1 THEN s[k] ELSE g[k - 1] \o s[k]]
  <2>2. ASSUME NEW k \in 1 .. n + 1 PROVE g[k] = h[k]
    <3>1. CASE k = 1 /\ k \in 1 .. n
      <4>1. f[1] = s[1]
        BY <2>1, <3>1 DEF Flat
      <4>. QED  BY <3>1, <4>1
    <3>2. CASE k \in 2 .. n
      <4>1. k \in 1 .. n /\ k - 1 \in 1 .. n /\ k # 1 /\ k - 1 \in 1 .. n + 1
        BY <3>2
      <4>2. f[k] = f[k - 1] \o s[k]
        BY <2>1, <4>1 DEF Flat
      <4>3. g[k] = f[k] /\ g[k - 1] = f[k - 1]
        BY <4>1
      <4>. HIDE DEF g
      <4>. QED  BY <4>1, <4>2, <4>3
    <3>3. CASE k = n + 1 /\ k # 1
      <4>1. n \in 1 .. n /\ k - 1 = n /\ k \notin 1 .. n /\ n \in 1 .. n + 1
        BY <3>3
      <4>2. g[n] = f[n]
        BY <4>1
      <4>3. g[k] = f[k - 1] \o s[k]
        BY <3>3, <4>1
      <4>. HIDE DEF g
      <4>. QED  BY <3>3, <4>1, <4>2, <4>3
    <3>4. CASE k = 1 /\ k \notin 1 .. n
      BY <3>4
    <3>. QED  BY <3>1, <3>2, <3>3, <3>4
  <2>3. g = h
    BY <2>2
  <2>4. Flat(g, s, n + 1)
    BY <2>3 DEF Flat
  <2>. QED  BY <2>4
<1>. HIDE DEF T
<1>3. Nat \subseteq T
  BY <1>1, <1>2, SetInduction
<1>. QED  BY <1>3 DEF T

LEMMA FlattenIs ==
  ASSUME NEW s, Len(s) \in Nat, Len(s) # 0
  PROVE  \E f : Flat(f, s, Len(s)) /\ FlattenSeq(s) = f[Len(s)]
<1>. DEFINE f == CHOOSE f : Flat(f, s, Len(s))
<1>1. Flat(f, s, Len(s))
  BY FlatExists
<1>2. FlattenSeq(s) = f[Len(s)]
  BY Zenon DEF FlattenSeq, Flat
<1>. QED  BY <1>1, <1>2

\* u holds what is in the first n lists of s, and nothing else.
Holds(u, s, n) ==
  /\ \A k \in 1 .. n : \A i \in DOMAIN s[k] : \E p \in DOMAIN u : u[p] = s[k][i]
  /\ \A p \in DOMAIN u : \E k \in 1 .. n : \E i \in DOMAIN s[k] : u[p] = s[k][i]

LEMMA FlattenHolds ==
  ASSUME NEW S, NEW s \in Seq(Seq(S))
  PROVE  FlattenSeq(s) \in Seq(S) /\ Holds(FlattenSeq(s), s, Len(s))
<1>1. /\ Len(s) \in Nat /\ \A k \in 1 .. Len(s) : s[k] \in Seq(S)
  OBVIOUS
<1>2. CASE Len(s) = 0
  <2>1. s = <<>>
    BY <1>2
  <2>2. FlattenSeq(s) = <<>>
    BY <1>2, <2>1 DEF FlattenSeq
  <2>. QED  BY <1>2, <2>2 DEF Holds
<1>3. CASE Len(s) # 0
  <2>1. PICK f : Flat(f, s, Len(s)) /\ FlattenSeq(s) = f[Len(s)]
    BY <1>1, <1>3, FlattenIs
  <2>2. PICK N \in Nat : N = Len(s)
    BY <1>1
  <2>. DEFINE Right(n) == f[n] \in Seq(S) /\ Holds(f[n], s, n)
              T == {n \in Nat : n \in 1 .. N => Right(n)}
  <2>3. 0 \in T
    OBVIOUS
  <2>4. ASSUME NEW n \in Nat, n \in T, n + 1 \in 1 .. N PROVE Right(n + 1)
    <3>1. CASE n = 0
      <4>1. f[1] = s[1] /\ s[1] \in Seq(S)
        BY <1>1, <2>1, <2>2, <2>4, <3>1 DEF Flat
      <4>2. Holds(s[1], s, 1)
        BY DEF Holds
      <4>. QED  BY <3>1, <4>1, <4>2
    <3>2. CASE n # 0
      <4>1. n \in 1 .. N /\ n + 1 # 1 /\ (n + 1) - 1 = n
        BY <2>2, <2>4, <3>2
      <4>2. Right(n)
        BY <2>4, <4>1
      <4>3. f[n + 1] = f[n] \o s[n + 1]
        BY <2>1, <2>2, <2>4, <4>1 DEF Flat
      <4>4. PICK u \in Seq(S) : u = f[n]
        BY <4>2
      <4>5. PICK v \in Seq(S) : v = s[n + 1]
        BY <1>1, <2>2, <2>4
      <4>6. Holds(u, s, n)
        BY <4>2, <4>4
      <4>7. u \o v \in Seq(S) /\ Joined(u \o v, u, v)
        <5>1. IsSequence(u) /\ IsSequence(v) /\ u \o v \in Seq(S)
          BY <4>4, <4>5, OfItsOwn, SeqConcat
        <5>2. PICK x : x = u \o v
          OBVIOUS
        <5>3. Joined(x, u, v)
          BY <5>1, <5>2, OwnConcat
        <5>. QED  BY <5>1, <5>2, <5>3
      <4>8. PICK w : w = u \o v
        OBVIOUS
      <4>9. ASSUME NEW k \in 1 .. n + 1, NEW i \in DOMAIN s[k] PROVE \E p \in DOMAIN w : w[p] = s[k][i]
        <5>1. CASE k \in 1 .. n
          <6>1. PICK p \in DOMAIN u : u[p] = s[k][i]
            BY <4>6, <4>9, <5>1 DEF Holds
          <6>2. p \in DOMAIN w /\ w[p] = u[p]
            BY <4>7, <4>8, <6>1 DEF Joined
          <6>. QED  BY <6>1, <6>2
        <5>2. CASE k = n + 1
          <6>1. i \in DOMAIN v /\ v[i] = s[k][i]
            BY <4>5, <4>9, <5>2
          <6>2. Len(u) + i \in DOMAIN w /\ w[Len(u) + i] = v[i]
            BY <4>7, <4>8, <6>1 DEF Joined
          <6>. QED  BY <6>1, <6>2
        <5>. QED  BY <5>1, <5>2
      <4>10. ASSUME NEW p \in DOMAIN w PROVE \E k \in 1 .. n + 1 : \E i \in DOMAIN s[k] : w[p] = s[k][i]
        <5>1. CASE p \in 1 .. Len(u)
          <6>1. w[p] = u[p] /\ p \in DOMAIN u
            BY <4>7, <4>8, <5>1 DEF Joined
          <6>2. PICK k \in 1 .. n : \E i \in DOMAIN s[k] : u[p] = s[k][i]
            BY <4>6, <6>1 DEF Holds
          <6>3. k \in 1 .. n + 1
            BY <6>2
          <6>. QED  BY <6>1, <6>2, <6>3
        <5>2. CASE \E j \in 1 .. Len(v) : p = Len(u) + j
          <6>1. PICK j \in 1 .. Len(v) : p = Len(u) + j
            BY <5>2
          <6>2. w[p] = v[j] /\ j \in DOMAIN v /\ v = s[n + 1] /\ n + 1 \in 1 .. n + 1
            BY <4>5, <4>7, <4>8, <6>1 DEF Joined
          <6>. QED  BY <6>2
        <5>3. p \in 1 .. Len(u) \/ \E j \in 1 .. Len(v) : p = Len(u) + j
          BY <4>7, <4>8, <4>10 DEF Joined
        <5>. QED  BY <5>1, <5>2, <5>3
      <4>11. Holds(w, s, n + 1)
        BY <4>9, <4>10 DEF Holds
      <4>12. f[n + 1] = w /\ w \in Seq(S)
        BY <4>3, <4>4, <4>5, <4>7, <4>8
      <4>. QED  BY <4>11, <4>12
    <3>. QED  BY <3>1, <3>2
  <2>5. ASSUME NEW n \in Nat, n \in T PROVE n + 1 \in T
    BY <2>4, <2>5
  <2>. HIDE DEF T
  <2>6. Nat \subseteq T
    BY <2>3, <2>5, SetInduction
  <2>7. N \in 1 .. N
    BY <1>3, <2>2
  <2>8. Right(N)
    BY <2>2, <2>6, <2>7 DEF T
  <2>. QED  BY <2>1, <2>2, <2>8
<1>. QED  BY <1>2, <1>3

LEMMA FlattenOne ==
  ASSUME NEW s, DOMAIN s = {1}, Len(s) = 1
  PROVE  FlattenSeq(s) = s[1]
<1>1. PICK f : Flat(f, s, 1) /\ FlattenSeq(s) = f[1]
  BY FlattenIs
<1>2. f[1] = s[1]
  BY <1>1 DEF Flat
<1>. QED  BY <1>1, <1>2

LEMMA ListOf ==
  ASSUME NEW n \in Nat, NEW f, f = [k \in 1 .. n |-> f[k]]
  PROVE  IsSequence(f) /\ Len(f) = n /\ DOMAIN f = 1 .. n
<1>. DEFINE S == {f[k] : k \in 1 .. n}
<1>1. f \in [1 .. n -> S]
  OBVIOUS
<1>. HIDE DEF S
<1>2. f \in Seq(S) /\ Len(f) = n /\ DOMAIN f = 1 .. n
  BY <1>1, SeqIntro
<1>. QED  BY <1>2, OfItsOwn

LEMMA FlattenLists ==
  ASSUME NEW s, IsSequence(s), \A k \in DOMAIN s : IsSequence(s[k])
  PROVE  IsSequence(FlattenSeq(s)) /\ Holds(FlattenSeq(s), s, Len(s))
<1>. DEFINE S == UNION {{s[k][i] : i \in DOMAIN s[k]} : k \in DOMAIN s}
<1>1. Len(s) \in Nat /\ DOMAIN s = 1 .. Len(s) /\ s = [k \in 1 .. Len(s) |-> s[k]]
  BY DEF IsSequence
<1>2. ASSUME NEW k \in DOMAIN s PROVE s[k] \in Seq(S)
  <2>. DEFINE T == {s[k][i] : i \in DOMAIN s[k]}
  <2>1. s[k] \in Seq(T)
    BY <1>2 DEF IsSequence
  <2>2. T \subseteq S
    BY <1>2
  <2>. HIDE DEF S, T
  <2>. QED  BY <2>1, <2>2, SeqMonotone
<1>. HIDE DEF S
<1>3. s \in [1 .. Len(s) -> Seq(S)]
  BY <1>1, <1>2
<1>4. s \in Seq(Seq(S))
  BY <1>1, <1>3, SeqIntro
<1>5. FlattenSeq(s) \in Seq(S) /\ Holds(FlattenSeq(s), s, Len(s))
  BY <1>4, FlattenHolds
<1>. QED  BY <1>5, OfItsOwn

-----------------------------------------------------------------------------
(* A function over the numbers in which a value follows from the one       *)
(* before exists.                                                          *)

\* The first values, up to n.
FirstSteps(f, s0, step, n) == f[0] = s0 /\ \A k \in 1 .. n : f[k] = step[f[k - 1]]

LEMMA FirstStepsExist ==
  ASSUME NEW S, NEW s0 \in S, NEW step \in [S -> S]
  PROVE  \A n \in Nat : \E f \in [0 .. n -> S] : FirstSteps(f, s0, step, n)
<1>. DEFINE T == {n \in Nat : \E f \in [0 .. n -> S] : FirstSteps(f, s0, step, n)}
<1>1. 0 \in T
  <2>. DEFINE f == [i \in 0 .. 0 |-> s0]
  <2>1. f \in [0 .. 0 -> S] /\ FirstSteps(f, s0, step, 0)
    BY DEF FirstSteps
  <2>. QED  BY <2>1
<1>2. ASSUME NEW n \in Nat, n \in T PROVE n + 1 \in T
  <2>1. PICK f \in [0 .. n -> S] : FirstSteps(f, s0, step, n)
    BY <1>2
  <2>. DEFINE g == [i \in 0 .. n + 1 |-> IF i = n + 1 THEN step[f[n]] ELSE f[i]]
  <2>2. g \in [0 .. n + 1 -> S]
    <3>1. f[n] \in S /\ step[f[n]] \in S
      OBVIOUS
    <3>2. ASSUME NEW i \in 0 .. n + 1 PROVE g[i] \in S
      BY <3>1
    <3>. QED  BY <3>2
  <2>3. g[0] = s0 /\ \A k \in 1 .. n + 1 : g[k] = step[g[k - 1]]
    <3>1. g[0] = s0
      BY <2>1 DEF FirstSteps
    <3>2. ASSUME NEW k \in 1 .. n + 1 PROVE g[k] = step[g[k - 1]]
      <4>1. k - 1 \in 0 .. n /\ g[k - 1] = f[k - 1]
        OBVIOUS
      <4>2. CASE k = n + 1
        BY <4>1, <4>2
      <4>3. CASE k \in 1 .. n
        <5>1. g[k] = f[k] /\ f[k] = step[f[k - 1]]
          BY <2>1, <4>3 DEF FirstSteps
        <5>. QED  BY <4>1, <5>1
      <4>. QED  BY <4>2, <4>3
    <3>. QED  BY <3>1, <3>2
  <2>. HIDE DEF g
  <2>4. FirstSteps(g, s0, step, n + 1)
    BY <2>3 DEF FirstSteps
  <2>. QED  BY <2>2, <2>4
<1>. HIDE DEF T
<1>3. Nat \subseteq T
  BY <1>1, <1>2, SetInduction
<1>. QED  BY <1>3 DEF T

LEMMA FirstStepsAgree ==
  ASSUME NEW s0, NEW step, NEW n \in Nat, NEW f, FirstSteps(f, s0, step, n), NEW g, FirstSteps(g, s0, step, n + 1)
  PROVE  f[n] = g[n]
<1>. DEFINE T == {k \in Nat : k <= n => f[k] = g[k]}
<1>1. 0 \in T
  BY DEF FirstSteps
<1>2. ASSUME NEW k \in Nat, k \in T PROVE k + 1 \in T
  <2>. SUFFICES ASSUME k + 1 <= n PROVE f[k + 1] = g[k + 1]
    OBVIOUS
  <2>1. k + 1 \in 1 .. n /\ k + 1 \in 1 .. n + 1 /\ (k + 1) - 1 = k
    OBVIOUS
  <2>2. f[k + 1] = step[f[(k + 1) - 1]] /\ g[k + 1] = step[g[(k + 1) - 1]]
    BY <2>1 DEF FirstSteps
  <2>3. f[k] = g[k]
    BY <1>2
  <2>. QED  BY <2>1, <2>2, <2>3
<1>. HIDE DEF T
<1>3. Nat \subseteq T
  BY <1>1, <1>2, SetInduction
<1>. QED  BY <1>3 DEF T

LEMMA StepsExist ==
  ASSUME NEW S, NEW s0 \in S, NEW step \in [S -> S]
  PROVE  \E f \in [Nat -> S] : f[0] = s0 /\ \A k \in Nat \ {0} : f[k] = step[f[k - 1]]
<1>. DEFINE first(n) == CHOOSE f \in [0 .. n -> S] : FirstSteps(f, s0, step, n)
            f        == [n \in Nat |-> first(n)[n]]
<1>1. \A n \in Nat : first(n) \in [0 .. n -> S] /\ FirstSteps(first(n), s0, step, n)
  BY FirstStepsExist
<1>. HIDE DEF first
<1>2. \A n \in Nat : first(n)[n] \in S
  BY <1>1
<1>3. f \in [Nat -> S]
  BY <1>2
<1>4. f[0] = s0
  BY <1>1 DEF FirstSteps
<1>5. ASSUME NEW k \in Nat \ {0} PROVE f[k] = step[f[k - 1]]
  <2>1. k - 1 \in Nat /\ (k - 1) + 1 = k /\ k \in 1 .. k
    OBVIOUS
  <2>2. first(k)[k] = step[first(k)[k - 1]]
    BY <1>1, <2>1 DEF FirstSteps
  <2>3. first(k - 1)[k - 1] = first(k)[k - 1]
    <3>1. PICK g, h : g = first(k - 1) /\ h = first(k)
      OBVIOUS
    <3>2. FirstSteps(g, s0, step, k - 1) /\ FirstSteps(h, s0, step, (k - 1) + 1)
      BY <1>1, <2>1, <3>1
    <3>. QED  BY <2>1, <3>1, <3>2, FirstStepsAgree
  <2>. QED  BY <2>1, <2>2, <2>3
<1>. QED  BY <1>3, <1>4, <1>5
=============================================================================
