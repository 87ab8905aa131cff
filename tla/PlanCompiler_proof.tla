-------------------------- MODULE PlanCompiler_proof --------------------------
(* Theorems about PlanCompiler, for any agents, actions and bounds: the    *)
(* plans it builds are chains whose carried steps come first, the executor *)
(* walks them from end to end, and a gate comes before its action.  And    *)
(* about DecisionContext, for any run: what is packed for a decision.      *)
(*                                                                         *)
(* The recursive functions of the models (Picked, FlattenSeq, Walk, the    *)
(* rounds of Cyclic, Pack, FactSize) are each shown to exist (Recursion)   *)
(* and then followed by induction over a set of numbers (UpTo).            *)
EXTENDS PlanCompiler, DecisionContext, FiniteSetTheorems, SequenceTheorems,
        WellFoundedInduction, TLAPS

-----------------------------------------------------------------------------
(* Induction and recursion *)

(* Induction: a set of numbers has a smallest one.                         *)
LEMMA SmallestExists ==
  ASSUME NEW T, T \subseteq Nat, T # {}
  PROVE  \E x \in T : \A y \in T : x <= y
<1> DEFINE R == {ss \in Nat \X Nat : ss[1] < ss[2]}
<1>1. IsWellFoundedOn(R, Nat)
  BY NatLessThanWellFounded DEF OpToRel
<1>2. \E x \in T : \A y \in T : <<y, x>> \notin R
  <2> HIDE DEF R
  <2>1. QED
    BY <1>1, WFMin
<1>3. PICK x \in T : \A y \in T : <<y, x>> \notin R
  BY <1>2
<1>4. ASSUME NEW y \in T PROVE x <= y
  <2>1. x \in Nat /\ y \in Nat /\ ~(y < x)
    BY <1>3
  <2>2. QED
    BY <2>1
<1>5. QED
  BY <1>4

(* Induction over the numbers up to N, for a set of them.                  *)
LEMMA UpTo ==
  ASSUME NEW N \in Nat, NEW T, 0 \in T, \A n \in 1 .. N : n - 1 \in T => n \in T
  PROVE  0 .. N \subseteq T
<1> DEFINE U == (0 .. N) \ T
<1>1. SUFFICES ASSUME U # {} PROVE FALSE
  OBVIOUS
<1>2. PICK x \in U : \A y \in U : x <= y
  <2>1. U \subseteq Nat
    OBVIOUS
  <2> HIDE DEF U
  <2>2. QED
    BY <1>1, <2>1, SmallestExists
<1>3. x \in 1 .. N /\ x - 1 \notin U /\ x - 1 \in 0 .. N
  BY <1>2
<1>4. QED
  BY <1>2, <1>3

(* f follows the recursion from b by h up to k.                            *)
Follows(f, b, h, k, S) ==
  f \in [0 .. k -> S] /\ f[0] = b /\ \A n \in 1 .. k : f[n] = h[<<n, f[n - 1]>>]

(* A function can be defined by recursion over the numbers up to N.        *)
LEMMA Recursion ==
  ASSUME NEW N \in Nat, NEW S, NEW b \in S, NEW h \in [(1 .. N) \X S -> S]
  PROVE  \E f : Follows(f, b, h, N, S)
<1> DEFINE P(k) == \E f : Follows(f, b, h, k, S)
           T == {k \in 0 .. N : P(k)}
<1>1. P(0)
  <2>1. Follows([n \in 0 .. 0 |-> b], b, h, 0, S)
    BY DEF Follows
  <2>2. QED
    BY <2>1
<1>2. ASSUME NEW k \in 1 .. N, P(k - 1) PROVE P(k)
  <2>1. PICK f : Follows(f, b, h, k - 1, S)
    BY <1>2
  <2>2. PICK e : e = h[<<k, f[k - 1]>>]
    OBVIOUS
  <2>3. k \in Nat \ {0} /\ k - 1 \in 0 .. k - 1 /\ 0 \in 0 .. k - 1 /\ f[k - 1] \in S
    BY <2>1 DEF Follows
  <2>4. <<k, f[k - 1]>> \in (1 .. N) \X S
    BY <2>3
  <2>5. e \in S
    BY <2>2, <2>4
  <2>6. PICK g : g = [n \in 0 .. k |-> IF n = k THEN e ELSE f[n]]
    OBVIOUS
  <2>7. g[k] = e /\ \A n \in 0 .. k - 1 : g[n] = f[n]
    BY <2>3, <2>6
  <2>8. g \in [0 .. k -> S]
    BY <2>1, <2>5, <2>6 DEF Follows
  <2>9. ASSUME NEW n \in 1 .. k PROVE g[n] = h[<<n, g[n - 1]>>]
    <3>1. n - 1 \in 0 .. k - 1 /\ g[n - 1] = f[n - 1]
      BY <2>3, <2>7
    <3>2. CASE n = k
      BY <2>2, <2>7, <3>1, <3>2
    <3>3. CASE n # k
      <4>1. n \in 1 .. k - 1 /\ n \in 0 .. k - 1
        BY <2>3, <3>3
      <4>2. f[n] = h[<<n, f[n - 1]>>]
        BY <2>1, <4>1 DEF Follows
      <4>3. g[n] = f[n]
        BY <2>7, <4>1
      <4>4. QED
        BY <3>1, <4>2, <4>3
    <3>4. QED
      BY <3>2, <3>3
  <2>10. g[0] = b
    BY <2>1, <2>3, <2>7 DEF Follows
  <2>11. QED
    BY <2>8, <2>9, <2>10 DEF Follows
<1> HIDE DEF P
<1>3. 0 .. N \subseteq T
  <2>1. 0 \in T
    BY <1>1
  <2>2. \A n \in 1 .. N : n - 1 \in T => n \in T
    BY <1>2
  <2> HIDE DEF T
  <2>3. QED
    BY <2>1, <2>2, UpTo
<1>4. P(N)
  BY <1>3
<1>5. QED
  BY <1>4 DEF P

-----------------------------------------------------------------------------
(* Sequences *)

(* u is what is picked of the first n elements of s, q the places it has   *)
(* been picked from.                                                       *)
PickedUpTo(s, I, n, u, q) ==
  /\ q \in [DOMAIN u -> I \cap (1 .. n)]
  /\ \A k \in DOMAIN u : u[k] = s[q[k]]
  /\ \A k, l \in DOMAIN u : k < l => q[k] < q[l]
  /\ \A i \in I \cap (1 .. n) : \E k \in DOMAIN u : q[k] = i

LEMMA PickNext ==
  ASSUME NEW S, NEW s \in Seq(S), NEW I, NEW n \in I, n \in DOMAIN s,
         NEW u \in Seq(S), NEW q, PickedUpTo(s, I, n - 1, u, q)
  PROVE  \E r : PickedUpTo(s, I, n, Append(u, s[n]), r)
<1> DEFINE L == Len(u)
           v == Append(u, s[n])
           r == [k \in 1 .. L + 1 |-> IF k = L + 1 THEN n ELSE q[k]]
<1>1. L \in Nat /\ DOMAIN u = 1 .. L /\ n \in Nat \ {0} /\ s[n] \in S
  OBVIOUS
<1>2. DOMAIN v = 1 .. L + 1 /\ v[L + 1] = s[n] /\ \A k \in 1 .. L : v[k] = u[k]
  BY <1>1
<1> HIDE DEF L, v
<1>3. \A k \in 1 .. L : q[k] \in I /\ q[k] \in 1 .. n - 1
  BY <1>1 DEF PickedUpTo
<1>4. r[L + 1] = n /\ DOMAIN r = 1 .. L + 1 /\ \A k \in 1 .. L : r[k] = q[k]
  BY <1>1
<1>5. r = [k \in 1 .. L + 1 |-> r[k]]
  OBVIOUS
<1> HIDE DEF r
<1>6. \A k \in 1 .. L + 1 : k = L + 1 \/ k \in 1 .. L
  BY <1>1
<1>7. \A k \in 1 .. L + 1 : r[k] \in I \cap (1 .. n)
  BY <1>1, <1>3, <1>4, <1>6
<1>8. r \in [DOMAIN v -> I \cap (1 .. n)]
  BY <1>2, <1>5, <1>7
<1>9. \A k \in DOMAIN v : v[k] = s[r[k]]
  BY <1>1, <1>2, <1>4, <1>6 DEF PickedUpTo
<1>10. \A k, l \in DOMAIN v : k < l => r[k] < r[l]
  <2>1. ASSUME NEW k \in 1 .. L + 1, NEW l \in 1 .. L + 1, k < l PROVE r[k] < r[l]
    <3>1. k \in 1 .. L /\ r[k] = q[k]
      BY <1>1, <1>4, <2>1
    <3>2. CASE l = L + 1
      BY <1>1, <1>3, <1>4, <3>1, <3>2
    <3>3. CASE l \in 1 .. L
      BY <1>1, <1>4, <2>1, <3>1, <3>3 DEF PickedUpTo
    <3>4. QED
      BY <1>6, <3>2, <3>3
  <2>2. QED
    BY <1>2, <2>1
<1>11. ASSUME NEW i \in I \cap (1 .. n) PROVE \E k \in DOMAIN v : r[k] = i
  <2>1. CASE i = n
    BY <1>1, <1>2, <1>4, <2>1
  <2>2. CASE i # n
    <3>1. i \in I \cap (1 .. n - 1)
      BY <1>1, <2>2
    <3>2. PICK k \in 1 .. L : q[k] = i
      BY <1>1, <3>1 DEF PickedUpTo
    <3>3. k \in 1 .. L + 1
      BY <1>1
    <3>4. QED
      BY <1>2, <1>4, <3>2, <3>3
  <2>3. QED
    BY <2>1, <2>2
<1>12. QED
  BY <1>8, <1>9, <1>10, <1>11 DEF PickedUpTo, v

LEMMA PickStep ==
  ASSUME NEW S, NEW s \in Seq(S), NEW I, NEW n \in DOMAIN s, NEW u \in Seq(S), NEW v,
         v = IF n \in I THEN Append(u, s[n]) ELSE u,
         NEW q, PickedUpTo(s, I, n - 1, u, q)
  PROVE  v \in Seq(S) /\ \E r : PickedUpTo(s, I, n, v, r)
<1>1. n \in Nat \ {0} /\ s[n] \in S
  OBVIOUS
<1>2. CASE n \in I
  <2>1. v = Append(u, s[n])
    BY <1>2
  <2>2. \E r : PickedUpTo(s, I, n, Append(u, s[n]), r)
    BY <1>2, PickNext
  <2>3. Append(u, s[n]) \in Seq(S)
    BY <1>1
  <2>4. QED
    BY <2>1, <2>2, <2>3
<1>3. CASE n \notin I
  <2>1. v = u
    BY <1>3
  <2>2. I \cap (1 .. n) = I \cap (1 .. n - 1)
    BY <1>1, <1>3
  <2>3. PickedUpTo(s, I, n, u, q)
    BY <2>2 DEF PickedUpTo
  <2>4. QED
    BY <2>1, <2>3
<1>4. QED
  BY <1>2, <1>3

LEMMA PickedByRecursion ==
  ASSUME NEW S, NEW s \in Seq(S), NEW I, NEW N \in Nat, DOMAIN s = 1 .. N,
         NEW f, f[0] = <<>>,
         \A n \in 1 .. N : f[n] = IF n \in I THEN Append(f[n - 1], s[n]) ELSE f[n - 1]
  PROVE  f[N] \in Seq(S) /\ \E q : PickedUpTo(s, I, N, f[N], q)
<1> DEFINE P(n) == f[n] \in Seq(S) /\ \E q : PickedUpTo(s, I, n, f[n], q)
           T == {n \in 0 .. N : P(n)}
<1>1. P(0)
  <2>1. PickedUpTo(s, I, 0, <<>>, [k \in {} |-> 0])
    BY DEF PickedUpTo
  <2>2. f[0] \in Seq(S)
    OBVIOUS
  <2>3. \E q : PickedUpTo(s, I, 0, f[0], q)
    BY <2>1
  <2>4. QED
    BY <2>2, <2>3
<1>2. ASSUME NEW n \in 1 .. N, P(n - 1) PROVE P(n)
  <2>1. n \in DOMAIN s /\ f[n - 1] \in Seq(S)
    BY <1>2
  <2>2. PICK q : PickedUpTo(s, I, n - 1, f[n - 1], q)
    BY <1>2
  <2>3. f[n] = IF n \in I THEN Append(f[n - 1], s[n]) ELSE f[n - 1]
    OBVIOUS
  <2>4. PICK u, v : u = f[n - 1] /\ v = f[n]
    OBVIOUS
  <2>5. u \in Seq(S) /\ v = IF n \in I THEN Append(u, s[n]) ELSE u
    BY <2>1, <2>3, <2>4
  <2>6. PickedUpTo(s, I, n - 1, u, q)
    BY <2>2, <2>4
  <2>7. v \in Seq(S) /\ \E r : PickedUpTo(s, I, n, v, r)
    BY <2>1, <2>5, <2>6, PickStep
  <2>8. QED
    BY <2>4, <2>7
<1> HIDE DEF P
<1>3. 0 .. N \subseteq T
  <2>1. 0 \in T
    BY <1>1
  <2>2. \A n \in 1 .. N : n - 1 \in T => n \in T
    BY <1>2
  <2> HIDE DEF T
  <2>3. QED
    BY <2>1, <2>2, UpTo
<1>4. P(N)
  BY <1>3
<1>5. QED
  BY <1>4 DEF P

(* The recursion that Picked is defined by, which has a solution.          *)
IsPicking(f, s, I, N) ==
  f = [n \in 0 .. N |-> IF n = 0 THEN <<>>
                        ELSE IF n \in I THEN Append(f[n - 1], s[n]) ELSE f[n - 1]]

LEMMA PickExists ==
  ASSUME NEW S, NEW s \in Seq(S), NEW I, NEW N \in Nat, DOMAIN s = 1 .. N
  PROVE  \E f : IsPicking(f, s, I, N)
<1> DEFINE h == [x \in (1 .. N) \X Seq(S) |->
                   IF x[1] \in I THEN Append(x[2], s[x[1]]) ELSE x[2]]
<1>1. <<>> \in Seq(S) /\ h \in [(1 .. N) \X Seq(S) -> Seq(S)]
  OBVIOUS
<1>2. \A n \in 1 .. N, u \in Seq(S) :
        h[<<n, u>>] = IF n \in I THEN Append(u, s[n]) ELSE u
  OBVIOUS
<1> HIDE DEF h
<1>3. PICK T : T = Seq(S)
  OBVIOUS
<1>4. \E f : Follows(f, <<>>, h, N, T)
  BY <1>1, <1>3, Recursion
<1>5. PICK f \in [0 .. N -> Seq(S)] : f[0] = <<>> /\ \A n \in 1 .. N : f[n] = h[<<n, f[n - 1]>>]
  BY <1>3, <1>4 DEF Follows
<1>6. ASSUME NEW n \in 0 .. N
      PROVE  f[n] = IF n = 0 THEN <<>>
                    ELSE IF n \in I THEN Append(f[n - 1], s[n]) ELSE f[n - 1]
  <2>1. CASE n = 0
    BY <1>5, <2>1
  <2>2. CASE n # 0
    <3>1. n \in 1 .. N /\ n - 1 \in 0 .. N
      BY <2>2
    <3>2. f[n - 1] \in Seq(S) /\ f[n] = h[<<n, f[n - 1]>>]
      BY <1>5, <3>1
    <3>3. QED
      BY <1>2, <2>2, <3>1, <3>2
  <2>3. QED
    BY <2>1, <2>2
<1>7. f = [n \in 0 .. N |-> f[n]]
  OBVIOUS
<1>8. [n \in 0 .. N |-> f[n]] = [n \in 0 .. N |-> IF n = 0 THEN <<>>
         ELSE IF n \in I THEN Append(f[n - 1], s[n]) ELSE f[n - 1]]
  BY <1>6, Zenon
<1>9. IsPicking(f, s, I, N)
  BY <1>7, <1>8, Zenon DEF IsPicking
<1>10. QED
  BY <1>9

(* w is what is picked of s, from the places I in their order.             *)
IsPicked(w, s, I) ==
  \E q : /\ q \in [DOMAIN w -> I]
         /\ \A k \in DOMAIN w : w[k] = s[q[k]]
         /\ \A k, l \in DOMAIN w : k < l => q[k] < q[l]
         /\ \A i \in I : \E k \in DOMAIN w : q[k] = i

LEMMA PickedIs ==
  ASSUME NEW S, NEW s \in Seq(S), NEW I, I \subseteq DOMAIN s
  PROVE  Picked(s, I) \in Seq(S) /\ IsPicked(Picked(s, I), s, I)
<1> DEFINE upTo[n \in 0 .. Len(s)] ==
             IF n = 0 THEN <<>>
             ELSE IF n \in I THEN Append(upTo[n - 1], s[n]) ELSE upTo[n - 1]
<1>1. Len(s) \in Nat /\ DOMAIN s = 1 .. Len(s)
  OBVIOUS
<1>2. \E f : IsPicking(f, s, I, Len(s))
  <2>1. PICK N : N = Len(s)
    OBVIOUS
  <2>2. N \in Nat /\ DOMAIN s = 1 .. N
    BY <1>1, <2>1
  <2>3. \E f : IsPicking(f, s, I, N)
    BY <2>2, PickExists
  <2>4. QED
    BY <2>1, <2>3
<1>3. IsPicking(upTo, s, I, Len(s))
  BY <1>2 DEF IsPicking
<1>4. Picked(s, I) = upTo[Len(s)]
  BY DEF Picked, upTo
<1> HIDE DEF upTo
<1>5. upTo[0] = <<>> /\ \A n \in 1 .. Len(s) :
        upTo[n] = IF n \in I THEN Append(upTo[n - 1], s[n]) ELSE upTo[n - 1]
  <2>1. \A n \in 0 .. Len(s) : upTo[n] = IF n = 0 THEN <<>>
                ELSE IF n \in I THEN Append(upTo[n - 1], s[n]) ELSE upTo[n - 1]
    BY <1>3, Zenon DEF IsPicking
  <2>2. QED
    BY <1>1, <2>1
<1>6. upTo[Len(s)] \in Seq(S) /\ \E q : PickedUpTo(s, I, Len(s), upTo[Len(s)], q)
  BY <1>1, <1>5, PickedByRecursion
<1>7. I \cap (1 .. Len(s)) = I
  BY <1>1
<1>8. QED
  BY <1>4, <1>6, <1>7 DEF PickedUpTo, IsPicked

-----------------------------------------------------------------------------
(* u is the first n sequences of ss in a row: its place p is place c[p] of *)
(* the sequence a[p].                                                      *)
Laid(ss, n, u, a, c) ==
  /\ \A p \in DOMAIN u : a[p] \in 1 .. n /\ c[p] \in DOMAIN ss[a[p]] /\ u[p] = ss[a[p]][c[p]]
  /\ \A p, r \in DOMAIN u : a[p] = a[r] /\ c[p] = c[r] => p = r
  /\ \A j \in 1 .. n : \A i \in DOMAIN ss[j] : \E p \in DOMAIN u : a[p] = j /\ c[p] = i
  /\ \A p \in DOMAIN u : c[p] > 1 => p > 1 /\ a[p - 1] = a[p] /\ c[p - 1] = c[p] - 1

LEMMA LayNext ==
  ASSUME NEW S, NEW ss, NEW n \in Nat \ {0}, NEW t \in Seq(S), t = ss[n],
         NEW u \in Seq(S), NEW a, NEW c, Laid(ss, n - 1, u, a, c)
  PROVE  \E b, d : Laid(ss, n, u \o t, b, d)
<1>1. PICK L, M : L = Len(u) /\ M = Len(t)
  OBVIOUS
<1>2. L \in Nat /\ M \in Nat /\ DOMAIN u = 1 .. L /\ DOMAIN t = 1 .. M
  BY <1>1
<1>3. PICK v : v = u \o t
  OBVIOUS
<1>4. /\ DOMAIN v = 1 .. L + M
      /\ \A p \in 1 .. L : v[p] = u[p]
      /\ \A p \in 1 .. L + M : p > L => v[p] = t[p - L]
  BY <1>1, <1>3
<1>5. PICK b, d : /\ b = [p \in 1 .. L + M |-> IF p <= L THEN a[p] ELSE n]
                  /\ d = [p \in 1 .. L + M |-> IF p <= L THEN c[p] ELSE p - L]
  OBVIOUS
<1>6. \A p \in 1 .. L + M : /\ p <= L => p \in 1 .. L /\ b[p] = a[p] /\ d[p] = c[p]
                            /\ p > L => b[p] = n /\ d[p] = p - L /\ p - L \in 1 .. M
  BY <1>2, <1>5
<1>7. \A p \in 1 .. L : p \in 1 .. L + M /\ p <= L
  BY <1>2
<1>8. \A p \in 1 .. L : a[p] \in 1 .. n - 1 /\ c[p] \in DOMAIN ss[a[p]] /\ u[p] = ss[a[p]][c[p]]
  BY <1>2 DEF Laid
<1>9. ASSUME NEW p \in 1 .. L + M
      PROVE  b[p] \in 1 .. n /\ d[p] \in DOMAIN ss[b[p]] /\ v[p] = ss[b[p]][d[p]]
  <2>1. CASE p <= L
    BY <1>4, <1>6, <1>8, <2>1
  <2>2. CASE p > L
    BY <1>2, <1>4, <1>6, <2>2
  <2>3. QED
    BY <1>2, <2>1, <2>2
<1>10. ASSUME NEW p \in 1 .. L + M, NEW r \in 1 .. L + M, b[p] = b[r], d[p] = d[r]
       PROVE  p = r
  <2>1. CASE p <= L /\ r <= L
    BY <1>2, <1>6, <1>10, <2>1 DEF Laid
  <2>2. CASE p > L /\ r > L
    BY <1>2, <1>6, <1>10, <2>2
  <2>3. CASE p <= L /\ r > L
    BY <1>2, <1>6, <1>8, <1>10, <2>3
  <2>4. CASE p > L /\ r <= L
    BY <1>2, <1>6, <1>8, <1>10, <2>4
  <2>5. QED
    BY <1>2, <2>1, <2>2, <2>3, <2>4
<1>11. ASSUME NEW j \in 1 .. n, NEW i \in DOMAIN ss[j]
       PROVE  \E p \in 1 .. L + M : b[p] = j /\ d[p] = i
  <2>1. CASE j = n
    <3>1. i \in 1 .. M /\ L + i \in 1 .. L + M /\ L + i > L /\ (L + i) - L = i
      BY <1>2, <2>1
    <3>2. QED
      BY <1>6, <2>1, <3>1
  <2>2. CASE j # n
    <3>1. j \in 1 .. n - 1
      BY <2>2
    <3>2. PICK p \in 1 .. L : a[p] = j /\ c[p] = i
      BY <1>2, <3>1 DEF Laid
    <3>3. QED
      BY <1>6, <1>7, <3>2
  <2>3. QED
    BY <2>1, <2>2
<1>12. ASSUME NEW p \in 1 .. L + M, d[p] > 1
       PROVE  p > 1 /\ b[p - 1] = b[p] /\ d[p - 1] = d[p] - 1
  <2>1. CASE p <= L
    <3>1. p \in 1 .. L /\ p > 1 /\ a[p - 1] = a[p] /\ c[p - 1] = c[p] - 1
      BY <1>2, <1>6, <1>12, <2>1 DEF Laid
    <3>2. p - 1 \in 1 .. L
      BY <1>2, <3>1
    <3>3. QED
      BY <1>6, <1>7, <3>1, <3>2
  <2>2. CASE p > L
    <3>1. p - 1 \in 1 .. L + M /\ p - 1 > L /\ p > 1
      BY <1>2, <1>6, <1>12, <2>2
    <3>2. b[p - 1] = n /\ d[p - 1] = (p - 1) - L
      BY <1>6, <3>1
    <3>3. QED
      BY <1>2, <1>6, <2>2, <3>1, <3>2
  <2>3. QED
    BY <1>2, <2>1, <2>2
<1>13. Laid(ss, n, v, b, d)
  <2>1. DOMAIN v = 1 .. L + M
    BY <1>4
  <2>2. \A p \in DOMAIN v : b[p] \in 1 .. n /\ d[p] \in DOMAIN ss[b[p]] /\ v[p] = ss[b[p]][d[p]]
    BY <1>9, <2>1
  <2>3. \A p, r \in DOMAIN v : b[p] = b[r] /\ d[p] = d[r] => p = r
    BY <1>10, <2>1
  <2>4. \A j \in 1 .. n : \A i \in DOMAIN ss[j] : \E p \in DOMAIN v : b[p] = j /\ d[p] = i
    BY <1>11, <2>1
  <2>5. \A p \in DOMAIN v : d[p] > 1 => p > 1 /\ b[p - 1] = b[p] /\ d[p - 1] = d[p] - 1
    BY <1>12, <2>1
  <2>6. QED
    BY <2>2, <2>3, <2>4, <2>5, Zenon DEF Laid
<1>14. QED
  BY <1>3, <1>13

LEMMA LayFirst ==
  ASSUME NEW S, NEW ss, NEW u \in Seq(S), u = ss[1]
  PROVE  \E a, c : Laid(ss, 1, u, a, c)
<1>1. PICK L : L = Len(u)
  OBVIOUS
<1>2. L \in Nat /\ DOMAIN u = 1 .. L
  BY <1>1
<1>3. PICK a, c : a = [p \in 1 .. L |-> 1] /\ c = [p \in 1 .. L |-> p]
  OBVIOUS
<1>4. \A p \in 1 .. L : a[p] = 1 /\ c[p] = p
  BY <1>3
<1>5. \A p \in DOMAIN u : a[p] \in 1 .. 1 /\ c[p] \in DOMAIN ss[a[p]] /\ u[p] = ss[a[p]][c[p]]
  BY <1>2, <1>4
<1>6. \A p, r \in DOMAIN u : a[p] = a[r] /\ c[p] = c[r] => p = r
  BY <1>2, <1>4
<1>7. \A j \in 1 .. 1 : \A i \in DOMAIN ss[j] : \E p \in DOMAIN u : a[p] = j /\ c[p] = i
  BY <1>2, <1>4
<1>8. \A p \in DOMAIN u : c[p] > 1 => p > 1 /\ a[p - 1] = a[p] /\ c[p - 1] = c[p] - 1
  <2>1. ASSUME NEW p \in 1 .. L, p > 1 PROVE p - 1 \in 1 .. L
    BY <1>2, <2>1
  <2>2. QED
    BY <1>2, <1>4, <2>1
<1>9. Laid(ss, 1, u, a, c)
  BY <1>5, <1>6, <1>7, <1>8, Zenon DEF Laid
<1>10. QED
  BY <1>9

LEMMA LaidByRecursion ==
  ASSUME NEW S, NEW ss, NEW N \in Nat \ {0}, \A n \in 1 .. N : ss[n] \in Seq(S),
         NEW f, f[1] = ss[1], \A n \in 2 .. N : f[n] = f[n - 1] \o ss[n]
  PROVE  f[N] \in Seq(S) /\ \E a, c : Laid(ss, N, f[N], a, c)
<1> DEFINE P(n) == n = 0 \/ (f[n] \in Seq(S) /\ \E a, c : Laid(ss, n, f[n], a, c))
           T == {n \in 0 .. N : P(n)}
<1>1. ASSUME NEW n \in 1 .. N, P(n - 1) PROVE P(n)
  <2>1. CASE n = 1
    <3>1. f[1] \in Seq(S) /\ f[1] = ss[1]
      OBVIOUS
    <3>2. PICK u : u = f[1]
      OBVIOUS
    <3>3. \E a, c : Laid(ss, 1, u, a, c)
      BY <3>1, <3>2, LayFirst
    <3>4. QED
      BY <2>1, <3>1, <3>2, <3>3
  <2>2. CASE n # 1
    <3>1. n \in 2 .. N /\ n \in Nat \ {0} /\ n - 1 # 0
      BY <2>2
    <3>2. PICK u, v, t : u = f[n - 1] /\ v = f[n] /\ t = ss[n]
      OBVIOUS
    <3>3. v = u \o t /\ u \in Seq(S) /\ t \in Seq(S)
      BY <1>1, <3>1, <3>2
    <3>4. PICK a, c : Laid(ss, n - 1, u, a, c)
      BY <1>1, <3>1, <3>2
    <3>5. \E b, d : Laid(ss, n, u \o t, b, d)
      BY <3>1, <3>2, <3>3, <3>4, LayNext
    <3>6. v \in Seq(S)
      BY <3>3
    <3>7. QED
      BY <3>2, <3>3, <3>5, <3>6
  <2>3. QED
    BY <2>1, <2>2
<1>2. P(0)
  OBVIOUS
<1>3. P(N) => f[N] \in Seq(S) /\ \E a, c : Laid(ss, N, f[N], a, c)
  OBVIOUS
<1> HIDE DEF P
<1>4. 0 .. N \subseteq T
  <2>1. 0 \in T
    BY <1>2
  <2>2. \A n \in 1 .. N : n - 1 \in T => n \in T
    BY <1>1
  <2> HIDE DEF T
  <2>3. QED
    BY <2>1, <2>2, UpTo
<1>5. P(N)
  BY <1>4
<1>6. QED
  BY <1>3, <1>5

(* The recursion that FlattenSeq is defined by, which has a solution.      *)
IsFlattening(f, ss, N) ==
  f = [i \in 1 .. N |-> IF i = 1 THEN ss[i] ELSE f[i - 1] \o ss[i]]

LEMMA FlattenExists ==
  ASSUME NEW S, NEW ss, NEW N \in Nat, \A n \in 1 .. N : ss[n] \in Seq(S)
  PROVE  \E f : IsFlattening(f, ss, N)
<1> DEFINE h == [x \in (1 .. N) \X Seq(S) |->
                   IF x[1] = 1 THEN ss[x[1]] ELSE x[2] \o ss[x[1]]]
<1>1. <<>> \in Seq(S) /\ h \in [(1 .. N) \X Seq(S) -> Seq(S)]
  OBVIOUS
<1>2. \A n \in 1 .. N, u \in Seq(S) :
        h[<<n, u>>] = IF n = 1 THEN ss[n] ELSE u \o ss[n]
  OBVIOUS
<1> HIDE DEF h
<1>3. PICK T : T = Seq(S)
  OBVIOUS
<1>4. \E f : Follows(f, <<>>, h, N, T)
  BY <1>1, <1>3, Recursion
<1>5. PICK f \in [0 .. N -> Seq(S)] : \A n \in 1 .. N : f[n] = h[<<n, f[n - 1]>>]
  BY <1>3, <1>4 DEF Follows
<1>6. PICK g : g = [n \in 1 .. N |-> f[n]]
  OBVIOUS
<1>7. ASSUME NEW n \in 1 .. N PROVE g[n] = IF n = 1 THEN ss[n] ELSE g[n - 1] \o ss[n]
  <2>1. n - 1 \in 0 .. N /\ f[n - 1] \in Seq(S) /\ g[n] = f[n]
    BY <1>6
  <2>2. g[n] = IF n = 1 THEN ss[n] ELSE f[n - 1] \o ss[n]
    BY <1>2, <1>5, <2>1
  <2>3. CASE n = 1
    BY <2>2, <2>3
  <2>4. CASE n # 1
    <3>1. n - 1 \in 1 .. N
      BY <2>4
    <3>2. g[n - 1] = f[n - 1]
      BY <1>6, <3>1
    <3>3. QED
      BY <2>2, <2>4, <3>2
  <2>5. QED
    BY <2>3, <2>4
<1>8. g = [n \in 1 .. N |-> g[n]]
  BY <1>6
<1>9. [n \in 1 .. N |-> g[n]] = [n \in 1 .. N |-> IF n = 1 THEN ss[n] ELSE g[n - 1] \o ss[n]]
  BY <1>7, Zenon
<1>10. IsFlattening(g, ss, N)
  BY <1>8, <1>9, Zenon DEF IsFlattening
<1>11. QED
  BY <1>10

(* FlattenSeq puts the sequences in a row.                                 *)
LEMMA FlattenIs ==
  ASSUME NEW S, NEW ss \in Seq(Seq(S))
  PROVE  /\ FlattenSeq(ss) \in Seq(S)
         /\ \E a, c : Laid(ss, Len(ss), FlattenSeq(ss), a, c)
<1> DEFINE flatten[i \in 1 .. Len(ss)] ==
             IF i = 1 THEN ss[i] ELSE flatten[i - 1] \o ss[i]
<1>1. Len(ss) \in Nat /\ \A n \in 1 .. Len(ss) : ss[n] \in Seq(S)
  OBVIOUS
<1>2. CASE Len(ss) = 0
  <2>1. FlattenSeq(ss) = ss /\ ss = <<>>
    BY <1>2 DEF FlattenSeq
  <2>2. Laid(ss, Len(ss), <<>>, [p \in {} |-> 0], [p \in {} |-> 0])
    BY <1>2 DEF Laid
  <2>3. QED
    BY <2>1, <2>2
<1>3. CASE Len(ss) # 0
  <2>1. \E f : IsFlattening(f, ss, Len(ss))
    <3>1. PICK N : N = Len(ss)
      OBVIOUS
    <3>2. N \in Nat /\ \A n \in 1 .. N : ss[n] \in Seq(S)
      BY <1>1, <3>1
    <3>3. \E f : IsFlattening(f, ss, N)
      BY <3>2, FlattenExists
    <3>4. QED
      BY <3>1, <3>3
  <2>2. IsFlattening(flatten, ss, Len(ss))
    BY <2>1 DEF IsFlattening
  <2>3. FlattenSeq(ss) = flatten[Len(ss)]
    BY <1>3 DEF FlattenSeq, flatten
  <2> HIDE DEF flatten
  <2>4. \A n \in 1 .. Len(ss) : flatten[n] = IF n = 1 THEN ss[n] ELSE flatten[n - 1] \o ss[n]
    BY <2>2, Zenon DEF IsFlattening
  <2>5. PICK f, N : f = flatten /\ N = Len(ss)
    OBVIOUS
  <2>6. N \in Nat \ {0} /\ \A n \in 1 .. N : ss[n] \in Seq(S)
    BY <1>1, <1>3, <2>5
  <2>7. \A n \in 1 .. N : f[n] = IF n = 1 THEN ss[n] ELSE f[n - 1] \o ss[n]
    BY <2>4, <2>5
  <2>8. f[1] = ss[1]
    BY <2>6, <2>7
  <2>9. ASSUME NEW n \in 2 .. N PROVE f[n] = f[n - 1] \o ss[n]
    <3>1. n \in 1 .. N /\ n # 1
      BY <2>6
    <3>2. QED
      BY <2>7, <3>1
  <2>10. f[N] \in Seq(S) /\ \E a, c : Laid(ss, N, f[N], a, c)
    BY <2>6, <2>9, <2>8, LaidByRecursion
  <2>11. QED
    BY <2>3, <2>5, <2>10
<1>4. QED
  BY <1>2, <1>3

-----------------------------------------------------------------------------
(* The steps of a plan are chained after the m carried ones: each depends  *)
(* on the one before.                                                      *)
Chained(s, m) ==
  /\ m \in 0 .. Len(s)
  /\ \A i \in DOMAIN s : s[i].carried <=> i <= m
  /\ \A i \in DOMAIN s : i > m => s[i].deps = IF i = 1 THEN {} ELSE {s[i - 1].id}

(* The steps after the carried ones are live, the first of them is the     *)
(* entry, and each leads to the next.                                      *)
LEMMA ChainEdges ==
  ASSUME NEW S, NEW s \in Seq(S), NEW m, Chained(s, m), Unique(s)
  PROVE  /\ Live(s) = m + 1 .. Len(s)
         /\ Entry(s) = IF m < Len(s) THEN m + 1 ELSE 0
         /\ \A i \in m + 1 .. Len(s) : Next0(s, i) = IF i < Len(s) THEN i + 1 ELSE 0
<1>1. PICK L : L = Len(s)
  OBVIOUS
<1>2. L \in Nat /\ DOMAIN s = 1 .. L /\ m \in 0 .. L
  BY <1>1 DEF Chained
<1>3. Live(s) = m + 1 .. L
  <2>1. \A i \in 1 .. L : s[i].carried <=> i <= m
    BY <1>2 DEF Chained
  <2>2. \A i \in 1 .. L : ~s[i].carried <=> ~(i <= m)
    BY <2>1
  <2>3. Live(s) = {i \in 1 .. L : ~(i <= m)}
    BY <1>2, <2>2, Zenon DEF Live
  <2>4. {i \in 1 .. L : ~(i <= m)} = m + 1 .. L
    BY <1>2
  <2>5. QED
    BY <2>3, <2>4
<1>4. ASSUME NEW i \in 1 .. L, NEW j \in m + 1 .. L
      PROVE  s[i].id \in s[j].deps <=> j = i + 1
  <2>1. j \in 1 .. L /\ j > m
    BY <1>2
  <2>2. s[j].deps = IF j = 1 THEN {} ELSE {s[j - 1].id}
    BY <1>2, <2>1 DEF Chained
  <2>3. CASE j = 1
    BY <1>2, <2>2, <2>3
  <2>4. CASE j # 1
    <3>1. j - 1 \in 1 .. L
      BY <1>2, <2>1, <2>4
    <3>2. s[i].id = s[j - 1].id <=> i = j - 1
      BY <1>2, <3>1 DEF Unique
    <3>3. QED
      BY <2>1, <2>2, <2>4, <3>1, <3>2
  <2>5. QED
    BY <2>3, <2>4
<1>5. ASSUME NEW j \in m + 1 .. L PROVE s[j].deps \cap LiveIds(s) = {} <=> j = m + 1
  <2>1. \A x \in s[j].deps : \E i \in 1 .. L : x = s[i].id /\ i = j - 1
    <3>1. j \in 1 .. L /\ j > m
      BY <1>2
    <3>2. s[j].deps = IF j = 1 THEN {} ELSE {s[j - 1].id}
      BY <1>2, <3>1 DEF Chained
    <3>3. j # 1 => j - 1 \in 1 .. L
      BY <1>2, <3>1
    <3>4. QED
      BY <3>2, <3>3
  <2>2. CASE j = m + 1
    <3>1. ASSUME NEW x \in s[j].deps PROVE x \notin LiveIds(s)
      <4>1. m \in 1 .. L /\ x = s[m].id
        BY <1>2, <2>1, <2>2
      <4>2. \A i \in m + 1 .. L : i \in 1 .. L /\ i # m
        BY <1>2
      <4>3. \A i \in m + 1 .. L : s[i].id # x
        BY <1>2, <4>1, <4>2 DEF Unique
      <4>4. QED
        BY <1>3, <4>3 DEF LiveIds
    <3>2. QED
      BY <2>2, <3>1
  <2>3. CASE j # m + 1
    <3>1. j - 1 \in m + 1 .. L /\ j - 1 \in 1 .. L /\ j = (j - 1) + 1
      BY <1>2, <2>3
    <3>2. s[j - 1].id \in s[j].deps
      BY <1>4, <3>1
    <3>3. s[j - 1].id \in LiveIds(s)
      BY <1>3, <3>1 DEF LiveIds
    <3>4. QED
      BY <2>3, <3>2, <3>3
  <2>4. QED
    BY <2>2, <2>3
<1>6. Entry(s) = IF m < L THEN m + 1 ELSE 0
  <2>1. CASE m < L
    <3>1. m + 1 \in m + 1 .. L /\ m + 1 \in Nat
      BY <1>2, <2>1
    <3>2. {i \in Live(s) : s[i].deps \cap LiveIds(s) = {}} = {m + 1}
      BY <1>3, <1>5, <3>1
    <3>3. QED
      BY <2>1, <3>1, <3>2 DEF Entry, First
  <2>2. CASE ~(m < L)
    <3>1. Live(s) = {}
      BY <1>2, <1>3, <2>2
    <3>2. QED
      BY <2>2, <3>1 DEF Entry, First
  <2>3. QED
    BY <2>1, <2>2
<1>7. ASSUME NEW i \in m + 1 .. L PROVE Next0(s, i) = IF i < L THEN i + 1 ELSE 0
  <2>1. i \in 1 .. L
    BY <1>2
  <2>2. CASE i < L
    <3>1. i + 1 \in m + 1 .. L
      BY <1>2, <2>2
    <3>2. {j \in Live(s) : s[i].id \in s[j].deps} = {i + 1}
      BY <1>3, <1>4, <2>1, <3>1
    <3>3. QED
      BY <2>2, <3>1, <3>2 DEF Next0, First
  <2>3. CASE ~(i < L)
    <3>1. {j \in Live(s) : s[i].id \in s[j].deps} = {}
      BY <1>2, <1>3, <1>4, <2>1, <2>3
    <3>2. QED
      BY <2>3, <3>1 DEF Next0, First
  <2>4. QED
    BY <2>2, <2>3
<1>8. QED
  BY <1>1, <1>3, <1>6, <1>7

(* The recursion of the walk, which has a solution.                        *)
IsWalking(f, s, L) ==
  f = [n \in 1 .. L |-> IF n = 1 THEN Entry(s)
                        ELSE IF f[n - 1] = 0 THEN 0 ELSE Next0(s, f[n - 1])]

LEMMA WalkExists ==
  ASSUME NEW S, NEW s \in Seq(S), NEW m, Chained(s, m), Unique(s), NEW L, L = Len(s)
  PROVE  IsWalking([n \in 1 .. L |-> IF m + n <= L THEN m + n ELSE 0], s, L)
<1>1. L \in Nat /\ m \in 0 .. L
  BY DEF Chained
<1>2. PICK f : f = [n \in 1 .. L |-> IF m + n <= L THEN m + n ELSE 0]
  OBVIOUS
<1>3. ASSUME NEW n \in 1 .. L
      PROVE  f[n] = IF n = 1 THEN Entry(s)
                    ELSE IF f[n - 1] = 0 THEN 0 ELSE Next0(s, f[n - 1])
  <2>1. CASE n = 1
    <3>1. Entry(s) = IF m < L THEN m + 1 ELSE 0
      BY ChainEdges
    <3>2. QED
      BY <1>1, <1>2, <2>1, <3>1
  <2>2. CASE n # 1
    <3>1. n - 1 \in 1 .. L /\ f[n] = IF m + n <= L THEN m + n ELSE 0
      BY <1>2, <2>2
    <3>2. f[n - 1] = IF m + (n - 1) <= L THEN m + (n - 1) ELSE 0
      BY <1>2, <3>1
    <3>3. CASE m + (n - 1) <= L
      <4>1. m + (n - 1) \in m + 1 .. L /\ m + (n - 1) # 0
        BY <1>1, <3>1, <3>3
      <4>2. Next0(s, m + (n - 1)) = IF m + (n - 1) < L THEN (m + (n - 1)) + 1 ELSE 0
        BY <4>1, ChainEdges
      <4>3. QED
        BY <1>1, <2>2, <3>1, <3>2, <3>3, <4>1, <4>2
    <3>4. CASE ~(m + (n - 1) <= L)
      BY <1>1, <2>2, <3>1, <3>2, <3>4
    <3>5. QED
      BY <3>3, <3>4
  <2>3. QED
    BY <2>1, <2>2
<1>4. f = [n \in 1 .. L |-> f[n]]
  BY <1>2
<1>5. [n \in 1 .. L |-> f[n]] = [n \in 1 .. L |-> IF n = 1 THEN Entry(s)
                    ELSE IF f[n - 1] = 0 THEN 0 ELSE Next0(s, f[n - 1])]
  BY <1>3, Zenon
<1>6. IsWalking(f, s, L)
  BY <1>4, <1>5, Zenon DEF IsWalking
<1>7. QED
  BY <1>2, <1>6

LEMMA WalkPlace ==
  ASSUME NEW S, NEW s \in Seq(S), NEW m, Chained(s, m), Unique(s), NEW L, L = Len(s),
         NEW f, IsWalking(f, s, L)
  PROVE  \A n \in 1 .. L : f[n] = IF m + n <= L THEN m + n ELSE 0
<1> DEFINE P(n) == n = 0 \/ f[n] = IF m + n <= L THEN m + n ELSE 0
           T == {n \in 0 .. L : P(n)}
<1>1. L \in Nat /\ m \in 0 .. L
  BY DEF Chained
<1>2. \A n \in 1 .. L : f[n] = IF n = 1 THEN Entry(s)
                               ELSE IF f[n - 1] = 0 THEN 0 ELSE Next0(s, f[n - 1])
  BY Zenon DEF IsWalking
<1>3. ASSUME NEW n \in 1 .. L, P(n - 1) PROVE P(n)
  <2>1. CASE n = 1
    <3>1. Entry(s) = IF m < L THEN m + 1 ELSE 0
      BY ChainEdges
    <3>2. f[n] = Entry(s)
      BY <1>2, <2>1
    <3>3. QED
      BY <1>1, <2>1, <3>1, <3>2
  <2>2. CASE n # 1
    <3>1. n - 1 \in 1 .. L /\ n - 1 # 0
      BY <2>2
    <3>2. f[n - 1] = IF m + (n - 1) <= L THEN m + (n - 1) ELSE 0
      BY <1>3, <3>1
    <3>3. f[n] = IF f[n - 1] = 0 THEN 0 ELSE Next0(s, f[n - 1])
      BY <1>2, <2>2
    <3>4. CASE m + (n - 1) <= L
      <4>1. m + (n - 1) \in m + 1 .. L /\ m + (n - 1) # 0
        BY <1>1, <3>1, <3>4
      <4>2. Next0(s, m + (n - 1)) = IF m + (n - 1) < L THEN (m + (n - 1)) + 1 ELSE 0
        BY <4>1, ChainEdges
      <4>3. QED
        BY <1>1, <3>1, <3>2, <3>3, <3>4, <4>1, <4>2
    <3>5. CASE ~(m + (n - 1) <= L)
      BY <1>1, <3>1, <3>2, <3>3, <3>5
    <3>6. QED
      BY <3>4, <3>5
  <2>3. QED
    BY <2>1, <2>2
<1>4. P(0)
  OBVIOUS
<1>5. ASSUME NEW n \in 1 .. L, P(n) PROVE f[n] = IF m + n <= L THEN m + n ELSE 0
  BY <1>5
<1> HIDE DEF P
<1>6. 0 .. L \subseteq T
  <2>1. 0 \in T
    BY <1>1, <1>4
  <2>2. \A n \in 1 .. L : n - 1 \in T => n \in T
    BY <1>3
  <2> HIDE DEF T
  <2>3. QED
    BY <1>1, <2>1, <2>2, UpTo
<1>7. \A n \in 1 .. L : P(n)
  BY <1>1, <1>6
<1>8. QED
  BY <1>5, <1>7

(* The walk visits the live steps in their order.                          *)
LEMMA WalkIs ==
  ASSUME NEW S, NEW s \in Seq(S), NEW m, Chained(s, m), Unique(s)
  PROVE  /\ Walk(s) \in Seq(Nat)
         /\ \A n \in DOMAIN Walk(s) : Walk(s)[n] \in Live(s)
         /\ \A k, n \in DOMAIN Walk(s) : k < n => Walk(s)[k] < Walk(s)[n]
         /\ \A i \in Live(s) : \E n \in DOMAIN Walk(s) : Walk(s)[n] = i
<1> DEFINE at[n \in 1 .. Len(s)] ==
             IF n = 1 THEN Entry(s)
             ELSE LET before == at[n - 1] IN IF before = 0 THEN 0 ELSE Next0(s, before)
<1>1. PICK L : L = Len(s)
  OBVIOUS
<1>2. L \in Nat /\ m \in 0 .. L
  BY <1>1 DEF Chained
<1>3. \E f : IsWalking(f, s, Len(s))
  BY WalkExists
<1>4. IsWalking(at, s, L)
  BY <1>1, <1>3 DEF IsWalking
<1>5. Walk(s) = Picked(at, {n \in DOMAIN at : at[n] # 0})
  BY DEF Walk, at
<1> HIDE DEF at
<1>6. DOMAIN at = 1 .. L
  BY <1>4, Zenon DEF IsWalking
<1>7. \A n \in 1 .. L : at[n] = IF m + n <= L THEN m + n ELSE 0
  BY <1>1, <1>4, WalkPlace
<1>8. at \in Seq(Nat)
  <2>1. at = [n \in 1 .. L |-> at[n]]
    BY <1>4, <1>6, Zenon DEF IsWalking
  <2>2. \A n \in 1 .. L : at[n] \in Nat
    BY <1>2, <1>7
  <2>3. QED
    BY <1>2, <2>1, <2>2
<1>9. PICK I, w : I = {n \in DOMAIN at : at[n] # 0} /\ w = Walk(s)
  OBVIOUS
<1>10. /\ w \in Seq(Nat)
       /\ \E q : /\ q \in [DOMAIN w -> I]
                 /\ \A k \in DOMAIN w : w[k] = at[q[k]]
                 /\ \A k, l \in DOMAIN w : k < l => q[k] < q[l]
                 /\ \A i \in I : \E k \in DOMAIN w : q[k] = i
  <2>1. PICK a, N : a = at /\ N = Nat
    OBVIOUS
  <2>2. a \in Seq(N) /\ I \subseteq DOMAIN a /\ w = Picked(a, I)
    BY <1>5, <1>8, <1>9, <2>1
  <2>3. Picked(a, I) \in Seq(N) /\ IsPicked(Picked(a, I), a, I)
    BY <2>2, PickedIs
  <2>4. w \in Seq(N) /\ IsPicked(w, a, I)
    BY <2>2, <2>3
  <2>5. QED
    BY <2>1, <2>4 DEF IsPicked
<1>11. PICK q : /\ q \in [DOMAIN w -> I]
                /\ \A k \in DOMAIN w : w[k] = at[q[k]]
                /\ \A k, l \in DOMAIN w : k < l => q[k] < q[l]
                /\ \A i \in I : \E k \in DOMAIN w : q[k] = i
  BY <1>10
<1>12. \A i \in I : i \in 1 .. L - m /\ at[i] = m + i
  BY <1>2, <1>6, <1>7, <1>9
<1>13. \A i \in 1 .. L - m : i \in I
  BY <1>2, <1>6, <1>7, <1>9
<1>14. \A k \in DOMAIN w : q[k] \in 1 .. L - m /\ w[k] = m + q[k]
  BY <1>11, <1>12
<1>15. Live(s) = m + 1 .. L
  BY <1>1, ChainEdges
<1>16. \A n \in DOMAIN w : w[n] \in Live(s)
  BY <1>2, <1>14, <1>15
<1>17. \A k, n \in DOMAIN w : k < n => w[k] < w[n]
  BY <1>2, <1>11, <1>14
<1>18. ASSUME NEW i \in Live(s) PROVE \E n \in DOMAIN w : w[n] = i
  <2>1. i - m \in 1 .. L - m /\ m + (i - m) = i
    BY <1>2, <1>15
  <2>2. PICK k \in DOMAIN w : q[k] = i - m
    BY <1>11, <1>13, <2>1
  <2>3. QED
    BY <1>14, <2>1, <2>2
<1>19. QED
  BY <1>9, <1>10, <1>16, <1>17, <1>18

-----------------------------------------------------------------------------
(* Numbers *)

(* A finite set of numbers has a largest one.                              *)
LEMMA LargestExists ==
  ASSUME NEW T, T \subseteq Nat, IsFiniteSet(T), T # {}
  PROVE  \E x \in T : \A y \in T : y <= x
<1>1. PICK K : K = Cardinality(T)
  OBVIOUS
<1>2. K \in Nat /\ ExistsBijection(1 .. K, T)
  BY <1>1, FS_CardinalityType
<1>3. PICK f : f \in Bijection(1 .. K, T)
  BY <1>2 DEF ExistsBijection
<1>4. f \in [1 .. K -> T] /\ \A y \in T : \E i \in 1 .. K : f[i] = y
  BY <1>3 DEF Bijection, Surjection
<1> DEFINE P(n) == \E b \in Nat : \A i \in 1 .. n : f[i] <= b
           U == {n \in 0 .. K : P(n)}
<1>5. ASSUME NEW n \in 1 .. K, P(n - 1) PROVE P(n)
  <2>1. PICK b \in Nat : \A i \in 1 .. n - 1 : f[i] <= b
    BY <1>5
  <2>2. f[n] \in Nat /\ b + f[n] \in Nat /\ b <= b + f[n] /\ f[n] <= b + f[n]
    <3>1. f[n] \in Nat
      BY <1>2, <1>4
    <3>2. QED
      BY <3>1
  <2>3. ASSUME NEW i \in 1 .. n PROVE f[i] <= b + f[n]
    <3>1. f[i] \in Nat /\ (i = n \/ i \in 1 .. n - 1)
      <4>1. i \in 1 .. K /\ n \in Nat
        BY <1>2
      <4>2. f[i] \in T
        BY <1>4, <4>1
      <4>3. i = n \/ i \in 1 .. n - 1
        BY <4>1
      <4>4. QED
        BY <4>2, <4>3
    <3>2. QED
      BY <2>1, <2>2, <3>1
  <2>4. QED
    BY <2>2, <2>3
<1>6. P(0)
  <2>1. \A i \in 1 .. 0 : f[i] <= 0
    OBVIOUS
  <2>2. QED
    BY <2>1
<1>7. P(K) => \E b \in Nat : \A y \in T : y <= b
  BY <1>4
<1> HIDE DEF P
<1>8. 0 .. K \subseteq U
  <2>1. 0 \in U
    BY <1>2, <1>6
  <2>2. \A n \in 1 .. K : n - 1 \in U => n \in U
    BY <1>5
  <2> HIDE DEF U
  <2>3. QED
    BY <1>2, <2>1, <2>2, UpTo
<1>9. PICK B : B = {b \in Nat : \A y \in T : y <= b}
  OBVIOUS
<1>10. B \subseteq Nat /\ B # {}
  BY <1>2, <1>7, <1>8, <1>9
<1>11. PICK x \in B : \A y \in B : x <= y
  BY <1>10, SmallestExists
<1>12. x \in Nat /\ \A y \in T : y <= x
  BY <1>9, <1>11
<1>13. x \in T
  <2>1. SUFFICES ASSUME x \notin T PROVE FALSE
    OBVIOUS
  <2>2. PICK y \in T : TRUE
    OBVIOUS
  <2>3. y \in Nat /\ y <= x /\ y # x
    BY <1>12, <2>1
  <2>4. x - 1 \in Nat /\ \A z \in T : z <= x - 1
    BY <1>12, <2>1, <2>3
  <2>5. x - 1 \in B
    BY <1>9, <2>4
  <2>6. QED
    BY <1>11, <1>12, <2>5
<1>14. QED
  BY <1>12, <1>13

(* _seed_counters gives the highest number in use.                         *)
LEMMA SeedIs ==
  ASSUME NEW kind, NEW slug, NEW kept \in SUBSET Id, IsFiniteSet(kept)
  PROVE  /\ Seed(kind, slug, kept) \in Nat
         /\ \A x \in kept : x[1] = kind /\ x[2] = slug => x[3] <= Seed(kind, slug, kept)
<1>1. PICK used : used = {n \in {id[3] : id \in kept} : <<kind, slug, n>> \in kept}
  OBVIOUS
<1>2. used \subseteq Nat
  BY <1>1 DEF Id
<1>3. IsFiniteSet(used)
  <2>1. PICK T : T = {id[3] : id \in kept}
    OBVIOUS
  <2>2. IsFiniteSet(T)
    <3>1. [id \in kept |-> id[3]] \in Surjection(kept, T)
      BY <2>1 DEF Surjection
    <3>2. QED
      BY <3>1, FS_Surjection
  <2>3. used \in SUBSET T
    BY <1>1, <2>1
  <2>4. QED
    BY <2>2, <2>3, FS_Subset
<1>4. ASSUME NEW x \in kept, x[1] = kind, x[2] = slug PROVE x[3] \in used
  <2>1. x = <<x[1], x[2], x[3]>>
    BY DEF Id
  <2>2. <<kind, slug, x[3]>> \in kept
    BY <1>4, <2>1
  <2>3. QED
    BY <1>1, <2>2
<1>5. Seed(kind, slug, kept) = IF used = {} THEN 0 ELSE CHOOSE n \in used : \A k \in used : k <= n
  BY <1>1 DEF Seed
<1>6. CASE used = {}
  BY <1>4, <1>5, <1>6
<1>7. CASE used # {}
  <2>1. \E n \in used : \A k \in used : k <= n
    BY <1>2, <1>3, <1>7, LargestExists
  <2>2. Seed(kind, slug, kept) \in used /\ \A k \in used : k <= Seed(kind, slug, kept)
    BY <1>5, <1>7, <2>1
  <2>3. QED
    BY <1>2, <1>4, <2>2
<1>8. QED
  BY <1>6, <1>7

(* Later items of a capability have higher numbers, all above the seed.    *)
LEMMA NumberIs ==
  ASSUME NEW items, NEW K \in Nat, NEW i \in 1 .. K, NEW seed \in Nat
  PROVE  /\ Number(items, i, seed) \in Nat
         /\ Number(items, i, seed) > seed
         /\ \A k \in 1 .. K : k < i /\ items[k].cap = items[i].cap
              => Number(items, k, seed) < Number(items, i, seed)
<1> DEFINE N(k) == {j \in 1 .. k : items[j].cap = items[k].cap}
<1>1. ASSUME NEW k \in 1 .. K PROVE IsFiniteSet(N(k)) /\ Cardinality(N(k)) \in Nat
  <2>1. IsFiniteSet(1 .. k)
    BY FS_Interval
  <2>2. N(k) \in SUBSET (1 .. k)
    OBVIOUS
  <2>3. IsFiniteSet(N(k))
    BY <2>1, <2>2, FS_Subset
  <2>4. QED
    BY <2>3, FS_CardinalityType
<1>2. \A k \in 1 .. K : Number(items, k, seed) = seed + Cardinality(N(k))
  BY DEF Number
<1>3. Cardinality(N(i)) # 0
  <2>1. i \in N(i)
    OBVIOUS
  <2>2. QED
    BY <1>1, <2>1, FS_EmptySet
<1>4. ASSUME NEW k \in 1 .. K, k < i, items[k].cap = items[i].cap
      PROVE  Cardinality(N(k)) < Cardinality(N(i))
  <2>1. N(k) \in SUBSET N(i)
    BY <1>4
  <2>2. i \in N(i) /\ i \notin N(k)
    BY <1>4
  <2> HIDE DEF N
  <2>3. Cardinality(N(k)) <= Cardinality(N(i)) /\ Cardinality(N(i)) # Cardinality(N(k))
    BY <1>1, <2>1, <2>2, FS_Subset
  <2>4. QED
    BY <1>1, <2>3
<1> HIDE DEF N
<1>5. QED
  BY <1>1, <1>2, <1>3, <1>4

(* SetToSeq lists each element once.                                       *)
LEMMA SetToSeqIs ==
  ASSUME NEW T, IsFiniteSet(T)
  PROVE  /\ SetToSeq(T) \in Seq(T)
         /\ \A i, j \in DOMAIN SetToSeq(T) : SetToSeq(T)[i] = SetToSeq(T)[j] => i = j
<1>1. PICK K : K = Cardinality(T)
  OBVIOUS
<1>2. K \in Nat /\ ExistsBijection(1 .. K, T)
  BY <1>1, FS_CardinalityType
<1>3. \E f \in [1 .. K -> T] : IsInjective(f)
  BY <1>2 DEF ExistsBijection, Bijection, Injection, IsInjective
<1>4. SetToSeq(T) \in [1 .. K -> T] /\ IsInjective(SetToSeq(T))
  BY <1>1, <1>3 DEF SetToSeq
<1>5. QED
  BY <1>2, <1>4 DEF IsInjective

-----------------------------------------------------------------------------
(* Steps *)

(* What the steps of a plan are: the id of an action holds its name, a     *)
(* bound gate names a step of its own action, and a step of the system has *)
(* its type for a name.                                                    *)
Named(x) ==
  /\ x.type = "action" => x.id[1] = "action" /\ x.id[2] = x.action
  /\ x.target # NoId => x.target[2] = x.action
  /\ x.id[1] = "step" => x.id = <<"step", x.type, 0>>

System == {"validate_event", "rule_router", "rag_retrieve", "memory_context",
           "evidence_evaluate", "risk_gate", "close"}

StepRec ==
  {x \in [id : Id, type : System \cup {"agent_task", "action", "human_approval"},
          action : Risky \cup {Save, None}, target : Id \cup {NoId},
          text : Text \cup {0, 1}, deps : SUBSET Id, carried : BOOLEAN] : Named(x)}

(* An action of high risk comes directly after a gate of its action.       *)
Guarded(u) ==
  \A p \in DOMAIN u :
    u[p].type = "action" /\ u[p].action \in Risky =>
      p > 1 /\ u[p - 1].type = "human_approval" /\ u[p - 1].action = u[p].action

(* A piece of a plan that is being built.                                  *)
Piece(u) ==
  /\ u \in Seq(StepRec)
  /\ \A p \in DOMAIN u : u[p].carried = FALSE
  /\ Unique(u)
  /\ Guarded(u)

LEMMA IdsAre ==
  ASSUME NEW s, NEW x
  PROVE  x \in Ids(s) <=> \E i \in DOMAIN s : x = s[i].id
  BY DEF Ids, ToSet

LEMMA IdsOfConcat ==
  ASSUME NEW S, NEW u \in Seq(S), NEW v \in Seq(S)
  PROVE  Ids(u \o v) = Ids(u) \cup Ids(v)
<1>1. PICK L, M, w : L = Len(u) /\ M = Len(v) /\ w = u \o v
  OBVIOUS
<1>2. /\ L \in Nat /\ M \in Nat /\ DOMAIN u = 1 .. L /\ DOMAIN v = 1 .. M
      /\ DOMAIN w = 1 .. L + M
      /\ \A p \in 1 .. L : p \in 1 .. L + M /\ w[p] = u[p]
      /\ \A p \in 1 .. M : L + p \in 1 .. L + M /\ w[L + p] = v[p]
  BY <1>1
<1>3. \A p \in 1 .. L + M : p \in 1 .. L \/ (p - L \in 1 .. M /\ p = L + (p - L))
  BY <1>2
<1>4. ASSUME NEW x \in Ids(u) \cup Ids(v) PROVE x \in Ids(w)
  <2>1. CASE x \in Ids(u)
    <3>1. PICK i \in 1 .. L : x = u[i].id
      BY <1>2, <2>1, IdsAre
    <3>2. i \in DOMAIN w /\ x = w[i].id
      BY <1>2, <3>1
    <3>3. QED
      BY <3>2, IdsAre
  <2>2. CASE x \in Ids(v)
    <3>1. PICK i \in 1 .. M : x = v[i].id
      BY <1>2, <2>2, IdsAre
    <3>2. L + i \in DOMAIN w /\ x = w[L + i].id
      BY <1>2, <3>1
    <3>3. QED
      BY <3>2, IdsAre
  <2>3. QED
    BY <2>1, <2>2
<1>5. ASSUME NEW x \in Ids(w) PROVE x \in Ids(u) \cup Ids(v)
  <2>1. PICK p \in 1 .. L + M : x = w[p].id
    BY <1>2, <1>5, IdsAre
  <2>2. CASE p \in 1 .. L
    <3>1. x = u[p].id
      BY <1>2, <2>1, <2>2
    <3>2. QED
      BY <1>2, <2>2, <3>1, IdsAre
  <2>3. CASE p - L \in 1 .. M /\ p = L + (p - L)
    <3>1. x = v[p - L].id
      BY <1>2, <2>1, <2>3
    <3>2. QED
      BY <1>2, <2>3, <3>1, IdsAre
  <2>4. QED
    BY <1>3, <2>2, <2>3
<1>6. QED
  BY <1>1, <1>4, <1>5

(* Pieces with different ids make a piece.                                 *)
LEMMA PieceConcat ==
  ASSUME NEW u, NEW v, Piece(u), Piece(v), Ids(u) \cap Ids(v) = {}
  PROVE  Piece(u \o v) /\ Ids(u \o v) = Ids(u) \cup Ids(v)
<1>1. PICK L, M, w : L = Len(u) /\ M = Len(v) /\ w = u \o v
  OBVIOUS
<1>2. u \in Seq(StepRec) /\ v \in Seq(StepRec)
  BY DEF Piece
<1>3. /\ L \in Nat /\ M \in Nat /\ DOMAIN u = 1 .. L /\ DOMAIN v = 1 .. M
      /\ w \in Seq(StepRec) /\ DOMAIN w = 1 .. L + M
      /\ \A p \in 1 .. L : w[p] = u[p]
      /\ \A p \in 1 .. M : w[L + p] = v[p]
  BY <1>1, <1>2
<1>4. \A p \in 1 .. L + M : p \in 1 .. L \/ (p - L \in 1 .. M /\ p = L + (p - L))
  BY <1>3
<1>5. ASSUME NEW p \in 1 .. L + M PROVE w[p].carried = FALSE
  <2>1. CASE p \in 1 .. L
    BY <1>3, <2>1 DEF Piece
  <2>2. CASE p - L \in 1 .. M /\ p = L + (p - L)
    <3>1. w[p] = v[p - L]
      BY <1>3, <2>2
    <3>2. QED
      BY <1>3, <2>2, <3>1 DEF Piece
  <2>3. QED
    BY <1>4, <2>1, <2>2
<1>6. ASSUME NEW p \in 1 .. L, NEW r \in 1 .. M PROVE u[p].id # v[r].id
  BY <1>3, IdsAre
<1>7. Unique(w)
  <2>1. ASSUME NEW p \in 1 .. L + M, NEW r \in 1 .. L + M, w[p].id = w[r].id PROVE p = r
    <3>1. CASE p \in 1 .. L /\ r \in 1 .. L
      BY <1>3, <2>1, <3>1 DEF Piece, Unique
    <3>2. CASE p \in 1 .. L /\ r - L \in 1 .. M /\ r = L + (r - L)
      <4>1. w[p] = u[p] /\ w[r] = v[r - L]
        BY <1>3, <3>2
      <4>2. QED
        BY <1>6, <2>1, <3>2, <4>1
    <3>3. CASE r \in 1 .. L /\ p - L \in 1 .. M /\ p = L + (p - L)
      <4>1. w[r] = u[r] /\ w[p] = v[p - L]
        BY <1>3, <3>3
      <4>2. QED
        BY <1>6, <2>1, <3>3, <4>1
    <3>4. CASE /\ p - L \in 1 .. M /\ p = L + (p - L)
               /\ r - L \in 1 .. M /\ r = L + (r - L)
      <4>1. v[p - L].id = v[r - L].id
        BY <1>3, <2>1, <3>4
      <4>2. p - L = r - L
        BY <1>3, <3>4, <4>1 DEF Piece, Unique
      <4>3. QED
        BY <1>3, <3>4, <4>2
    <3>5. QED
      BY <1>4, <3>1, <3>2, <3>3, <3>4
  <2>2. QED
    BY <1>3, <2>1 DEF Unique
<1>8. Guarded(w)
  <2>1. ASSUME NEW p \in 1 .. L + M, w[p].type = "action", w[p].action \in Risky
        PROVE  p > 1 /\ w[p - 1].type = "human_approval" /\ w[p - 1].action = w[p].action
    <3>1. CASE p \in 1 .. L
      <4>1. p > 1 /\ u[p - 1].type = "human_approval" /\ u[p - 1].action = u[p].action
        BY <1>3, <2>1, <3>1 DEF Piece, Guarded
      <4>2. p - 1 \in 1 .. L
        BY <1>3, <3>1, <4>1
      <4>3. QED
        BY <1>3, <3>1, <4>1, <4>2
    <3>2. CASE p - L \in 1 .. M /\ p = L + (p - L)
      <4>1. PICK q : q = p - L
        OBVIOUS
      <4>2. q \in 1 .. M /\ p = L + q /\ w[p] = v[q]
        BY <1>3, <3>2, <4>1
      <4>3. q > 1 /\ v[q - 1].type = "human_approval" /\ v[q - 1].action = v[q].action
        BY <1>3, <2>1, <4>2 DEF Piece, Guarded
      <4>4. q - 1 \in 1 .. M /\ p - 1 = L + (q - 1) /\ p > 1
        BY <1>3, <4>2, <4>3
      <4>5. w[p - 1] = v[q - 1]
        BY <1>3, <4>4
      <4>6. QED
        BY <4>2, <4>3, <4>4, <4>5
    <3>3. QED
      BY <1>4, <3>1, <3>2
  <2>2. QED
    BY <1>3, <2>1 DEF Guarded
<1>9. Piece(w)
  BY <1>3, <1>5, <1>7, <1>8 DEF Piece
<1>10. QED
  BY <1>1, <1>2, <1>9, IdsOfConcat

LEMMA PieceOfNone == Piece(<<>>) /\ Ids(<<>>) = {}
  BY DEF Piece, Unique, Guarded, Ids, ToSet

LEMMA PieceOfOne ==
  ASSUME NEW x \in StepRec, x.carried = FALSE, ~(x.type = "action" /\ x.action \in Risky)
  PROVE  Piece(<<x>>) /\ Ids(<<x>>) = {x.id}
<1>1. DOMAIN <<x>> = {1} /\ <<x>>[1] = x /\ <<x>> \in Seq(StepRec)
  OBVIOUS
<1>2. ToSet(<<x>>) = {x}
  BY <1>1 DEF ToSet
<1>3. QED
  BY <1>1, <1>2 DEF Piece, Unique, Guarded, Ids

LEMMA PieceOfStructural ==
  ASSUME NEW t \in System
  PROVE  Piece(Structural(t)) /\ Ids(Structural(t)) = {<<"step", t, 0>>}
<1>1. PICK x : x = NewStep("step", t, 0, t)
  OBVIOUS
<1>2. x.id = <<"step", t, 0>> /\ x.type = t /\ x.carried = FALSE
  BY <1>1 DEF NewStep
<1>3. x \in StepRec
  <2>1. <<"step", t, 0>> \in Id
    BY DEF Id, System
  <2>2. Named(x)
    BY <1>1 DEF NewStep, Named, System
  <2>3. QED
    BY <1>1, <2>1, <2>2 DEF NewStep, StepRec
<1>4. x.type # "action"
  BY <1>2 DEF System
<1>5. QED
  BY <1>1, <1>2, <1>3, <1>4, PieceOfOne DEF Structural

LEMMA PieceIf ==
  ASSUME NEW c, NEW u, Piece(u)
  PROVE  Piece(If(c, u)) /\ Ids(If(c, u)) \subseteq Ids(u)
  BY PieceOfNone DEF If

(* u is a list of K elements.                                              *)
IsList(u, K) == u = [i \in 1 .. K |-> u[i]]

LEMMA IsSeq ==
  ASSUME NEW K \in Nat, NEW S, NEW u, IsList(u, K), \A i \in 1 .. K : u[i] \in S
  PROVE  u \in Seq(S) /\ Len(u) = K /\ DOMAIN u = 1 .. K
  BY DEF IsList

(* The kind, slug and number of an id.                                     *)
LEMMA IdParts ==
  /\ \A x \in Id : x = <<x[1], x[2], x[3]>> /\ x[3] \in Nat
  /\ \A a \in Agent, n \in Nat : <<"agent", a, n>> \in Id
  /\ \A a \in Risky \cup {Save}, n \in Nat :
       <<"action", a, n>> \in Id /\ <<"approval", a, n>> \in Id
  BY DEF Id

(* u lists the steps of the agents f, numbered n.                          *)
AgentList(u, K, f, n) ==
  /\ K \in Nat /\ IsList(u, K)
  /\ \A i \in 1 .. K : f[i] \in Agent /\ n[i] \in Nat
  /\ \A i, j \in 1 .. K : f[i] = f[j] /\ n[i] = n[j] => i = j
  /\ \A i \in 1 .. K : u[i] = AgentStep(f[i], n[i])

LEMMA PieceOfAgents ==
  ASSUME NEW K, NEW f, NEW n, NEW u, AgentList(u, K, f, n)
  PROVE  /\ Piece(u)
         /\ \A x \in Ids(u) : x[1] = "agent" /\ \E i \in 1 .. K : x[2] = f[i] /\ x[3] = n[i]
<1>1. /\ K \in Nat /\ IsList(u, K)
      /\ \A i \in 1 .. K : f[i] \in Agent /\ n[i] \in Nat
      /\ \A i, j \in 1 .. K : f[i] = f[j] /\ n[i] = n[j] => i = j
  BY DEF AgentList
<1>2. DOMAIN u = 1 .. K /\ \A i \in 1 .. K : u[i] = AgentStep(f[i], n[i])
  BY DEF AgentList, IsList
<1>3. ASSUME NEW i \in 1 .. K
      PROVE  /\ u[i].id[1] = "agent" /\ u[i].id[2] = f[i] /\ u[i].id[3] = n[i]
             /\ u[i].type = "agent_task"
             /\ u[i].carried = FALSE /\ u[i] \in StepRec
  <2>1. PICK x : x = u[i]
    OBVIOUS
  <2>2. PICK b, k : b = f[i] /\ k = n[i]
    OBVIOUS
  <2>3. x = NewStep("agent", b, k, "agent_task") /\ b \in Agent /\ k \in Nat
    BY <1>1, <1>2, <2>1, <2>2 DEF AgentStep
  <2>4. /\ x.id = <<"agent", b, k>> /\ x.type = "agent_task" /\ x.action = None
        /\ x.target = NoId /\ x.text = 0 /\ x.deps = {} /\ x.carried = FALSE
    BY <2>3 DEF NewStep
  <2>5. <<"agent", b, k>> \in Id
    BY <2>3, IdParts
  <2>6. x.id \in Id
    BY <2>4, <2>5
  <2>7. Named(x)
    BY <2>4 DEF Named
  <2>8. x \in StepRec
    BY <2>3, <2>6, <2>7 DEF NewStep, StepRec
  <2>9. QED
    BY <2>1, <2>2, <2>4, <2>8
<1>4. u \in Seq(StepRec)
  <2>1. K \in Nat /\ IsList(u, K) /\ \A i \in 1 .. K : u[i] \in StepRec
    BY <1>1, <1>3
  <2>2. QED
    BY <1>3, <2>1, IsSeq
<1>5. Unique(u)
  <2>1. ASSUME NEW i \in 1 .. K, NEW j \in 1 .. K, u[i].id = u[j].id PROVE i = j
    <3>1. u[i].id[2] = f[i] /\ u[i].id[3] = n[i] /\ u[j].id[2] = f[j] /\ u[j].id[3] = n[j]
      BY <1>3
    <3>2. f[i] = f[j] /\ n[i] = n[j]
      BY <2>1, <3>1
    <3>3. QED
      BY <1>1, <3>2
  <2>2. QED
    BY <1>2, <2>1 DEF Unique
<1>6. Guarded(u)
  BY <1>2, <1>3 DEF Guarded
<1>7. Piece(u)
  BY <1>2, <1>3, <1>4, <1>5, <1>6 DEF Piece
<1>8. ASSUME NEW x \in Ids(u)
      PROVE  x[1] = "agent" /\ \E i \in 1 .. K : x[2] = f[i] /\ x[3] = n[i]
  <2>1. PICK i \in 1 .. K : x = u[i].id
    BY <1>2, IdsAre
  <2>2. QED
    BY <1>3, <2>1
<1>9. QED
  BY <1>7, <1>8

(* t is an action of the name a, with its gate before it when its risk is  *)
(* high.                                                                   *)
GatedSeq(t, a, n, m) ==
  /\ t \in Seq(StepRec)
  /\ \A c \in DOMAIN t : t[c].carried = FALSE
  /\ \A c \in DOMAIN t : t[c].id[2] = a
  /\ \A c \in DOMAIN t :
       \/ c = (IF a \in Risky THEN 2 ELSE 1) /\ t[c].id[1] = "action" /\ t[c].id[3] = n
       \/ c = 1 /\ a \in Risky /\ t[c].id[1] = "approval" /\ t[c].id[3] = m
  /\ a \in Risky => 1 \in DOMAIN t /\ t[1].type = "human_approval" /\ t[1].action = a
  /\ \A c \in DOMAIN t : t[c].type = "action" => t[c].action = a /\ (a \in Risky => c = 2)

LEMMA GatedIs ==
  ASSUME NEW a \in Risky \cup {Save}, NEW n \in Nat, NEW m \in Nat,
         NEW text \in Text \cup {0, 1}, NEW bind \in BOOLEAN,
         NEW t, t = Gated(a, n, m, text, bind)
  PROVE  GatedSeq(t, a, n, m)
<1>1. PICK x, g : /\ x = ActionStep(a, n, text)
                  /\ g = Gate(a, m, IF bind THEN <<"action", a, n>> ELSE NoId)
  OBVIOUS
<1>2. PICK id, gid : id = <<"action", a, n>> /\ gid = <<"approval", a, m>>
  OBVIOUS
<1>3. id \in Id /\ gid \in Id
  BY <1>2, IdParts
<1>4. /\ id[1] = "action" /\ id[2] = a /\ id[3] = n
      /\ gid[1] = "approval" /\ gid[2] = a /\ gid[3] = m
  BY <1>2
<1>5. /\ x.id = id /\ x.type = "action" /\ x.action = a /\ x.target = NoId /\ x.text = text
      /\ x.deps = {} /\ x.carried = FALSE
  BY <1>1, <1>2 DEF ActionStep, NewStep
<1>6. /\ g.id = gid /\ g.type = "human_approval" /\ g.action = a
      /\ g.target = (IF bind THEN id ELSE NoId)
      /\ g.text = 0 /\ g.deps = {} /\ g.carried = FALSE
  BY <1>1, <1>2 DEF Gate, NewStep
<1>7. x \in StepRec
  <2>1. Named(x)
    BY <1>2, <1>5 DEF Named
  <2>2. QED
    BY <1>1, <1>2, <1>3, <2>1 DEF ActionStep, NewStep, StepRec
<1>8. g \in StepRec
  <2>1. Named(g)
    BY <1>2, <1>6 DEF Named
  <2>2. QED
    BY <1>1, <1>2, <1>3, <2>1 DEF Gate, NewStep, StepRec
<1>9. CASE a \in Risky
  <2>1. t = <<g>> \o <<x>>
    BY <1>1, <1>9 DEF Gated, If
  <2>2. t \in Seq(StepRec) /\ DOMAIN t = 1 .. 2 /\ t[1] = g /\ t[2] = x
    BY <1>7, <1>8, <2>1
  <2>3. \A c \in DOMAIN t : c = 1 \/ c = 2
    BY <2>2
  <2>4. QED
    BY <1>4, <1>5, <1>6, <1>9, <2>2, <2>3 DEF GatedSeq
<1>10. CASE a \notin Risky
  <2>1. t = <<x>>
    BY <1>1, <1>10 DEF Gated, If
  <2>2. t \in Seq(StepRec) /\ DOMAIN t = 1 .. 1 /\ t[1] = x
    BY <1>7, <2>1
  <2>3. \A c \in DOMAIN t : c = 1
    BY <2>2
  <2>4. QED
    BY <1>4, <1>5, <1>10, <2>2, <2>3 DEF GatedSeq
<1>11. QED
  BY <1>9, <1>10

(* The gated actions, in a row.                                            *)
GatedList(ss, K, a, n, m, text, bind) ==
  /\ K \in Nat /\ IsList(ss, K) /\ bind \in BOOLEAN
  /\ \A i \in 1 .. K : /\ a[i] \in Risky \cup {Save} /\ n[i] \in Nat /\ m[i] \in Nat
                       /\ text[i] \in Text \cup {0, 1}
  /\ \A i, j \in 1 .. K : a[i] = a[j] /\ (n[i] = n[j] \/ m[i] = m[j]) => i = j
  /\ \A i \in 1 .. K : ss[i] = Gated(a[i], n[i], m[i], text[i], bind)

LEMMA PieceOfGated ==
  ASSUME NEW K, NEW a, NEW n, NEW m, NEW text, NEW bind, NEW ss,
         GatedList(ss, K, a, n, m, text, bind)
  PROVE  /\ Piece(FlattenSeq(ss))
         /\ \A x \in Ids(FlattenSeq(ss)) : \E i \in 1 .. K :
              /\ x[2] = a[i]
              /\ \/ x[1] = "action" /\ x[3] = n[i]
                 \/ x[1] = "approval" /\ a[i] \in Risky /\ x[3] = m[i]
<1>1. /\ K \in Nat /\ IsList(ss, K) /\ bind \in BOOLEAN
      /\ \A i \in 1 .. K : /\ a[i] \in Risky \cup {Save} /\ n[i] \in Nat /\ m[i] \in Nat
                           /\ text[i] \in Text \cup {0, 1}
      /\ \A i, j \in 1 .. K : a[i] = a[j] /\ (n[i] = n[j] \/ m[i] = m[j]) => i = j
  BY DEF GatedList
<1>2. DOMAIN ss = 1 .. K /\ \A i \in 1 .. K : ss[i] = Gated(a[i], n[i], m[i], text[i], bind)
  BY DEF GatedList, IsList
<1>3. ASSUME NEW i \in 1 .. K PROVE GatedSeq(ss[i], a[i], n[i], m[i])
  <2>1. PICK b, k, l, e, t : b = a[i] /\ k = n[i] /\ l = m[i] /\ e = text[i] /\ t = ss[i]
    OBVIOUS
  <2>2. b \in Risky \cup {Save} /\ k \in Nat /\ l \in Nat /\ e \in Text \cup {0, 1}
    BY <1>1, <2>1
  <2>3. t = Gated(b, k, l, e, bind)
    BY <1>2, <2>1
  <2>4. GatedSeq(t, b, k, l)
    BY <1>1, <2>2, <2>3, GatedIs
  <2>5. QED
    BY <2>1, <2>4
<1>4. ss \in Seq(Seq(StepRec)) /\ Len(ss) = K
  <2>1. PICK S : S = Seq(StepRec)
    OBVIOUS
  <2>2. \A i \in 1 .. K : ss[i] \in S
    BY <1>3, <2>1 DEF GatedSeq
  <2>3. IsList(ss, K) /\ K \in Nat
    BY <1>1
  <2>4. ss \in Seq(S) /\ Len(ss) = K
    BY <2>2, <2>3, IsSeq
  <2>5. QED
    BY <2>1, <2>4
<1>5. PICK u : u = FlattenSeq(ss)
  OBVIOUS
<1>6. u \in Seq(StepRec) /\ \E d, c : Laid(ss, K, u, d, c)
  <2>1. FlattenSeq(ss) \in Seq(StepRec) /\ \E d, c : Laid(ss, Len(ss), FlattenSeq(ss), d, c)
    BY <1>4, FlattenIs
  <2>2. QED
    BY <1>4, <1>5, <2>1
<1>7. PICK d, c : Laid(ss, K, u, d, c)
  BY <1>6
<1>8. \A p \in DOMAIN u : d[p] \in 1 .. K /\ c[p] \in DOMAIN ss[d[p]] /\ u[p] = ss[d[p]][c[p]]
  BY <1>7 DEF Laid
<1>9. \A p, r \in DOMAIN u : d[p] = d[r] /\ c[p] = c[r] => p = r
  BY <1>7 DEF Laid
<1>10. \A p \in DOMAIN u : c[p] > 1 => p > 1 /\ d[p - 1] = d[p] /\ c[p - 1] = c[p] - 1
  BY <1>7 DEF Laid
<1>11. ASSUME NEW p \in DOMAIN u
       PROVE  /\ d[p] \in 1 .. K
              /\ u[p].carried = FALSE
              /\ u[p].id[2] = a[d[p]]
              /\ \/ /\ c[p] = (IF a[d[p]] \in Risky THEN 2 ELSE 1)
                    /\ u[p].id[1] = "action" /\ u[p].id[3] = n[d[p]]
                 \/ /\ c[p] = 1 /\ a[d[p]] \in Risky
                    /\ u[p].id[1] = "approval" /\ u[p].id[3] = m[d[p]]
              /\ u[p].type = "action" => /\ u[p].action = a[d[p]]
                                         /\ a[d[p]] \in Risky => c[p] = 2
  <2>1. PICK j, e, t : j = d[p] /\ e = c[p] /\ t = ss[j]
    OBVIOUS
  <2>2. j \in 1 .. K /\ e \in DOMAIN t /\ u[p] = t[e]
    BY <1>8, <2>1
  <2>3. PICK b, k, l, x : b = a[j] /\ k = n[j] /\ l = m[j] /\ x = u[p]
    OBVIOUS
  <2>4. GatedSeq(t, b, k, l)
    BY <1>3, <2>1, <2>2, <2>3
  <2>5. /\ x.carried = FALSE /\ x.id[2] = b
        /\ \/ e = (IF b \in Risky THEN 2 ELSE 1) /\ x.id[1] = "action" /\ x.id[3] = k
           \/ e = 1 /\ b \in Risky /\ x.id[1] = "approval" /\ x.id[3] = l
        /\ x.type = "action" => x.action = b /\ (b \in Risky => e = 2)
    BY <2>2, <2>3, <2>4 DEF GatedSeq
  <2>6. QED
    BY <2>1, <2>2, <2>3, <2>5
<1>12. \A p \in DOMAIN u : u[p].carried = FALSE
  BY <1>11
<1>13. ASSUME NEW p \in DOMAIN u, NEW r \in DOMAIN u, u[p].id = u[r].id PROVE p = r
  <2>1. u[p].id[2] = a[d[p]] /\ u[r].id[2] = a[d[r]] /\ d[p] \in 1 .. K /\ d[r] \in 1 .. K
    BY <1>11
  <2>2. d[p] \in 1 .. K /\ d[r] \in 1 .. K /\ a[d[p]] = a[d[r]] /\ u[p].id[1] = u[r].id[1]
    BY <1>13, <2>1
  <2>3. c[p] = c[r] /\ (n[d[p]] = n[d[r]] \/ m[d[p]] = m[d[r]])
    <3>1. CASE u[p].id[1] = "action"
      <4>1. /\ c[p] = (IF a[d[p]] \in Risky THEN 2 ELSE 1) /\ u[p].id[3] = n[d[p]]
            /\ c[r] = (IF a[d[r]] \in Risky THEN 2 ELSE 1) /\ u[r].id[3] = n[d[r]]
        BY <1>11, <2>2, <3>1
      <4>2. QED
        BY <1>13, <2>2, <4>1
    <3>2. CASE u[p].id[1] # "action"
      <4>1. c[p] = 1 /\ u[p].id[3] = m[d[p]] /\ c[r] = 1 /\ u[r].id[3] = m[d[r]]
        BY <1>11, <2>2, <3>2
      <4>2. QED
        BY <1>13, <2>2, <4>1
    <3>3. QED
      BY <3>1, <3>2
  <2>4. d[p] = d[r]
    BY <1>1, <2>2, <2>3
  <2>5. QED
    BY <1>9, <2>3, <2>4
<1>14. Unique(u)
  BY <1>13 DEF Unique
<1>15. ASSUME NEW p \in DOMAIN u, u[p].type = "action", u[p].action \in Risky
       PROVE  p > 1 /\ u[p - 1].type = "human_approval" /\ u[p - 1].action = u[p].action
  <2>1. u[p].action = a[d[p]] /\ c[p] = 2 /\ d[p] \in 1 .. K
    BY <1>11, <1>15
  <2>2. p > 1 /\ d[p - 1] = d[p] /\ c[p - 1] = 1
    BY <1>10, <2>1
  <2>3. p - 1 \in DOMAIN u
    BY <1>6, <2>2
  <2>4. u[p - 1] = ss[d[p]][1]
    BY <1>8, <2>2, <2>3
  <2>5. ss[d[p]][1].type = "human_approval" /\ ss[d[p]][1].action = a[d[p]]
    <3>1. PICK t, b : t = ss[d[p]] /\ b = a[d[p]]
      OBVIOUS
    <3>2. GatedSeq(t, b, n[d[p]], m[d[p]]) /\ b \in Risky
      BY <1>3, <1>15, <2>1, <3>1
    <3>3. t[1].type = "human_approval" /\ t[1].action = b
      BY <3>2 DEF GatedSeq
    <3>4. QED
      BY <3>1, <3>3
  <2>6. QED
    BY <2>1, <2>2, <2>4, <2>5
<1>16. Guarded(u)
  BY <1>15 DEF Guarded
<1>17. Piece(u)
  BY <1>6, <1>12, <1>14, <1>16 DEF Piece
<1>18. ASSUME NEW x \in Ids(u)
       PROVE  \E i \in 1 .. K :
                /\ x[2] = a[i]
                /\ \/ x[1] = "action" /\ x[3] = n[i]
                   \/ x[1] = "approval" /\ a[i] \in Risky /\ x[3] = m[i]
  <2>1. PICK p \in DOMAIN u : x = u[p].id
    BY IdsAre
  <2>2. d[p] \in 1 .. K
    BY <1>8
  <2>3. QED
    BY <1>11, <2>1, <2>2
<1>19. QED
  BY <1>5, <1>17, <1>18

(* Wiring chains the steps and changes nothing else.                       *)
LEMMA WireIs ==
  ASSUME NEW u \in Seq(StepRec), \A i \in DOMAIN u : u[i].carried = FALSE
  PROVE  /\ Wire(u) \in Seq(StepRec) /\ Len(Wire(u)) = Len(u) /\ DOMAIN Wire(u) = DOMAIN u
         /\ \A i \in DOMAIN u :
              /\ Wire(u)[i].id = u[i].id /\ Wire(u)[i].type = u[i].type
              /\ Wire(u)[i].action = u[i].action /\ Wire(u)[i].target = u[i].target
              /\ Wire(u)[i].text = u[i].text /\ Wire(u)[i].carried = FALSE
              /\ Wire(u)[i].deps = IF i = 1 THEN {} ELSE {u[i - 1].id}
         /\ Chained(Wire(u), 0)
<1>1. PICK w, L : w = Wire(u) /\ L = Len(u)
  OBVIOUS
<1>2. L \in Nat /\ DOMAIN u = 1 .. L
  BY <1>1
<1>3. w = [i \in 1 .. L |-> [u[i] EXCEPT !.deps = IF i = 1 THEN {} ELSE {u[i - 1].id}]]
  BY <1>1, <1>2 DEF Wire
<1>4. ASSUME NEW i \in 1 .. L
      PROVE  /\ w[i] \in StepRec
             /\ w[i].id = u[i].id /\ w[i].type = u[i].type
             /\ w[i].action = u[i].action /\ w[i].target = u[i].target
             /\ w[i].text = u[i].text /\ w[i].carried = FALSE
             /\ w[i].deps = IF i = 1 THEN {} ELSE {u[i - 1].id}
  <2>1. PICK x, y, D : x = u[i] /\ y = w[i] /\ D = IF i = 1 THEN {} ELSE {u[i - 1].id}
    OBVIOUS
  <2>2. x \in StepRec /\ x.carried = FALSE
    BY <1>2, <2>1
  <2>3. y = [x EXCEPT !.deps = D]
    BY <1>3, <2>1
  <2>4. D \in SUBSET Id
    <3>1. CASE i = 1
      BY <2>1, <3>1
    <3>2. CASE i # 1
      <4>1. i - 1 \in 1 .. L
        BY <1>2, <3>2
      <4>2. u[i - 1] \in StepRec
        BY <1>2, <4>1
      <4>3. u[i - 1].id \in Id
        BY <4>2 DEF StepRec
      <4>4. QED
        BY <2>1, <3>2, <4>3
    <3>3. QED
      BY <3>1, <3>2
  <2>5. /\ y.id = x.id /\ y.type = x.type /\ y.action = x.action /\ y.target = x.target
        /\ y.text = x.text /\ y.carried = FALSE /\ y.deps = D
    BY <2>2, <2>3 DEF StepRec
  <2>6. Named(y)
    BY <2>2, <2>5 DEF StepRec, Named
  <2>7. y \in StepRec
    BY <2>2, <2>3, <2>4, <2>6 DEF StepRec
  <2>8. QED
    BY <2>1, <2>5, <2>7
<1>5. IsList(w, L)
  BY <1>3 DEF IsList
<1>6. w \in Seq(StepRec) /\ Len(w) = L /\ DOMAIN w = 1 .. L
  <2>1. \A i \in 1 .. L : w[i] \in StepRec
    BY <1>4
  <2>2. QED
    BY <1>2, <1>5, <2>1, IsSeq
<1>7. Chained(w, 0)
  <2>1. ASSUME NEW i \in 1 .. L PROVE w[i].carried <=> i <= 0
    <3>1. w[i].carried = FALSE
      BY <1>4
    <3>2. ~w[i].carried
      BY <3>1
    <3>3. ~(i <= 0)
      BY <1>2
    <3>4. QED
      BY <3>2, <3>3
  <2>2. ASSUME NEW i \in 1 .. L PROVE w[i].deps = IF i = 1 THEN {} ELSE {w[i - 1].id}
    <3>1. CASE i = 1
      BY <1>4, <3>1
    <3>2. CASE i # 1
      <4>1. i - 1 \in 1 .. L
        BY <1>2, <3>2
      <4>2. QED
        BY <1>4, <3>2, <4>1
    <3>3. QED
      BY <3>1, <3>2
  <2>3. 0 \in 0 .. Len(w) /\ DOMAIN w = 1 .. L
    BY <1>2, <1>6
  <2>4. QED
    BY <2>1, <2>2, <2>3 DEF Chained
<1>8. QED
  BY <1>1, <1>2, <1>4, <1>6, <1>7

LEMMA SaveAfter ==
  ASSUME NEW n \in Nat, NEW text \in {0, 1}
  PROVE  /\ Piece(<<ActionStep(Save, n, text)>>)
         /\ Ids(<<ActionStep(Save, n, text)>>) = {<<"action", Save, n>>}
<1>1. PICK x, id : x = ActionStep(Save, n, text) /\ id = <<"action", Save, n>>
  OBVIOUS
<1>2. id \in Id /\ id[1] = "action" /\ id[2] = Save
  BY <1>1, IdParts
<1>3. /\ x.id = id /\ x.type = "action" /\ x.action = Save /\ x.target = NoId
      /\ x.text = text /\ x.deps = {} /\ x.carried = FALSE
  BY <1>1 DEF ActionStep, NewStep
<1>4. Named(x)
  BY <1>2, <1>3 DEF Named
<1>5. x \in StepRec
  BY <1>1, <1>2, <1>4 DEF ActionStep, NewStep, StepRec
<1>6. Save \notin Risky
  BY PlanAssumption
<1>7. QED
  BY <1>1, <1>3, <1>5, <1>6, PieceOfOne

(* The agents and the actions of a proposal.                               *)
LEMMA PickedAgents ==
  ASSUME NEW items \in Seq(Item),
         NEW w, w = Picked(items, {i \in DOMAIN items : ~items[i].act /\ items[i].cap # None})
  PROVE  w \in Seq(Item) /\ \A i \in DOMAIN w : w[i].cap \in Agent
<1>1. PICK I : I = {i \in DOMAIN items : ~items[i].act /\ items[i].cap # None}
  OBVIOUS
<1>2. I \subseteq DOMAIN items
  BY <1>1
<1>3. w \in Seq(Item) /\ IsPicked(w, items, I)
  BY <1>1, <1>2, PickedIs
<1>4. ASSUME NEW i \in DOMAIN w PROVE w[i].cap \in Agent
  <2>1. PICK k \in I : w[i] = items[k]
    BY <1>3 DEF IsPicked
  <2>2. items[k] \in Item /\ ~items[k].act /\ items[k].cap # None
    BY <1>1, <2>1
  <2>3. items[k].cap \in Agent
    BY <2>2 DEF Item
  <2>4. QED
    BY <2>1, <2>3
<1>5. QED
  BY <1>3, <1>4

LEMMA PickedActions ==
  ASSUME NEW items \in Seq(Item), Compilable(items),
         NEW w, w = Picked(items, {i \in DOMAIN items : items[i].act})
  PROVE  w \in Seq(Item) /\ \A i \in DOMAIN w : w[i].cap \in Risky /\ w[i].text \in Text
<1>1. PICK I : I = {i \in DOMAIN items : items[i].act}
  OBVIOUS
<1>2. I \subseteq DOMAIN items
  BY <1>1
<1>3. w \in Seq(Item) /\ IsPicked(w, items, I)
  BY <1>1, <1>2, PickedIs
<1>4. ASSUME NEW i \in DOMAIN w PROVE w[i].cap \in Risky /\ w[i].text \in Text
  <2>1. PICK k \in I : w[i] = items[k]
    BY <1>3 DEF IsPicked
  <2>2. k \in DOMAIN items /\ items[k] \in Item /\ items[k].act
    BY <1>1, <2>1
  <2>3. items[k].cap # None
    BY <2>2 DEF Compilable, ToSet
  <2>4. items[k].cap \in Risky /\ items[k].text \in Text
    BY <2>2, <2>3 DEF Item
  <2>5. QED
    BY <2>1, <2>4
<1>5. QED
  BY <1>3, <1>4

(* The ids of the steps every suffix brings.                               *)
Again == {<<"step", "evidence_evaluate", 0>>, <<"step", "risk_gate", 0>>, <<"step", "close", 0>>}

(* n numbers the steps of a kind.                                          *)
IsNumbering(n, w, K, kind, kept) ==
  \A i \in 1 .. K : n[i] = Number(w, i, Seed(kind, w[i].cap, kept))

(* The numbers of a kind's steps are not those of kept steps, and tell the *)
(* steps of one capability apart.                                          *)
NewNumbers(n, w, K, kind, kept) ==
  /\ \A i \in 1 .. K : n[i] \in Nat
  /\ \A i \in 1 .. K : \A x \in kept : x[1] = kind /\ x[2] = w[i].cap => x[3] # n[i]
  /\ \A i, j \in 1 .. K : w[i].cap = w[j].cap /\ n[i] = n[j] => i = j

LEMMA Numbered ==
  ASSUME NEW w, NEW K \in Nat, NEW kind, NEW kept \in SUBSET Id, IsFiniteSet(kept),
         NEW n, IsNumbering(n, w, K, kind, kept)
  PROVE  NewNumbers(n, w, K, kind, kept)
<1>1. ASSUME NEW i \in 1 .. K
      PROVE  \E s \in Nat :
               /\ \A k \in 1 .. K : w[k].cap = w[i].cap => n[k] = Number(w, k, s)
               /\ \A x \in kept : x[1] = kind /\ x[2] = w[i].cap => x[3] <= s
  <2>1. PICK b, s : b = w[i].cap /\ s = Seed(kind, b, kept)
    OBVIOUS
  <2>2. s \in Nat /\ \A x \in kept : x[1] = kind /\ x[2] = b => x[3] <= s
    BY <2>1, SeedIs
  <2>3. ASSUME NEW k \in 1 .. K, w[k].cap = w[i].cap PROVE n[k] = Number(w, k, s)
    BY <2>1, <2>3 DEF IsNumbering
  <2>4. QED
    BY <2>1, <2>2, <2>3
<1>2. ASSUME NEW i \in 1 .. K
      PROVE  /\ n[i] \in Nat
             /\ \A x \in kept : x[1] = kind /\ x[2] = w[i].cap => x[3] # n[i]
             /\ \A k \in 1 .. K : k < i /\ w[k].cap = w[i].cap => n[k] < n[i]
  <2>1. PICK s \in Nat :
          /\ \A k \in 1 .. K : w[k].cap = w[i].cap => n[k] = Number(w, k, s)
          /\ \A x \in kept : x[1] = kind /\ x[2] = w[i].cap => x[3] <= s
    BY <1>1
  <2>2. /\ Number(w, i, s) \in Nat /\ Number(w, i, s) > s
        /\ \A k \in 1 .. K : k < i /\ w[k].cap = w[i].cap => Number(w, k, s) < Number(w, i, s)
    BY NumberIs
  <2>3. n[i] = Number(w, i, s)
    BY <2>1
  <2>4. ASSUME NEW k \in 1 .. K, k < i, w[k].cap = w[i].cap PROVE n[k] < n[i]
    BY <2>1, <2>2, <2>3, <2>4
  <2>5. ASSUME NEW x \in kept, x[1] = kind, x[2] = w[i].cap PROVE x[3] # n[i]
    <3>1. x[3] <= s /\ x[3] \in Nat
      BY <2>1, <2>5, IdParts
    <3>2. QED
      BY <2>2, <2>3, <3>1
  <2>6. QED
    BY <2>2, <2>3, <2>4, <2>5
<1>3. ASSUME NEW i \in 1 .. K, NEW j \in 1 .. K, w[i].cap = w[j].cap, n[i] = n[j] PROVE i = j
  <2>1. n[i] \in Nat /\ n[j] \in Nat
    BY <1>2
  <2>2. ~(i < j) /\ ~(j < i)
    BY <1>2, <1>3, <2>1
  <2>3. QED
    BY <2>2
<1>4. QED
  BY <1>2, <1>3 DEF NewNumbers

(* The agents of a proposal.                                               *)
LEMMA BodyAgents ==
  ASSUME NEW K \in Nat, NEW w, \A i \in 1 .. K : w[i].cap \in Agent,
         NEW kept \in SUBSET Id, IsFiniteSet(kept), NEW u, IsList(u, K),
         \A i \in 1 .. K : u[i] = AgentStep(w[i].cap, Number(w, i, Seed("agent", w[i].cap, kept)))
  PROVE  Piece(u) /\ \A x \in Ids(u) : x[1] = "agent" /\ x \notin kept
<1>1. PICK f, n : /\ f = [i \in 1 .. K |-> w[i].cap]
                  /\ n = [i \in 1 .. K |-> Number(w, i, Seed("agent", w[i].cap, kept))]
  OBVIOUS
<1>2. \A i \in 1 .. K : f[i] = w[i].cap /\ f[i] \in Agent
  BY <1>1
<1>3. IsNumbering(n, w, K, "agent", kept)
  BY <1>1 DEF IsNumbering
<1>4. NewNumbers(n, w, K, "agent", kept)
  BY <1>3, Numbered
<1>5. ASSUME NEW i \in 1 .. K PROVE u[i] = AgentStep(f[i], n[i])
  <2>1. u[i] = AgentStep(w[i].cap, Number(w, i, Seed("agent", w[i].cap, kept)))
    OBVIOUS
  <2>2. QED
    BY <1>2, <1>3, <2>1 DEF IsNumbering
<1>6. \A i \in 1 .. K : f[i] \in Agent /\ n[i] \in Nat
  BY <1>2, <1>4 DEF NewNumbers
<1>7. \A i, j \in 1 .. K : f[i] = f[j] /\ n[i] = n[j] => i = j
  BY <1>2, <1>4 DEF NewNumbers
<1>8. AgentList(u, K, f, n)
  BY <1>5, <1>6, <1>7 DEF AgentList
<1>9. Piece(u) /\ \A x \in Ids(u) : x[1] = "agent" /\ \E i \in 1 .. K : x[2] = f[i] /\ x[3] = n[i]
  BY <1>8, PieceOfAgents
<1>10. ASSUME NEW x \in Ids(u) PROVE x[1] = "agent" /\ x \notin kept
  <2>1. PICK i \in 1 .. K : x[2] = f[i] /\ x[3] = n[i]
    BY <1>9
  <2>2. x[1] = "agent" /\ x[2] = w[i].cap
    BY <1>2, <1>9, <2>1
  <2>3. QED
    BY <1>4, <2>1, <2>2 DEF NewNumbers
<1>11. QED
  BY <1>9, <1>10

(* Its actions, each after its gate.                                       *)
LEMMA BodyActions ==
  ASSUME NEW K \in Nat, NEW w, \A i \in 1 .. K : w[i].cap \in Risky /\ w[i].text \in Text,
         NEW kept \in SUBSET Id, IsFiniteSet(kept), NEW ss, IsList(ss, K),
         \A i \in 1 .. K :
           ss[i] = Gated(w[i].cap, Number(w, i, Seed("action", w[i].cap, kept)),
                         Number(w, i, Seed("approval", w[i].cap, kept)), w[i].text, TRUE)
  PROVE  /\ Piece(FlattenSeq(ss))
         /\ \A x \in Ids(FlattenSeq(ss)) :
              x[1] \in {"action", "approval"} /\ x[2] \in Risky /\ x \notin kept
<1>1. PICK a, n, m, e : /\ a = [i \in 1 .. K |-> w[i].cap]
                        /\ n = [i \in 1 .. K |-> Number(w, i, Seed("action", w[i].cap, kept))]
                        /\ m = [i \in 1 .. K |-> Number(w, i, Seed("approval", w[i].cap, kept))]
                        /\ e = [i \in 1 .. K |-> w[i].text]
  OBVIOUS
<1>2. \A i \in 1 .. K : a[i] = w[i].cap /\ a[i] \in Risky /\ e[i] = w[i].text /\ e[i] \in Text
  BY <1>1
<1>3. IsNumbering(n, w, K, "action", kept)
  BY <1>1 DEF IsNumbering
<1>4. IsNumbering(m, w, K, "approval", kept)
  BY <1>1 DEF IsNumbering
<1>5. NewNumbers(n, w, K, "action", kept)
  BY <1>3, Numbered
<1>6. NewNumbers(m, w, K, "approval", kept)
  BY <1>4, Numbered
<1>7. ASSUME NEW i \in 1 .. K PROVE ss[i] = Gated(a[i], n[i], m[i], e[i], TRUE)
  <2>1. ss[i] = Gated(w[i].cap, Number(w, i, Seed("action", w[i].cap, kept)),
                      Number(w, i, Seed("approval", w[i].cap, kept)), w[i].text, TRUE)
    OBVIOUS
  <2>2. QED
    BY <1>2, <1>3, <1>4, <2>1 DEF IsNumbering
<1>8. \A i \in 1 .. K : /\ a[i] \in Risky \cup {Save} /\ n[i] \in Nat /\ m[i] \in Nat
                         /\ e[i] \in Text \cup {0, 1}
  BY <1>2, <1>5, <1>6 DEF NewNumbers
<1>9. \A i, j \in 1 .. K : a[i] = a[j] /\ (n[i] = n[j] \/ m[i] = m[j]) => i = j
  BY <1>2, <1>5, <1>6 DEF NewNumbers
<1>10. PICK y : y = TRUE
  OBVIOUS
<1>11. GatedList(ss, K, a, n, m, e, y)
  BY <1>7, <1>8, <1>9, <1>10 DEF GatedList
<1>12. /\ Piece(FlattenSeq(ss))
       /\ \A x \in Ids(FlattenSeq(ss)) : \E i \in 1 .. K :
            /\ x[2] = a[i]
            /\ \/ x[1] = "action" /\ x[3] = n[i]
               \/ x[1] = "approval" /\ a[i] \in Risky /\ x[3] = m[i]
  BY <1>11, PieceOfGated
<1>13. ASSUME NEW x \in Ids(FlattenSeq(ss))
       PROVE  x[1] \in {"action", "approval"} /\ x[2] \in Risky /\ x \notin kept
  <2>1. PICK i \in 1 .. K :
          /\ x[2] = a[i]
          /\ \/ x[1] = "action" /\ x[3] = n[i]
             \/ x[1] = "approval" /\ a[i] \in Risky /\ x[3] = m[i]
    BY <1>12
  <2>2. x[2] = w[i].cap /\ x[2] \in Risky
    BY <1>2, <2>1
  <2>3. QED
    BY <1>5, <1>6, <2>1, <2>2 DEF NewNumbers
<1>14. QED
  BY <1>12, <1>13

(* What two pieces of a plan are told apart by: the kind and the slug of   *)
(* their ids.                                                              *)
LEMMA Apart ==
  ASSUME NEW u, NEW v,
         \A x \in Ids(u), y \in Ids(v) : x[1] # y[1] \/ x[2] # y[2]
  PROVE  Ids(u) \cap Ids(v) = {}
  OBVIOUS

(* The steps compiled from a proposal are a piece; no kept step has one of *)
(* their ids, but for the steps every suffix brings again.                 *)
LEMMA BodyIs ==
  ASSUME NEW items \in Seq(Item), Compilable(items), NEW kept \in SUBSET Id, IsFiniteSet(kept)
  PROVE  /\ Piece(Body(items, kept))
         /\ \A x \in Ids(Body(items, kept)) :
              \/ x \in {<<"step", t, 0>> : t \in {"evidence_evaluate", "risk_gate", "close"}}
              \/ x[1] # "step" /\ x \notin kept
<1> DEFINE agents == Picked(items, {i \in DOMAIN items : ~items[i].act /\ items[i].cap # None})
           acts == Picked(items, {i \in DOMAIN items : items[i].act})
           p1 == [i \in DOMAIN agents |->
                   AgentStep(agents[i].cap, Number(agents, i, Seed("agent", agents[i].cap, kept)))]
           p2 == If(agents # <<>>, Structural("evidence_evaluate"))
           p3 == Structural("risk_gate")
           ss == [i \in DOMAIN acts |->
                   Gated(acts[i].cap, Number(acts, i, Seed("action", acts[i].cap, kept)),
                         Number(acts, i, Seed("approval", acts[i].cap, kept)), acts[i].text, TRUE)]
           p4 == FlattenSeq(ss)
           p5 == <<ActionStep(Save, Seed("action", Save, kept) + 1, 0)>>
           p6 == Structural("close")
<1>1. Body(items, kept) = p1 \o p2 \o p3 \o p4 \o p5 \o p6
  BY DEF Body
<1>2. Piece(p1) /\ \A x \in Ids(p1) : x[1] = "agent" /\ x \notin kept
  <2>1. PICK w : w = agents
    OBVIOUS
  <2>2. w \in Seq(Item) /\ \A i \in DOMAIN w : w[i].cap \in Agent
    BY <2>1, PickedAgents
  <2>3. PICK K, u : /\ K = Len(w)
                    /\ u = [i \in DOMAIN w |->
                              AgentStep(w[i].cap, Number(w, i, Seed("agent", w[i].cap, kept)))]
    OBVIOUS
  <2>4. K \in Nat /\ DOMAIN w = 1 .. K
    BY <2>2, <2>3
  <2>5. \A i \in 1 .. K : w[i].cap \in Agent
    BY <2>2, <2>4
  <2>6. IsList(u, K)
    BY <2>3, <2>4 DEF IsList
  <2>7. \A i \in 1 .. K : u[i] = AgentStep(w[i].cap, Number(w, i, Seed("agent", w[i].cap, kept)))
    BY <2>3, <2>4
  <2>8. Piece(u) /\ \A x \in Ids(u) : x[1] = "agent" /\ x \notin kept
    BY <2>4, <2>5, <2>6, <2>7, BodyAgents
  <2>9. p1 = u
    BY <2>1, <2>3
  <2>10. QED
    BY <2>8, <2>9
<1>3. Piece(p2) /\ \A x \in Ids(p2) : x = <<"step", "evidence_evaluate", 0>>
  <2>1. /\ Piece(Structural("evidence_evaluate"))
        /\ Ids(Structural("evidence_evaluate")) = {<<"step", "evidence_evaluate", 0>>}
    BY PieceOfStructural DEF System
  <2>2. QED
    BY <2>1, PieceIf
<1>4. Piece(p3) /\ \A x \in Ids(p3) : x = <<"step", "risk_gate", 0>>
  BY PieceOfStructural DEF System
<1>5. Piece(p4) /\ \A x \in Ids(p4) : x[1] \in {"action", "approval"} /\ x[2] \in Risky /\ x \notin kept
  <2>1. PICK w : w = acts
    OBVIOUS
  <2>2. w \in Seq(Item) /\ \A i \in DOMAIN w : w[i].cap \in Risky /\ w[i].text \in Text
    BY <2>1, PickedActions
  <2>3. PICK K, u : /\ K = Len(w)
                    /\ u = [i \in DOMAIN w |->
                         Gated(w[i].cap, Number(w, i, Seed("action", w[i].cap, kept)),
                               Number(w, i, Seed("approval", w[i].cap, kept)), w[i].text, TRUE)]
    OBVIOUS
  <2>4. K \in Nat /\ DOMAIN w = 1 .. K
    BY <2>2, <2>3
  <2>5. \A i \in 1 .. K : w[i].cap \in Risky /\ w[i].text \in Text
    BY <2>2, <2>4
  <2>6. IsList(u, K)
    BY <2>3, <2>4 DEF IsList
  <2>7. \A i \in 1 .. K :
          u[i] = Gated(w[i].cap, Number(w, i, Seed("action", w[i].cap, kept)),
                       Number(w, i, Seed("approval", w[i].cap, kept)), w[i].text, TRUE)
    BY <2>3, <2>4
  <2>8. /\ Piece(FlattenSeq(u))
        /\ \A x \in Ids(FlattenSeq(u)) :
             x[1] \in {"action", "approval"} /\ x[2] \in Risky /\ x \notin kept
    BY <2>4, <2>5, <2>6, <2>7, BodyActions
  <2>9. p4 = FlattenSeq(u)
    BY <2>1, <2>3
  <2>10. QED
    BY <2>8, <2>9
<1>6. Piece(p5) /\ \A x \in Ids(p5) : x[1] = "action" /\ x[2] = Save /\ x \notin kept
  <2>1. PICK n : n = Seed("action", Save, kept)
    OBVIOUS
  <2>2. n \in Nat /\ \A x \in kept : x[1] = "action" /\ x[2] = Save => x[3] <= n
    BY <2>1, SeedIs
  <2>3. Piece(<<ActionStep(Save, n + 1, 0)>>) /\ Ids(<<ActionStep(Save, n + 1, 0)>>) = {<<"action", Save, n + 1>>}
    <3>1. PICK k, z : k = n + 1 /\ z = 0
      OBVIOUS
    <3>2. k \in Nat /\ z \in {0, 1}
      BY <2>2, <3>1
    <3>3. Piece(<<ActionStep(Save, k, z)>>) /\ Ids(<<ActionStep(Save, k, z)>>) = {<<"action", Save, k>>}
      BY <3>2, SaveAfter
    <3>4. QED
      BY <3>1, <3>3
  <2>4. ASSUME NEW x, x = <<"action", Save, n + 1>> PROVE x[1] = "action" /\ x[2] = Save /\ x \notin kept
    <3>1. x[1] = "action" /\ x[2] = Save /\ x[3] = n + 1
      BY <2>4
    <3>2. ~(n + 1 <= n)
      BY <2>2
    <3>3. QED
      BY <2>2, <3>1, <3>2
  <2>5. QED
    BY <2>1, <2>3, <2>4
<1>7. Piece(p6) /\ \A x \in Ids(p6) : x = <<"step", "close", 0>>
  BY PieceOfStructural DEF System
<1> HIDE DEF p1, p2, p3, p4, p5, p6
<1>8. Piece(p1 \o p2) /\ Ids(p1 \o p2) = Ids(p1) \cup Ids(p2)
  <2>1. Ids(p1) \cap Ids(p2) = {}
    BY <1>2, <1>3, Apart
  <2>2. QED
    BY <1>2, <1>3, <2>1, PieceConcat
<1>9. Piece(p1 \o p2 \o p3) /\ Ids(p1 \o p2 \o p3) = Ids(p1) \cup Ids(p2) \cup Ids(p3)
  <2>1. Ids(p1 \o p2) \cap Ids(p3) = {}
    BY <1>2, <1>3, <1>4, <1>8, Apart
  <2>2. QED
    BY <1>4, <1>8, <2>1, PieceConcat
<1>10. /\ Piece(p1 \o p2 \o p3 \o p4)
      /\ Ids(p1 \o p2 \o p3 \o p4) = Ids(p1) \cup Ids(p2) \cup Ids(p3) \cup Ids(p4)
  <2>1. Ids(p1 \o p2 \o p3) \cap Ids(p4) = {}
    BY <1>2, <1>3, <1>4, <1>5, <1>9, Apart
  <2>2. QED
    BY <1>5, <1>9, <2>1, PieceConcat
<1>11. /\ Piece(p1 \o p2 \o p3 \o p4 \o p5)
       /\ Ids(p1 \o p2 \o p3 \o p4 \o p5) = Ids(p1) \cup Ids(p2) \cup Ids(p3) \cup Ids(p4) \cup Ids(p5)
  <2>1. Save \notin Risky
    BY PlanAssumption
  <2>2. Ids(p1 \o p2 \o p3 \o p4) \cap Ids(p5) = {}
    BY <1>2, <1>3, <1>4, <1>5, <1>6, <1>10, <2>1, Apart
  <2>3. QED
    BY <1>6, <1>10, <2>2, PieceConcat
<1>12. /\ Piece(p1 \o p2 \o p3 \o p4 \o p5 \o p6)
       /\ Ids(p1 \o p2 \o p3 \o p4 \o p5 \o p6)
            = Ids(p1) \cup Ids(p2) \cup Ids(p3) \cup Ids(p4) \cup Ids(p5) \cup Ids(p6)
  <2>1. Ids(p1 \o p2 \o p3 \o p4 \o p5) \cap Ids(p6) = {}
    BY <1>2, <1>3, <1>4, <1>5, <1>6, <1>7, <1>11, Apart
  <2>2. QED
    BY <1>7, <1>11, <2>1, PieceConcat
<1>13. ASSUME NEW x \in Ids(p1) \cup Ids(p2) \cup Ids(p3) \cup Ids(p4) \cup Ids(p5) \cup Ids(p6)
       PROVE  \/ x \in {<<"step", t, 0>> : t \in {"evidence_evaluate", "risk_gate", "close"}}
              \/ x[1] # "step" /\ x \notin kept
  <2>1. CASE x \in Ids(p1)
    BY <1>2, <2>1
  <2>2. CASE x \in Ids(p2) \cup Ids(p3) \cup Ids(p6)
    BY <1>3, <1>4, <1>7, <2>2
  <2>3. CASE x \in Ids(p4)
    BY <1>5, <2>3
  <2>4. CASE x \in Ids(p5)
    BY <1>6, <2>4
  <2>5. QED
    BY <2>1, <2>2, <2>3, <2>4
<1>14. QED
  BY <1>1, <1>12, <1>13

-----------------------------------------------------------------------------
(* Kahn's rounds on a chain *)

(* The recursion of Cyclic, which has a solution.                          *)
Leaves(s, B) == {x.id : x \in {y \in ToSet(s) : y.deps \cap B # {}}} \cap B

IsLeaving(f, s, L) ==
  f = [n \in 0 .. L |-> IF n = 0 THEN Ids(s)
                        ELSE {x.id : x \in {y \in ToSet(s) : y.deps \cap f[n - 1] # {}}} \cap f[n - 1]]

LEMMA LeavingExists ==
  ASSUME NEW s, NEW L \in Nat
  PROVE  \E f : IsLeaving(f, s, L)
<1>1. PICK T, A, h : /\ A = Ids(s) /\ T = SUBSET A
                     /\ h = [x \in (1 .. L) \X T |-> Leaves(s, x[2])]
  OBVIOUS
<1>2. A \in T /\ \A B \in T : Leaves(s, B) \in T
  BY <1>1 DEF Leaves
<1>3. h \in [(1 .. L) \X T -> T]
  BY <1>1, <1>2
<1>4. \A n \in 1 .. L, B \in T : h[<<n, B>>] = Leaves(s, B)
  BY <1>1
<1>5. \E f : Follows(f, A, h, L, T)
  BY <1>2, <1>3, Recursion
<1>6. PICK f \in [0 .. L -> T] : f[0] = A /\ \A n \in 1 .. L : f[n] = h[<<n, f[n - 1]>>]
  BY <1>5 DEF Follows
<1>7. ASSUME NEW n \in 0 .. L
      PROVE  f[n] = IF n = 0 THEN Ids(s)
                    ELSE {x.id : x \in {y \in ToSet(s) : y.deps \cap f[n - 1] # {}}} \cap f[n - 1]
  <2>1. CASE n = 0
    BY <1>1, <1>6, <2>1
  <2>2. CASE n # 0
    <3>1. n \in 1 .. L /\ n - 1 \in 0 .. L
      BY <2>2
    <3>2. f[n - 1] \in T
      BY <1>6, <3>1
    <3>3. f[n] = Leaves(s, f[n - 1])
      BY <1>4, <1>6, <3>1, <3>2
    <3>4. QED
      BY <2>2, <3>3, Zenon DEF Leaves
  <2>3. QED
    BY <2>1, <2>2, Zenon
<1>8. f = [n \in 0 .. L |-> f[n]]
  BY <1>6
<1>9. [n \in 0 .. L |-> f[n]]
        = [n \in 0 .. L |-> IF n = 0 THEN Ids(s)
             ELSE {x.id : x \in {y \in ToSet(s) : y.deps \cap f[n - 1] # {}}} \cap f[n - 1]]
  BY <1>7, Zenon
<1>10. IsLeaving(f, s, L)
  BY <1>8, <1>9, Zenon DEF IsLeaving
<1>11. QED
  BY <1>10

(* A chain loses its first step in every round.                            *)
LEMMA ChainIsAcyclic ==
  ASSUME NEW S, NEW s \in Seq(S), Chained(s, 0), Unique(s)
  PROVE  ~Cyclic(s)
<1> DEFINE left[n \in 0 .. Len(s)] ==
             IF n = 0 THEN Ids(s)
             ELSE LET before == left[n - 1]
                  IN {x.id : x \in {y \in ToSet(s) : y.deps \cap before # {}}} \cap before
<1>1. PICK L : L = Len(s)
  OBVIOUS
<1>2. L \in Nat /\ DOMAIN s = 1 .. L
  BY <1>1
<1>3. \E f : IsLeaving(f, s, Len(s))
  BY <1>1, <1>2, LeavingExists
<1>4. IsLeaving(left, s, L)
  BY <1>1, <1>3 DEF IsLeaving
<1>5. Cyclic(s) <=> left[Len(s)] # {}
  BY DEF Cyclic, left
<1> HIDE DEF left
<1>6. \A n \in 0 .. L : left[n] = IF n = 0 THEN Ids(s)
        ELSE {x.id : x \in {y \in ToSet(s) : y.deps \cap left[n - 1] # {}}} \cap left[n - 1]
  BY <1>4, Zenon DEF IsLeaving
<1> DEFINE P(n) == \A x \in left[n] : \E i \in 1 .. L : i > n /\ x = s[i].id
           T == {n \in 0 .. L : P(n)}
<1>7. P(0)
  <2>1. left[0] = Ids(s)
    <3>1. 0 \in 0 .. L
      BY <1>2
    <3>2. QED
      BY <1>6, <3>1
  <2>2. \A i \in 1 .. L : i > 0
    BY <1>2
  <2>3. QED
    BY <1>2, <2>1, <2>2, IdsAre
<1>8. ASSUME NEW n \in 1 .. L, P(n - 1) PROVE P(n)
  <2>1. PICK B : B = left[n - 1]
    OBVIOUS
  <2>2. n \in 0 .. L /\ n # 0
    OBVIOUS
  <2>3. left[n] = {x.id : x \in {y \in ToSet(s) : y.deps \cap B # {}}} \cap B
    BY <1>6, <2>1, <2>2
  <2>4. ASSUME NEW x \in left[n] PROVE \E i \in 1 .. L : i > n /\ x = s[i].id
    <3>1. PICK y \in ToSet(s) : x = y.id /\ y.deps \cap B # {}
      BY <2>3
    <3>2. PICK i \in 1 .. L : y = s[i]
      BY <1>2 DEF ToSet
    <3>3. PICK z : z \in s[i].deps /\ z \in B
      BY <3>1, <3>2
    <3>4. i > 0
      BY <1>2
    <3>5. s[i].deps = IF i = 1 THEN {} ELSE {s[i - 1].id}
      BY <1>2, <3>4 DEF Chained
    <3>6. i # 1 /\ z = s[i - 1].id
      BY <3>3, <3>5
    <3>7. PICK j \in 1 .. L : j > n - 1 /\ z = s[j].id
      BY <1>8, <2>1, <3>3
    <3>8. i - 1 \in 1 .. L
      BY <1>2, <3>6
    <3>9. i - 1 = j
      BY <1>2, <3>6, <3>7, <3>8 DEF Unique
    <3>10. i > n
      BY <1>2, <3>7, <3>9
    <3>11. QED
      BY <3>1, <3>2, <3>10
  <2>5. QED
    BY <2>4
<1>9. P(L) => left[L] = {}
  BY <1>2
<1> HIDE DEF P
<1>10. 0 .. L \subseteq T
  <2>1. 0 \in T
    BY <1>2, <1>7
  <2>2. \A n \in 1 .. L : n - 1 \in T => n \in T
    BY <1>8
  <2> HIDE DEF T
  <2>3. QED
    BY <1>2, <2>1, <2>2, UpTo
<1>11. P(L)
  BY <1>2, <1>10
<1>12. QED
  BY <1>1, <1>5, <1>9, <1>11

-----------------------------------------------------------------------------
(* What is compiled from a proposal. *)

(* The ids that are numbered 0.                                            *)
Numberless(u) == \A x \in Ids(u) : x[3] = 0

LEMMA SystemSteps ==
  ASSUME NEW rag, NEW memory, NEW u,
         u = Structural("validate_event") \o Structural("rule_router")
               \o If(rag, Structural("rag_retrieve")) \o If(memory, Structural("memory_context"))
  PROVE  /\ Piece(u)
         /\ \A x \in Ids(u) :
              /\ x[1] = "step" /\ x[3] = 0
              /\ x[2] \in {"validate_event", "rule_router", "rag_retrieve", "memory_context"}
<1>1. PICK p1, p2, p3, p4 : /\ p1 = Structural("validate_event") /\ p2 = Structural("rule_router")
                            /\ p3 = If(rag, Structural("rag_retrieve"))
                            /\ p4 = If(memory, Structural("memory_context"))
  OBVIOUS
<1>2. Piece(p1) /\ \A x \in Ids(p1) : x = <<"step", "validate_event", 0>>
  BY <1>1, PieceOfStructural DEF System
<1>3. Piece(p2) /\ \A x \in Ids(p2) : x = <<"step", "rule_router", 0>>
  BY <1>1, PieceOfStructural DEF System
<1>4. Piece(p3) /\ \A x \in Ids(p3) : x = <<"step", "rag_retrieve", 0>>
  <2>1. /\ Piece(Structural("rag_retrieve"))
        /\ Ids(Structural("rag_retrieve")) = {<<"step", "rag_retrieve", 0>>}
    BY PieceOfStructural DEF System
  <2>2. QED
    BY <1>1, <2>1, PieceIf
<1>5. Piece(p4) /\ \A x \in Ids(p4) : x = <<"step", "memory_context", 0>>
  <2>1. /\ Piece(Structural("memory_context"))
        /\ Ids(Structural("memory_context")) = {<<"step", "memory_context", 0>>}
    BY PieceOfStructural DEF System
  <2>2. QED
    BY <1>1, <2>1, PieceIf
<1>6. Piece(p1 \o p2) /\ Ids(p1 \o p2) = Ids(p1) \cup Ids(p2)
  <2>1. Ids(p1) \cap Ids(p2) = {}
    BY <1>2, <1>3, Apart
  <2>2. QED
    BY <1>2, <1>3, <2>1, PieceConcat
<1>7. Piece(p1 \o p2 \o p3) /\ Ids(p1 \o p2 \o p3) = Ids(p1) \cup Ids(p2) \cup Ids(p3)
  <2>1. Ids(p1 \o p2) \cap Ids(p3) = {}
    BY <1>2, <1>3, <1>4, <1>6, Apart
  <2>2. QED
    BY <1>4, <1>6, <2>1, PieceConcat
<1>8. /\ Piece(p1 \o p2 \o p3 \o p4)
      /\ Ids(p1 \o p2 \o p3 \o p4) = Ids(p1) \cup Ids(p2) \cup Ids(p3) \cup Ids(p4)
  <2>1. Ids(p1 \o p2 \o p3) \cap Ids(p4) = {}
    BY <1>2, <1>3, <1>4, <1>5, <1>7, Apart
  <2>2. QED
    BY <1>5, <1>7, <2>1, PieceConcat
<1>9. u = p1 \o p2 \o p3 \o p4
  BY <1>1
<1>10. ASSUME NEW x \in Ids(p1) \cup Ids(p2) \cup Ids(p3) \cup Ids(p4)
       PROVE  /\ x[1] = "step" /\ x[3] = 0
              /\ x[2] \in {"validate_event", "rule_router", "rag_retrieve", "memory_context"}
  <2>1. \E t \in {"validate_event", "rule_router", "rag_retrieve", "memory_context"} :
          x = <<"step", t, 0>>
    BY <1>2, <1>3, <1>4, <1>5
  <2>2. QED
    BY <2>1
<1>11. QED
  BY <1>8, <1>9, <1>10

(* A compiled plan is a piece, wired.                                      *)
LEMMA CompileIs ==
  ASSUME NEW items \in Seq(Item), Compilable(items), NEW rag, NEW memory
  PROVE  \E u : Piece(u) /\ Compile(items, rag, memory) = Wire(u)
<1>1. PICK h, b, none :
        /\ h = Structural("validate_event") \o Structural("rule_router")
                 \o If(rag, Structural("rag_retrieve")) \o If(memory, Structural("memory_context"))
        /\ none = {} /\ b = Body(items, none)
  OBVIOUS
<1>2. /\ Piece(h)
      /\ \A x \in Ids(h) :
           /\ x[1] = "step" /\ x[3] = 0
           /\ x[2] \in {"validate_event", "rule_router", "rag_retrieve", "memory_context"}
  BY <1>1, SystemSteps
<1>3. /\ Piece(b)
      /\ \A x \in Ids(b) :
           \/ x \in {<<"step", t, 0>> : t \in {"evidence_evaluate", "risk_gate", "close"}}
           \/ x[1] # "step" /\ x \notin none
  <2>1. none \in SUBSET Id /\ IsFiniteSet(none)
    BY <1>1, FS_EmptySet
  <2>2. QED
    BY <1>1, <2>1, BodyIs
<1>4. Ids(h) \cap Ids(b) = {}
  <2>1. \A x \in Ids(b) : x[2] \in {"evidence_evaluate", "risk_gate", "close"} \/ x[1] # "step"
    BY <1>3
  <2>2. QED
    BY <1>2, <2>1, Apart
<1>5. Piece(h \o b)
  BY <1>2, <1>3, <1>4, PieceConcat
<1>6. Compile(items, rag, memory) = Wire(h \o b)
  BY <1>1 DEF Compile
<1>7. QED
  BY <1>5, <1>6

-----------------------------------------------------------------------------
(* What is built from the rules. *)

(* u lists elements of A, each at most once.                               *)
OnceOf(u, A) == u \in Seq(A) /\ \A i, j \in DOMAIN u : u[i] = u[j] => i = j

LEMMA OnceConcat ==
  ASSUME NEW u, NEW A, NEW v, NEW B, OnceOf(u, A), OnceOf(v, B), A \cap B = {}
  PROVE  OnceOf(u \o v, A \cup B)
<1>1. PICK L, M, w : L = Len(u) /\ M = Len(v) /\ w = u \o v
  OBVIOUS
<1>2. u \in Seq(A) /\ v \in Seq(B)
  BY DEF OnceOf
<1>3. /\ L \in Nat /\ M \in Nat /\ DOMAIN u = 1 .. L /\ DOMAIN v = 1 .. M
      /\ DOMAIN w = 1 .. L + M
      /\ \A p \in 1 .. L : w[p] = u[p] /\ u[p] \in A
      /\ \A p \in 1 .. M : w[L + p] = v[p] /\ v[p] \in B
  BY <1>1, <1>2
<1>4. \A p \in 1 .. L + M : p \in 1 .. L \/ (p - L \in 1 .. M /\ p = L + (p - L))
  BY <1>3
<1>5. w \in Seq(A \cup B)
  BY <1>1, <1>2
<1>6. ASSUME NEW p \in 1 .. L + M, NEW r \in 1 .. L + M, w[p] = w[r] PROVE p = r
  <2>1. CASE p \in 1 .. L /\ r \in 1 .. L
    BY <1>3, <1>6, <2>1 DEF OnceOf
  <2>2. CASE p \in 1 .. L /\ r - L \in 1 .. M /\ r = L + (r - L)
    <3>1. w[p] \in A /\ w[r] \in B
      BY <1>3, <2>2
    <3>2. QED
      BY <1>6, <3>1
  <2>3. CASE r \in 1 .. L /\ p - L \in 1 .. M /\ p = L + (p - L)
    <3>1. w[r] \in A /\ w[p] \in B
      BY <1>3, <2>3
    <3>2. QED
      BY <1>6, <3>1
  <2>4. CASE /\ p - L \in 1 .. M /\ p = L + (p - L)
             /\ r - L \in 1 .. M /\ r = L + (r - L)
    <3>1. v[p - L] = v[r - L]
      BY <1>3, <1>6, <2>4
    <3>2. p - L = r - L
      BY <1>3, <2>4, <3>1 DEF OnceOf
    <3>3. QED
      BY <1>3, <2>4, <3>2
  <2>5. QED
    BY <1>4, <2>1, <2>2, <2>3, <2>4
<1>7. QED
  BY <1>1, <1>3, <1>5, <1>6 DEF OnceOf

LEMMA OnceOfSet ==
  ASSUME NEW T, IsFiniteSet(T), NEW c
  PROVE  OnceOf(SetToSeq(T), T) /\ OnceOf(If(c, SetToSeq(T)), T)
  BY SetToSeqIs DEF OnceOf, If

(* The resolver proposes no action twice.                                  *)
LEMMA CandidatesAre ==
  ASSUME NEW high, NEW recommended, NEW simulate
  PROVE  OnceOf(Candidates(high, recommended, simulate), Risky \cup {Save})
<1>1. PICK rule : rule = If(high, SetToSeq(Notify))
  OBVIOUS
<1>2. PICK new : new = {a \in recommended : Classify(a) /\ a \notin ToSet(rule)}
  OBVIOUS
<1>3. PICK one, two, three, four :
        one = rule /\ two = SetToSeq(new) /\ three = If(simulate, SetToSeq(Simulate)) /\ four = <<Save>>
  OBVIOUS
<1>4. OnceOf(one, Notify)
  BY <1>1, <1>3, PlanAssumption, OnceOfSet
<1>5. PICK R : R = ToSet(one)
  OBVIOUS
<1>6. OnceOf(one, R) /\ R \subseteq Notify
  BY <1>4, <1>5 DEF OnceOf, ToSet
<1>7. new \in SUBSET Notify /\ R \cap new = {}
  BY <1>2, <1>3, <1>5 DEF Classify
<1>8. IsFiniteSet(new)
  BY <1>7, PlanAssumption, FS_Subset
<1>9. OnceOf(two, new)
  BY <1>3, <1>8, OnceOfSet
<1>10. OnceOf(three, Simulate)
  BY <1>3, PlanAssumption, OnceOfSet
<1>11. OnceOf(four, {Save})
  BY <1>3 DEF OnceOf
<1>12. OnceOf(one \o two, R \cup new)
  BY <1>6, <1>7, <1>9, OnceConcat
<1>13. OnceOf(one \o two \o three, R \cup new \cup Simulate)
  <2>1. (R \cup new) \cap Simulate = {}
    BY <1>6, <1>7, PlanAssumption
  <2>2. QED
    BY <1>10, <1>12, <2>1, OnceConcat
<1>14. OnceOf(one \o two \o three \o four, R \cup new \cup Simulate \cup {Save})
  <2>1. (R \cup new \cup Simulate) \cap {Save} = {}
    BY <1>6, <1>7, PlanAssumption DEF Risky
  <2>2. QED
    BY <1>11, <1>13, <2>1, OnceConcat
<1>15. Candidates(high, recommended, simulate) = one \o two \o three \o four
  BY <1>1, <1>2, <1>3 DEF Candidates
<1>16. R \cup new \cup Simulate \cup {Save} \subseteq Risky \cup {Save}
  BY <1>6, <1>7 DEF Risky
<1>17. QED
  <2>1. PICK u, A : u = one \o two \o three \o four /\ A = R \cup new \cup Simulate \cup {Save}
    OBVIOUS
  <2>2. OnceOf(u, A) /\ A \subseteq Risky \cup {Save}
    BY <1>14, <1>16, <2>1
  <2>3. OnceOf(u, Risky \cup {Save})
    BY <2>2 DEF OnceOf
  <2>4. QED
    BY <1>15, <2>1, <2>3

(* The agents of a plan of rules.                                          *)
LEMMA RuleAgents ==
  ASSUME NEW A, NEW f, OnceOf(f, A), A \subseteq Agent,
         NEW u, u = [i \in DOMAIN f |-> AgentStep(f[i], 0)]
  PROVE  Piece(u) /\ \A x \in Ids(u) : x[1] = "agent" /\ x[3] = 0
<1>1. PICK K, n : K = Len(f) /\ n = [i \in 1 .. K |-> 0]
  OBVIOUS
<1>2. f \in Seq(A) /\ \A i, j \in DOMAIN f : f[i] = f[j] => i = j
  BY DEF OnceOf
<1>3. K \in Nat /\ DOMAIN f = 1 .. K /\ \A i \in 1 .. K : f[i] \in Agent
  BY <1>1, <1>2
<1>4. \A i \in 1 .. K : n[i] = 0
  BY <1>1
<1>5. AgentList(u, K, f, n)
  BY <1>2, <1>3, <1>4 DEF AgentList, IsList
<1>6. Piece(u) /\ \A x \in Ids(u) : x[1] = "agent" /\ \E i \in 1 .. K : x[2] = f[i] /\ x[3] = n[i]
  BY <1>5, PieceOfAgents
<1>7. QED
  BY <1>4, <1>6

(* Its actions.                                                            *)
LEMMA RuleActions ==
  ASSUME NEW a, OnceOf(a, Risky \cup {Save}),
         NEW ss, ss = [i \in DOMAIN a |-> Gated(a[i], 0, 0, 1, FALSE)]
  PROVE  /\ Piece(FlattenSeq(ss))
         /\ \A x \in Ids(FlattenSeq(ss)) : x[1] \in {"action", "approval"} /\ x[3] = 0
<1>1. PICK b, r, K, n, m, e, y : /\ b = a /\ r = ss
                                 /\ K = Len(b) /\ n = [i \in 1 .. K |-> 0] /\ m = n
                                 /\ e = [i \in 1 .. K |-> 1] /\ y = FALSE
  OBVIOUS
<1>2. b \in Seq(Risky \cup {Save}) /\ \A i, j \in DOMAIN b : b[i] = b[j] => i = j
  BY <1>1 DEF OnceOf
<1>3. K \in Nat /\ DOMAIN b = 1 .. K /\ \A i \in 1 .. K : b[i] \in Risky \cup {Save}
  BY <1>1, <1>2
<1>4. \A i \in 1 .. K : n[i] = 0 /\ m[i] = 0 /\ e[i] = 1
  BY <1>1
<1>5. \A i \in 1 .. K : r[i] = Gated(b[i], n[i], m[i], e[i], y)
  BY <1>1, <1>3, <1>4
<1>6. IsList(r, K)
  BY <1>1, <1>3 DEF IsList
<1>7. GatedList(r, K, b, n, m, e, y)
  BY <1>1, <1>2, <1>3, <1>4, <1>5, <1>6 DEF GatedList
<1>8. /\ Piece(FlattenSeq(r))
      /\ \A x \in Ids(FlattenSeq(r)) : \E i \in 1 .. K :
           /\ x[2] = b[i]
           /\ \/ x[1] = "action" /\ x[3] = n[i]
              \/ x[1] = "approval" /\ b[i] \in Risky /\ x[3] = m[i]
  BY <1>7, PieceOfGated
<1>9. \A x \in Ids(FlattenSeq(r)) : x[1] \in {"action", "approval"} /\ x[3] = 0
  BY <1>4, <1>8
<1>10. QED
  BY <1>1, <1>8, <1>9

(* A plan of rules is a piece without numbers, wired.                      *)
LEMMA BuildPlanIs ==
  ASSUME NEW A, A \subseteq Agent, NEW agents, OnceOf(agents, A),
         NEW candidates, OnceOf(candidates, Risky \cup {Save})
  PROVE  \E u : /\ Piece(u) /\ Numberless(u) /\ <<"step", "close", 0>> \in Ids(u)
                /\ BuildPlan(agents, candidates) = Wire(u)
<1>1. PICK p1, p2, p3, p4, p5, p6 :
        /\ p1 = Structural("validate_event") \o Structural("rule_router")
                  \o Structural("rag_retrieve") \o Structural("memory_context")
        /\ p2 = [i \in DOMAIN agents |-> AgentStep(agents[i], 0)]
        /\ p3 = Structural("evidence_evaluate") /\ p4 = Structural("risk_gate")
        /\ p5 = FlattenSeq([i \in DOMAIN candidates |-> Gated(candidates[i], 0, 0, 1, FALSE)])
        /\ p6 = Structural("close")
  OBVIOUS
<1>2. /\ Piece(p1)
      /\ \A x \in Ids(p1) :
           /\ x[1] = "step" /\ x[3] = 0
           /\ x[2] \in {"validate_event", "rule_router", "rag_retrieve", "memory_context"}
  <2>1. PICK yes : yes = TRUE
    OBVIOUS
  <2>2. p1 = Structural("validate_event") \o Structural("rule_router")
               \o If(yes, Structural("rag_retrieve")) \o If(yes, Structural("memory_context"))
    BY <1>1, <2>1 DEF If
  <2>3. QED
    BY <2>2, SystemSteps
<1>3. Piece(p2) /\ \A x \in Ids(p2) : x[1] = "agent" /\ x[3] = 0
  BY <1>1, RuleAgents
<1>4. Piece(p3) /\ \A x \in Ids(p3) : x = <<"step", "evidence_evaluate", 0>>
  BY <1>1, PieceOfStructural DEF System
<1>5. Piece(p4) /\ \A x \in Ids(p4) : x = <<"step", "risk_gate", 0>>
  BY <1>1, PieceOfStructural DEF System
<1>6. Piece(p5) /\ \A x \in Ids(p5) : x[1] \in {"action", "approval"} /\ x[3] = 0
  BY <1>1, RuleActions
<1>7. /\ Piece(p6) /\ \A x \in Ids(p6) : x = <<"step", "close", 0>>
      /\ <<"step", "close", 0>> \in Ids(p6)
  BY <1>1, PieceOfStructural DEF System
<1>8. Piece(p1 \o p2) /\ Ids(p1 \o p2) = Ids(p1) \cup Ids(p2)
  <2>1. Ids(p1) \cap Ids(p2) = {}
    BY <1>2, <1>3, Apart
  <2>2. QED
    BY <1>2, <1>3, <2>1, PieceConcat
<1>9. Piece(p1 \o p2 \o p3) /\ Ids(p1 \o p2 \o p3) = Ids(p1) \cup Ids(p2) \cup Ids(p3)
  <2>1. Ids(p1 \o p2) \cap Ids(p3) = {}
    BY <1>2, <1>3, <1>4, <1>8, Apart
  <2>2. QED
    BY <1>4, <1>8, <2>1, PieceConcat
<1>10. /\ Piece(p1 \o p2 \o p3 \o p4)
       /\ Ids(p1 \o p2 \o p3 \o p4) = Ids(p1) \cup Ids(p2) \cup Ids(p3) \cup Ids(p4)
  <2>1. Ids(p1 \o p2 \o p3) \cap Ids(p4) = {}
    BY <1>2, <1>3, <1>4, <1>5, <1>9, Apart
  <2>2. QED
    BY <1>5, <1>9, <2>1, PieceConcat
<1>11. /\ Piece(p1 \o p2 \o p3 \o p4 \o p5)
       /\ Ids(p1 \o p2 \o p3 \o p4 \o p5) = Ids(p1) \cup Ids(p2) \cup Ids(p3) \cup Ids(p4) \cup Ids(p5)
  <2>1. Ids(p1 \o p2 \o p3 \o p4) \cap Ids(p5) = {}
    BY <1>2, <1>3, <1>4, <1>5, <1>6, <1>10, Apart
  <2>2. QED
    BY <1>6, <1>10, <2>1, PieceConcat
<1>12. /\ Piece(p1 \o p2 \o p3 \o p4 \o p5 \o p6)
       /\ Ids(p1 \o p2 \o p3 \o p4 \o p5 \o p6)
            = Ids(p1) \cup Ids(p2) \cup Ids(p3) \cup Ids(p4) \cup Ids(p5) \cup Ids(p6)
  <2>1. Ids(p1 \o p2 \o p3 \o p4 \o p5) \cap Ids(p6) = {}
    BY <1>2, <1>3, <1>4, <1>5, <1>6, <1>7, <1>11, Apart
  <2>2. QED
    BY <1>7, <1>11, <2>1, PieceConcat
<1>13. BuildPlan(agents, candidates) = Wire(p1 \o p2 \o p3 \o p4 \o p5 \o p6)
  BY <1>1 DEF BuildPlan
<1>14. ASSUME NEW x \in Ids(p1) \cup Ids(p2) \cup Ids(p3) \cup Ids(p4) \cup Ids(p5) \cup Ids(p6)
       PROVE  x[3] = 0
  <2>1. CASE x \in Ids(p3) \cup Ids(p4) \cup Ids(p6)
    BY <1>4, <1>5, <1>7, <2>1
  <2>2. CASE x \in Ids(p1) \cup Ids(p2) \cup Ids(p5)
    BY <1>2, <1>3, <1>6, <2>2
  <2>3. QED
    BY <2>1, <2>2
<1>15. PICK u : u = p1 \o p2 \o p3 \o p4 \o p5 \o p6
  OBVIOUS
<1>16. /\ Piece(u) /\ BuildPlan(agents, candidates) = Wire(u)
       /\ Ids(u) = Ids(p1) \cup Ids(p2) \cup Ids(p3) \cup Ids(p4) \cup Ids(p5) \cup Ids(p6)
  BY <1>12, <1>13, <1>15
<1>17. Numberless(u) /\ <<"step", "close", 0>> \in Ids(u)
  BY <1>7, <1>14, <1>16 DEF Numberless
<1>18. QED
  BY <1>16, <1>17

(* Such a plan passes validate_plan.                                       *)
LEMMA BuiltIsValid ==
  ASSUME NEW u, Piece(u), Numberless(u), <<"step", "close", 0>> \in Ids(u)
  PROVE  Valid(Wire(u), FALSE)
<1>1. PICK w, L : w = Wire(u) /\ L = Len(u)
  OBVIOUS
<1>2. u \in Seq(StepRec) /\ \A i \in DOMAIN u : u[i].carried = FALSE
  BY DEF Piece
<1>3. /\ w \in Seq(StepRec) /\ L \in Nat /\ DOMAIN u = 1 .. L /\ DOMAIN w = 1 .. L
      /\ \A i \in 1 .. L :
           /\ w[i].id = u[i].id /\ w[i].type = u[i].type /\ w[i].action = u[i].action
           /\ w[i].deps = IF i = 1 THEN {} ELSE {u[i - 1].id}
      /\ Chained(w, 0)
  <2>1. L \in Nat /\ DOMAIN u = 1 .. L
    BY <1>1, <1>2
  <2>2. /\ Wire(u) \in Seq(StepRec) /\ DOMAIN Wire(u) = DOMAIN u
        /\ \A i \in DOMAIN u :
             /\ Wire(u)[i].id = u[i].id /\ Wire(u)[i].type = u[i].type
             /\ Wire(u)[i].action = u[i].action
             /\ Wire(u)[i].deps = IF i = 1 THEN {} ELSE {u[i - 1].id}
        /\ Chained(Wire(u), 0)
    BY <1>2, WireIs
  <2>3. QED
    BY <1>1, <2>1, <2>2
<1>4. Unique(w)
  <2>1. Unique(u)
    BY DEF Piece
  <2>2. QED
    BY <1>3, <2>1 DEF Unique
<1>5. ASSUME NEW i \in 1 .. L, i # 1 PROVE i - 1 \in 1 .. L /\ w[i].deps = {w[i - 1].id}
  <2>1. i - 1 \in 1 .. L
    BY <1>3, <1>5
  <2>2. w[i].deps = {u[i - 1].id} /\ w[i - 1].id = u[i - 1].id
    BY <1>3, <1>5, <2>1
  <2>3. QED
    BY <2>1, <2>2
<1>6. \A x \in ToSet(w) : \E i \in 1 .. L : x = w[i]
  BY <1>3 DEF ToSet
<1>7. \A i \in 1 .. L : w[i] \in ToSet(w)
  BY <1>3 DEF ToSet
<1>8. ASSUME NEW x \in ToSet(w) PROVE x.deps \subseteq Ids(w)
  <2>1. PICK i \in 1 .. L : x = w[i]
    BY <1>6
  <2>2. CASE i = 1
    BY <1>3, <2>1, <2>2
  <2>3. CASE i # 1
    <3>1. i - 1 \in DOMAIN w /\ w[i].deps = {w[i - 1].id}
      BY <1>3, <1>5, <2>3
    <3>2. w[i - 1].id \in Ids(w)
      BY <3>1, IdsAre
    <3>3. QED
      BY <2>1, <3>1, <3>2
  <2>4. QED
    BY <2>2, <2>3
<1>9. ~Cyclic(w)
  BY <1>3, <1>4, ChainIsAcyclic
<1>10. ASSUME NEW i \in 1 .. L
       PROVE  /\ w[i].id[3] = 0
              /\ w[i].type = "action" => w[i].id[1] = "action" /\ w[i].id[2] = w[i].action
              /\ w[i].id[1] = "step" => w[i].id = <<"step", w[i].type, 0>>
              /\ w[i].id \in Id
  <2>1. u[i].id \in Ids(u)
    BY <1>3, IdsAre
  <2>2. w[i] \in StepRec
    BY <1>3
  <2>3. QED
    BY <1>3, <2>1, <2>2 DEF Numberless, StepRec, Named
<1>11. \E x \in ToSet(w) : x.type = "close"
  <2>1. PICK i \in 1 .. L : <<"step", "close", 0>> = u[i].id
    BY <1>3, IdsAre
  <2>2. w[i].id = <<"step", "close", 0>>
    BY <1>3, <2>1
  <2>3. w[i].id[1] = "step" /\ w[i].id[2] = "close"
    BY <2>2
  <2>4. w[i].id = <<"step", w[i].type, 0>>
    BY <1>10, <2>3
  <2>5. w[i].type = "close"
    BY <2>3, <2>4
  <2>6. QED
    BY <1>7, <2>5
<1>12. DistinctActions(w, FALSE)
  <2>1. ASSUME NEW i \in 1 .. L, NEW j \in 1 .. L, w[i].type = "action", w[j].type = "action",
               w[i].action = w[j].action
        PROVE  i = j
    <3>1. PICK x, y : x = w[i].id /\ y = w[j].id
      OBVIOUS
    <3>2. /\ x \in Id /\ y \in Id
          /\ x[1] = "action" /\ y[1] = "action" /\ x[2] = y[2] /\ x[3] = 0 /\ y[3] = 0
      BY <1>10, <2>1, <3>1
    <3>3. x = <<x[1], x[2], x[3]>> /\ y = <<y[1], y[2], y[3]>>
      BY <3>2, IdParts
    <3>4. x = y
      BY <3>2, <3>3
    <3>5. w[i].id = w[j].id
      BY <3>1, <3>4
    <3>6. QED
      BY <1>3, <1>4, <3>5 DEF Unique
  <2>2. QED
    BY <1>3, <2>1 DEF DistinctActions
<1>13. ASSUME NEW x \in RiskyActions(w) PROVE HasGate(w, x, FALSE)
  <2>1. PICK i \in 1 .. L : x = w[i] /\ w[i].type = "action" /\ w[i].action \in Risky
    BY <1>6 DEF RiskyActions
  <2>2. Guarded(u) /\ u[i].type = "action" /\ u[i].action \in Risky
    BY <1>3, <2>1 DEF Piece
  <2>3. i > 1 /\ u[i - 1].type = "human_approval" /\ u[i - 1].action = u[i].action
    BY <1>3, <2>2 DEF Guarded
  <2>4. i # 1
    BY <2>3
  <2>5. i - 1 \in 1 .. L /\ w[i].deps = {w[i - 1].id}
    BY <1>5, <2>4
  <2>6. w[i - 1].type = "human_approval" /\ w[i - 1].action = w[i].action
    BY <1>3, <2>3, <2>5
  <2>7. w[i - 1] \in Gates(w) /\ w[i - 1].id \in x.deps /\ w[i - 1].action = x.action
    BY <1>7, <2>1, <2>5, <2>6 DEF Gates
  <2>8. QED
    BY <2>7 DEF HasGate
<1>14. QED
  BY <1>1, <1>4, <1>8, <1>9, <1>11, <1>12, <1>13 DEF Valid

-----------------------------------------------------------------------------
(* Revisions. *)

LEMMA CarryIs ==
  ASSUME NEW x \in StepRec
  PROVE  /\ Carry(x) \in StepRec
         /\ Carry(x).id = x.id /\ Carry(x).deps = x.deps /\ Carry(x).type = x.type
         /\ Carry(x).carried = TRUE
<1>1. PICK y : y = Carry(x)
  OBVIOUS
<1>2. y = [x EXCEPT !.carried = TRUE, !.target = NoId]
  BY <1>1 DEF Carry
<1>3. /\ y.id = x.id /\ y.type = x.type /\ y.action = x.action /\ y.target = NoId
      /\ y.deps = x.deps /\ y.carried = TRUE
  BY <1>2 DEF StepRec
<1>4. Named(y)
  BY <1>3 DEF StepRec, Named
<1>5. y \in StepRec
  BY <1>2, <1>4 DEF StepRec
<1>6. QED
  BY <1>1, <1>3, <1>5

(* A revision carries the completed steps and leaves the others chained.   *)
LEMMA RevisionIs ==
  ASSUME steps \in Seq(StepRec), Unique(steps), NEW m, Chained(steps, m),
         NEW d \in m .. Len(steps), done = {steps[i].id : i \in m + 1 .. d}
  PROVE  Revision \in Seq(StepRec) /\ Unique(Revision) /\ Chained(Revision, d)
<1>1. PICK r, L : r = Revision /\ L = Len(steps)
  OBVIOUS
<1>2. L \in Nat /\ DOMAIN steps = 1 .. L /\ m \in 0 .. L /\ d \in m .. L
  BY <1>1 DEF Chained
<1>3. r = [i \in 1 .. L |-> IF steps[i].id \in done THEN Carry(steps[i]) ELSE steps[i]]
  BY <1>1, <1>2 DEF Revision
<1>4. ASSUME NEW i \in 1 .. L PROVE steps[i].id \in done <=> i \in m + 1 .. d
  <2>1. \A j \in m + 1 .. d : j \in 1 .. L
    BY <1>2
  <2>2. \A j \in m + 1 .. d : steps[i].id = steps[j].id => i = j
    BY <1>2, <2>1 DEF Unique
  <2>3. QED
    BY <2>2
<1>5. ASSUME NEW i \in 1 .. L
      PROVE  /\ r[i] \in StepRec /\ r[i].id = steps[i].id /\ r[i].deps = steps[i].deps
             /\ r[i].carried <=> i <= d
  <2>1. PICK x : x = steps[i]
    OBVIOUS
  <2>2. x \in StepRec
    BY <1>2, <2>1
  <2>3. CASE i \in m + 1 .. d
    <3>1. r[i] = Carry(x)
      BY <1>3, <1>4, <2>1, <2>3
    <3>2. r[i] \in StepRec /\ r[i].id = x.id /\ r[i].deps = x.deps /\ r[i].carried = TRUE
      BY <2>2, <3>1, CarryIs
    <3>3. i <= d
      BY <1>2, <2>3
    <3>4. QED
      BY <2>1, <3>2, <3>3
  <2>4. CASE i \notin m + 1 .. d
    <3>1. r[i] = x
      BY <1>3, <1>4, <2>1, <2>4
    <3>2. x.carried <=> i <= m
      BY <1>2, <2>1 DEF Chained
    <3>3. i <= m <=> i <= d
      BY <1>2, <2>4
    <3>4. QED
      BY <2>1, <2>2, <3>1, <3>2, <3>3
  <2>5. QED
    BY <2>3, <2>4
<1>6. r \in Seq(StepRec) /\ Len(r) = L /\ DOMAIN r = 1 .. L
  <2>1. IsList(r, L)
    BY <1>3 DEF IsList
  <2>2. \A i \in 1 .. L : r[i] \in StepRec
    BY <1>5
  <2>3. QED
    BY <1>2, <2>1, <2>2, IsSeq
<1>7. Unique(r)
  BY <1>2, <1>5, <1>6 DEF Unique
<1>8. Chained(r, d)
  <2>1. d \in 0 .. Len(r)
    BY <1>2, <1>6
  <2>2. \A i \in 1 .. L : r[i].carried <=> i <= d
    BY <1>5
  <2>3. ASSUME NEW i \in 1 .. L, i > d PROVE r[i].deps = IF i = 1 THEN {} ELSE {r[i - 1].id}
    <3>1. i > m
      BY <1>2, <2>3
    <3>2. r[i].deps = IF i = 1 THEN {} ELSE {steps[i - 1].id}
      <4>1. steps[i].deps = IF i = 1 THEN {} ELSE {steps[i - 1].id}
        BY <1>2, <3>1 DEF Chained
      <4>2. QED
        BY <1>5, <4>1
    <3>3. i # 1 => i - 1 \in 1 .. L
      BY <1>2
    <3>4. i # 1 => r[i - 1].id = steps[i - 1].id
      BY <1>5, <3>3
    <3>5. QED
      BY <3>2, <3>4
  <2>4. QED
    BY <1>6, <2>1, <2>2, <2>3 DEF Chained
<1>9. QED
  BY <1>1, <1>6, <1>7, <1>8

LEMMA ConcatPlaces ==
  ASSUME NEW S, NEW u \in Seq(S), NEW v \in Seq(S), NEW w, w = u \o v,
         NEW L, L = Len(u), NEW M, M = Len(v)
  PROVE  /\ w \in Seq(S) /\ Len(w) = L + M /\ DOMAIN w = 1 .. L + M
         /\ \A k \in 1 .. L : w[k] = u[k]
         /\ \A k \in 1 .. M : w[L + k] = v[k]
  OBVIOUS

(* v is the piece u, wired after the carried steps p.                      *)
WiredAfter(p, u, v) ==
  /\ p \in Seq(StepRec) /\ Unique(p) /\ \A i \in DOMAIN p : p[i].carried = TRUE
  /\ Piece(u) /\ Ids(p) \cap Ids(u) = {}
  /\ v = [i \in DOMAIN Wire(u) |->
            IF i = 1 /\ p # <<>> THEN [Wire(u)[i] EXCEPT !.deps = {p[Len(p)].id}] ELSE Wire(u)[i]]

LEMMA ChainAfter ==
  ASSUME NEW p, NEW u, NEW v, WiredAfter(p, u, v)
  PROVE  p \o v \in Seq(StepRec) /\ Unique(p \o v) /\ Chained(p \o v, Len(p))
<1>1. /\ p \in Seq(StepRec) /\ Unique(p) /\ \A i \in DOMAIN p : p[i].carried = TRUE
      /\ Piece(u) /\ Ids(p) \cap Ids(u) = {}
  BY DEF WiredAfter
<1>2. PICK L, M, z, w : L = Len(p) /\ M = Len(u) /\ z = p \o v /\ w = Wire(u)
  OBVIOUS
<1>3. v = [i \in DOMAIN w |->
            IF i = 1 /\ p # <<>> THEN [w[i] EXCEPT !.deps = {p[Len(p)].id}] ELSE w[i]]
  BY <1>2, Zenon DEF WiredAfter
<1>4. u \in Seq(StepRec) /\ Unique(u) /\ \A i \in DOMAIN u : u[i].carried = FALSE
  BY <1>1 DEF Piece
<1>5. L \in Nat /\ M \in Nat /\ DOMAIN p = 1 .. L /\ DOMAIN u = 1 .. M
  BY <1>2, <1>4, <1>1
<1>6. /\ w \in Seq(StepRec) /\ DOMAIN w = 1 .. M
      /\ \A i \in 1 .. M : /\ w[i].id = u[i].id /\ w[i].carried = FALSE
                           /\ w[i].deps = IF i = 1 THEN {} ELSE {u[i - 1].id}
  <2>1. /\ Wire(u) \in Seq(StepRec) /\ DOMAIN Wire(u) = DOMAIN u
        /\ \A i \in DOMAIN u :
             /\ Wire(u)[i].id = u[i].id /\ Wire(u)[i].carried = FALSE
             /\ Wire(u)[i].deps = IF i = 1 THEN {} ELSE {u[i - 1].id}
    BY <1>4, WireIs
  <2>2. QED
    BY <1>2, <1>5, <2>1
<1>7. ASSUME NEW i \in 1 .. M
      PROVE  /\ v[i] \in StepRec /\ v[i].id = u[i].id /\ v[i].carried = FALSE
             /\ v[i].deps = IF i = 1 THEN IF L = 0 THEN {} ELSE {p[L].id} ELSE {u[i - 1].id}
  <2>1. PICK x, y : x = w[i] /\ y = v[i]
    OBVIOUS
  <2>2. w[i] \in StepRec
    <3>1. PICK T : T = StepRec
      OBVIOUS
    <3>2. w \in Seq(T) /\ i \in DOMAIN w
      BY <1>6, <3>1
    <3>3. w[i] \in T
      BY <3>2
    <3>4. QED
      BY <3>1, <3>3
  <2>3. w[i].deps = IF i = 1 THEN {} ELSE {u[i - 1].id}
    BY <1>6
  <2>4. /\ x \in StepRec /\ x.id = u[i].id /\ x.carried = FALSE
        /\ x.deps = IF i = 1 THEN {} ELSE {u[i - 1].id}
    BY <1>6, <2>1, <2>2, <2>3
  <2>5. p # <<>> <=> L # 0
    BY <1>2, <1>5, <1>1
  <2>6. CASE i = 1 /\ L # 0
    <3>1. PICK D : D = {p[L].id}
      OBVIOUS
    <3>2. y = [x EXCEPT !.deps = D]
      BY <1>2, <1>6, <1>3, <2>1, <2>5, <2>6, <3>1
    <3>3. D \in SUBSET Id
      <4>1. L \in 1 .. L
        BY <1>5, <2>6
      <4>2. p[L] \in StepRec
        BY <1>5, <1>1, <4>1
      <4>3. QED
        BY <3>1, <4>2 DEF StepRec
    <3>4. /\ y.id = x.id /\ y.type = x.type /\ y.action = x.action /\ y.target = x.target
          /\ y.carried = x.carried /\ y.deps = D
      BY <2>4, <3>2 DEF StepRec
    <3>5. Named(y)
      BY <2>4, <3>4 DEF StepRec, Named
    <3>6. y \in StepRec
      BY <2>4, <3>2, <3>3, <3>5 DEF StepRec
    <3>7. QED
      BY <2>1, <2>4, <2>6, <3>1, <3>4, <3>6
  <2>7. CASE ~(i = 1 /\ L # 0)
    <3>1. y = x
      BY <1>6, <1>3, <2>1, <2>5, <2>7
    <3>2. QED
      BY <2>1, <2>4, <2>7, <3>1
  <2>8. QED
    BY <2>6, <2>7
<1>8. v \in Seq(StepRec) /\ Len(v) = M /\ DOMAIN v = 1 .. M
  <2>1. IsList(v, M)
    BY <1>6, <1>3 DEF IsList
  <2>2. \A i \in 1 .. M : v[i] \in StepRec
    BY <1>7
  <2>3. QED
    BY <1>5, <2>1, <2>2, IsSeq
<1>9. /\ z \in Seq(StepRec) /\ Len(z) = L + M /\ DOMAIN z = 1 .. L + M
      /\ \A k \in 1 .. L : z[k] = p[k]
      /\ \A k \in 1 .. M : z[L + k] = v[k]
  <2>1. p \in Seq(StepRec) /\ v \in Seq(StepRec) /\ z = p \o v /\ L = Len(p) /\ M = Len(v)
    BY <1>2, <1>8, <1>1
  <2>2. QED
    BY <2>1, ConcatPlaces
<1>10. ASSUME NEW k \in 1 .. L + M
      PROVE  k \in 1 .. L \/ \E i \in 1 .. M : k = L + i
  <2>1. CASE k <= L
    BY <1>5, <2>1
  <2>2. CASE ~(k <= L)
    <3>1. k - L \in 1 .. M /\ k = L + (k - L)
      BY <1>5, <2>2
    <3>2. QED
      BY <3>1
  <2>3. QED
    BY <2>1, <2>2
<1>11. ASSUME NEW k \in 1 .. L, NEW j \in 1 .. M PROVE p[k].id # u[j].id
  BY <1>5, <1>1, IdsAre
<1>12. \A k \in 1 .. L : z[k].id = p[k].id
  BY <1>9
<1>13. \A k \in 1 .. M : z[L + k].id = u[k].id
  BY <1>7, <1>9
<1>14. ASSUME NEW k \in 1 .. L + M, NEW j \in 1 .. L + M, z[k].id = z[j].id PROVE k = j
  <2>1. CASE k \in 1 .. L /\ j \in 1 .. L
    BY <1>5, <1>9, <1>14, <1>1, <2>1 DEF Unique
  <2>2. CASE k \in 1 .. L /\ \E i \in 1 .. M : j = L + i
    <3>1. PICK i \in 1 .. M : j = L + i
      BY <2>2
    <3>2. z[k].id = p[k].id /\ z[j].id = u[i].id
      BY <1>12, <1>13, <2>2, <3>1
    <3>3. QED
      BY <1>11, <1>14, <2>2, <3>2
  <2>3. CASE j \in 1 .. L /\ \E i \in 1 .. M : k = L + i
    <3>1. PICK i \in 1 .. M : k = L + i
      BY <2>3
    <3>2. z[j].id = p[j].id /\ z[k].id = u[i].id
      BY <1>12, <1>13, <2>3, <3>1
    <3>3. QED
      BY <1>11, <1>14, <2>3, <3>2
  <2>4. CASE (\E i \in 1 .. M : k = L + i) /\ (\E i \in 1 .. M : j = L + i)
    <3>1. PICK i \in 1 .. M : k = L + i
      BY <2>4
    <3>2. PICK l \in 1 .. M : j = L + l
      BY <2>4
    <3>3. u[i].id = u[l].id
      BY <1>13, <1>14, <3>1, <3>2
    <3>4. i = l
      BY <1>4, <1>5, <3>3 DEF Unique
    <3>5. QED
      BY <3>1, <3>2, <3>4
  <2>5. QED
    BY <1>10, <2>1, <2>2, <2>3, <2>4
<1>15. Unique(z)
  BY <1>9, <1>14 DEF Unique
<1>16. ASSUME NEW k \in 1 .. L + M PROVE z[k].carried <=> k <= L
  <2>1. CASE k \in 1 .. L
    <3>1. z[k].carried = TRUE /\ k <= L
      BY <1>5, <1>9, <1>1, <2>1
    <3>2. QED
      BY <3>1
  <2>2. CASE \E i \in 1 .. M : k = L + i
    <3>1. PICK i \in 1 .. M : k = L + i
      BY <2>2
    <3>2. z[k] = v[i]
      BY <1>9, <3>1
    <3>3. z[k].carried = FALSE
      BY <1>7, <3>2
    <3>4. ~(k <= L)
      BY <1>5, <3>1
    <3>5. QED
      BY <3>3, <3>4
  <2>3. QED
    BY <1>10, <2>1, <2>2
<1>17. ASSUME NEW k \in 1 .. L + M, k > L
       PROVE  z[k].deps = IF k = 1 THEN {} ELSE {z[k - 1].id}
  <2>1. PICK i : i = k - L
    OBVIOUS
  <2>2. i \in 1 .. M /\ k = L + i
    BY <1>5, <1>17, <2>1
  <2>3. z[k] = v[i]
    BY <1>9, <2>2
  <2>4. z[k].deps = IF i = 1 THEN IF L = 0 THEN {} ELSE {p[L].id} ELSE {u[i - 1].id}
    BY <1>7, <2>2, <2>3
  <2>5. CASE i = 1 /\ L = 0
    <3>1. k = 1
      BY <2>2, <2>5
    <3>2. QED
      BY <2>4, <2>5, <3>1
  <2>6. CASE i = 1 /\ L # 0
    <3>1. k # 1 /\ k - 1 = L /\ L \in 1 .. L
      BY <1>5, <2>2, <2>6
    <3>2. z[k - 1] = p[L]
      BY <1>9, <3>1
    <3>3. QED
      BY <2>4, <2>6, <3>1, <3>2
  <2>7. CASE i # 1
    <3>1. k # 1 /\ i - 1 \in 1 .. M /\ k - 1 = L + (i - 1)
      BY <1>5, <2>2, <2>7
    <3>2. z[k - 1] = v[i - 1]
      BY <1>9, <3>1
    <3>3. v[i - 1].id = u[i - 1].id
      BY <1>7, <3>1
    <3>4. QED
      BY <2>4, <2>7, <3>1, <3>2, <3>3
  <2>8. QED
    BY <2>5, <2>6, <2>7
<1>18. Chained(z, L)
  <2>1. L \in 0 .. Len(z)
    BY <1>5, <1>9
  <2>2. QED
    BY <1>9, <1>16, <1>17, <2>1 DEF Chained
<1>19. QED
  BY <1>2, <1>9, <1>15, <1>18

(* A redesign is the completed steps, carried, then the suffix.            *)
LEMMA RedesignIs ==
  ASSUME steps \in Seq(StepRec), Unique(steps), NEW suffix, Piece(suffix),
         \A x \in Ids(suffix) :
           \/ x \in {<<"step", t, 0>> : t \in {"evidence_evaluate", "risk_gate", "close"}}
           \/ x[1] # "step" /\ x \notin done
  PROVE  /\ Redesign(suffix) \in Seq(StepRec) /\ Unique(Redesign(suffix))
         /\ \E m : Chained(Redesign(suffix), m)
<1> DEFINE J == {i \in DOMAIN steps :
                   steps[i].id \in done /\ steps[i].type \notin {"evidence_evaluate", "risk_gate", "close"}}
           kept == Picked(steps, J)
           prefix == [i \in DOMAIN kept |-> Carry(kept[i])]
           wired == [i \in DOMAIN Wire(suffix) |->
                      IF i = 1 /\ prefix # <<>>
                        THEN [Wire(suffix)[i] EXCEPT !.deps = {prefix[Len(prefix)].id}]
                        ELSE Wire(suffix)[i]]
<1>1. Redesign(suffix) = prefix \o wired
  BY DEF Redesign
<1>2. PICK s, I, w, p, v : s = steps /\ I = J /\ w = kept /\ p = prefix /\ v = wired
  OBVIOUS
<1>3. Redesign(suffix) = p \o v
  BY <1>2, <1>1
<1>4. /\ p = [i \in DOMAIN w |-> Carry(w[i])]
      /\ v = [i \in DOMAIN Wire(suffix) |->
               IF i = 1 /\ p # <<>> THEN [Wire(suffix)[i] EXCEPT !.deps = {p[Len(p)].id}]
               ELSE Wire(suffix)[i]]
  BY <1>2, Zenon
<1>5. w = Picked(s, I)
  BY <1>2
<1>6. I = {i \in DOMAIN s :
             s[i].id \in done /\ s[i].type \notin {"evidence_evaluate", "risk_gate", "close"}}
  BY <1>2
<1>7. s \in Seq(StepRec) /\ Unique(s)
  BY <1>2
<1> HIDE DEF J, kept, prefix, wired
<1>8. w \in Seq(StepRec) /\ IsPicked(w, s, I)
  <2>1. I \subseteq DOMAIN s
    BY <1>6
  <2>2. QED
    BY <1>5, <1>7, <2>1, PickedIs
<1>9. PICK q : /\ q \in [DOMAIN w -> I]
               /\ \A k \in DOMAIN w : w[k] = s[q[k]]
               /\ \A k, l \in DOMAIN w : k < l => q[k] < q[l]
  BY <1>8 DEF IsPicked
<1>10. PICK K : K = Len(w)
  OBVIOUS
<1>11. K \in Nat /\ DOMAIN w = 1 .. K /\ \A k \in 1 .. K : w[k] \in StepRec
  BY <1>8, <1>10
<1>12. ASSUME NEW k \in 1 .. K
      PROVE  /\ p[k] \in StepRec /\ p[k].id = w[k].id /\ p[k].carried = TRUE
             /\ q[k] \in DOMAIN s /\ p[k].id = s[q[k]].id
             /\ p[k].id \in done
             /\ p[k].id[1] = "step" => p[k].id[2] \notin {"evidence_evaluate", "risk_gate", "close"}
  <2>1. PICK x, j : x = w[k] /\ j = q[k]
    OBVIOUS
  <2>2. x \in StepRec /\ j \in I /\ x = s[j]
    BY <1>9, <1>11, <2>1
  <2>3. p[k] = Carry(x)
    BY <1>4, <1>11, <2>1
  <2>4. p[k] \in StepRec /\ p[k].id = x.id /\ p[k].carried = TRUE
    BY <2>2, <2>3, CarryIs
  <2>5. j \in DOMAIN s /\ x.id \in done /\ x.type \notin {"evidence_evaluate", "risk_gate", "close"}
    BY <1>6, <2>2
  <2>6. x.id[1] = "step" => x.id[2] = x.type
    <3>1. x.id[1] = "step" => x.id = <<"step", x.type, 0>>
      BY <2>2 DEF StepRec, Named
    <3>2. QED
      BY <3>1
  <2>7. QED
    BY <2>1, <2>2, <2>4, <2>5, <2>6
<1>13. p \in Seq(StepRec) /\ DOMAIN p = 1 .. K
  <2>1. IsList(p, K)
    BY <1>4, <1>11 DEF IsList
  <2>2. \A i \in 1 .. K : p[i] \in StepRec
    BY <1>12
  <2>3. QED
    BY <1>11, <2>1, <2>2, IsSeq
<1>14. Unique(p)
  <2>1. ASSUME NEW k \in 1 .. K, NEW l \in 1 .. K, p[k].id = p[l].id PROVE k = l
    <3>1. q[k] \in DOMAIN s /\ q[l] \in DOMAIN s /\ s[q[k]].id = s[q[l]].id
      BY <1>12, <2>1
    <3>2. q[k] = q[l]
      BY <1>7, <3>1 DEF Unique
    <3>3. ~(k < l) /\ ~(l < k)
      <4>1. q[k] \in Nat
        BY <1>7, <3>1
      <4>2. QED
        BY <1>9, <1>11, <3>2, <4>1
    <3>4. QED
      BY <3>3
  <2>2. QED
    BY <1>13, <2>1 DEF Unique
<1>15. Ids(p) \cap Ids(suffix) = {}
  <2>1. SUFFICES ASSUME NEW x, x \in Ids(p), x \in Ids(suffix) PROVE FALSE
    OBVIOUS
  <2>2. \E k \in DOMAIN p : x = p[k].id
    BY <2>1, IdsAre
  <2>3. PICK k \in 1 .. K : x = p[k].id
    BY <1>13, <2>2
  <2>4. /\ x \in done
        /\ x[1] = "step" => x[2] \notin {"evidence_evaluate", "risk_gate", "close"}
    BY <1>12, <2>3
  <2>5. CASE x \in {<<"step", t, 0>> : t \in {"evidence_evaluate", "risk_gate", "close"}}
    <3>1. x[1] = "step" /\ x[2] \in {"evidence_evaluate", "risk_gate", "close"}
      BY <2>5
    <3>2. QED
      BY <2>4, <3>1
  <2>6. QED
    BY <2>1, <2>4, <2>5
<1>16. \A i \in DOMAIN p : p[i].carried = TRUE
  BY <1>12, <1>13
<1>17. WiredAfter(p, suffix, v)
  BY <1>13, <1>14, <1>15, <1>16, <1>4, Zenon DEF WiredAfter
<1>18. p \o v \in Seq(StepRec) /\ Unique(p \o v) /\ Chained(p \o v, Len(p))
  BY <1>17, ChainAfter
<1>19. QED
  BY <1>3, <1>18

-----------------------------------------------------------------------------
(* The invariant. *)

(* The plan is a chain whose carried steps come first; a failed run has    *)
(* completed the steps that follow them, up to the one that failed.        *)
ChainOf(s, p, ids) ==
  \E m \in 0 .. Len(s) :
    /\ Chained(s, m)
    /\ p = "failed" => \E d \in m .. Len(s) : ids = {s[i].id : i \in m + 1 .. d}

IsChain == ChainOf(steps, phase, done)

PlanInv ==
  /\ phase \in {"none", "planned", "failed", "refused"}
  /\ mode \in Mode /\ v2 \in BOOLEAN /\ rev \in 0 .. MaxRev
  /\ steps \in Seq(StepRec) /\ Unique(steps) /\ IsChain
  /\ done \subseteq Ids(steps)
  /\ phase = "planned" => Valid(steps, v2)
  /\ FallbackIsValid

(* A chain that is kept.                                                   *)
Keepable(s) == s \in Seq(StepRec) /\ Unique(s) /\ \E m : Chained(s, m)

LEMMA KeepIs ==
  ASSUME NEW s, Keepable(s), NEW two \in BOOLEAN, Keep(s, two)
  PROVE  /\ phase' \in {"planned", "refused"} /\ v2' \in BOOLEAN
         /\ steps' \in Seq(StepRec) /\ Unique(steps)' /\ IsChain'
         /\ done' \subseteq Ids(steps)'
         /\ phase' = "planned" => Valid(steps, v2)'
         /\ Valid(s, two) => phase' = "planned"
<1>1. steps' = s /\ v2' = two /\ done' = {} /\ phase' = IF Valid(s, two) THEN "planned" ELSE "refused"
  BY DEF Keep
<1>2. s \in Seq(StepRec) /\ Unique(s)
  BY DEF Keepable
<1>3. PICK m : Chained(s, m)
  BY DEF Keepable
<1>4. m \in 0 .. Len(s)
  BY <1>3 DEF Chained
<1>5. phase' # "failed"
  BY <1>1
<1>6. IsChain'
  <2>1. \E n \in 0 .. Len(s) : Chained(s, n)
    BY <1>3, <1>4
  <2>2. ChainOf(s, phase', done')
    BY <1>5, <2>1 DEF ChainOf
  <2>3. QED
    BY <1>1, <2>2 DEF IsChain
<1>7. Unique(steps)'
  BY <1>1, <1>2 DEF Unique
<1>8. phase' = "planned" => Valid(steps', v2')
  <2>1. phase' = "planned" => Valid(s, two)
    BY <1>1
  <2>2. steps' = s /\ v2' = two
    BY <1>1
  <2>3. QED
    BY <2>1, <2>2, Zenon
<1>9. QED
  BY <1>1, <1>2, <1>6, <1>7, <1>8, Zenon

(* A wired piece can be kept.                                              *)
LEMMA WiredIsKeepable ==
  ASSUME NEW u, Piece(u)
  PROVE  Keepable(Wire(u))
<1>1. u \in Seq(StepRec) /\ Unique(u) /\ \A i \in DOMAIN u : u[i].carried = FALSE
  BY DEF Piece
<1>2. /\ Wire(u) \in Seq(StepRec) /\ DOMAIN Wire(u) = DOMAIN u
      /\ \A i \in DOMAIN u : Wire(u)[i].id = u[i].id
      /\ Chained(Wire(u), 0)
  BY <1>1, WireIs
<1>3. Unique(Wire(u))
  BY <1>1, <1>2 DEF Unique
<1>4. QED
  BY <1>2, <1>3 DEF Keepable

(* What is built from the rules is kept and valid.                         *)
LEMMA BuildIs ==
  ASSUME Build
  PROVE  \E s : Keepable(s) /\ Keep(s, FALSE) /\ Valid(s, FALSE)
<1>1. PICK agents \in SUBSET Agent, recommended \in SUBSET (Risky \cup {Save}),
           high \in BOOLEAN, simulate \in BOOLEAN :
        Keep(BuildPlan(SetToSeq(agents), Candidates(high, recommended, simulate)), FALSE)
  BY DEF Build
<1>2. PICK f, c : f = SetToSeq(agents) /\ c = Candidates(high, recommended, simulate)
  OBVIOUS
<1>3. OnceOf(f, agents) /\ agents \subseteq Agent
  <2>1. IsFiniteSet(agents)
    BY PlanAssumption, FS_Subset
  <2>2. QED
    BY <1>2, <2>1, OnceOfSet
<1>4. OnceOf(c, Risky \cup {Save})
  BY <1>2, CandidatesAre
<1>5. PICK u : /\ Piece(u) /\ Numberless(u) /\ <<"step", "close", 0>> \in Ids(u)
               /\ BuildPlan(f, c) = Wire(u)
  BY <1>3, <1>4, BuildPlanIs
<1>6. Valid(Wire(u), FALSE) /\ Keepable(Wire(u))
  BY <1>5, BuiltIsValid, WiredIsKeepable
<1>7. Keep(Wire(u), FALSE)
  BY <1>1, <1>2, <1>5
<1>8. QED
  BY <1>6, <1>7

LEMMA ItemsAre ==
  ASSUME NEW n \in Nat, NEW items \in Items(n)
  PROVE  items \in Seq(Item)
  BY DEF Items

LEMMA CompiledIsKeepable ==
  ASSUME NEW items \in Seq(Item), Compilable(items), NEW rag, NEW memory
  PROVE  Keepable(Compile(items, rag, memory))
  BY CompileIs, WiredIsKeepable

(* The ids of a plan are finitely many.                                    *)
LEMMA IdsFinite ==
  ASSUME NEW s \in Seq(StepRec)
  PROVE  Ids(s) \subseteq Id /\ IsFiniteSet(Ids(s))
<1>1. PICK L, T : L = Len(s) /\ T = Ids(s)
  OBVIOUS
<1>2. L \in Nat /\ DOMAIN s = 1 .. L
  BY <1>1
<1>3. \A x \in T : \E i \in 1 .. L : x = s[i].id
  BY <1>1, <1>2, IdsAre
<1>4. \A i \in 1 .. L : s[i].id \in T /\ s[i].id \in Id
  <2>1. ASSUME NEW i \in 1 .. L PROVE s[i].id \in T /\ s[i].id \in Id
    <3>1. i \in DOMAIN s /\ s[i] \in StepRec
      BY <1>2
    <3>2. s[i].id \in Ids(s)
      BY <3>1, IdsAre
    <3>3. QED
      BY <1>1, <3>1, <3>2 DEF StepRec
  <2>2. QED
    BY <2>1
<1>5. PICK f : f = [i \in 1 .. L |-> s[i].id]
  OBVIOUS
<1>6. f \in Surjection(1 .. L, T)
  BY <1>3, <1>4, <1>5 DEF Surjection
<1>7. IsFiniteSet(1 .. L)
  BY <1>2, FS_Interval
<1>8. IsFiniteSet(T)
  BY <1>6, <1>7, FS_Surjection
<1>9. QED
  BY <1>1, <1>3, <1>4, <1>8

(* A revision of a failed plan can be kept.                                *)
LEMMA RevisionIsKeepable ==
  ASSUME PlanInv, phase = "failed"
  PROVE  Keepable(Revision)
<1>1. steps \in Seq(StepRec) /\ Unique(steps) /\ IsChain
  BY DEF PlanInv
<1>2. PICK m \in 0 .. Len(steps) :
        /\ Chained(steps, m)
        /\ \E d \in m .. Len(steps) : done = {steps[i].id : i \in m + 1 .. d}
  BY <1>1 DEF IsChain, ChainOf
<1>3. PICK d \in m .. Len(steps) : done = {steps[i].id : i \in m + 1 .. d}
  BY <1>2
<1>4. Revision \in Seq(StepRec) /\ Unique(Revision) /\ Chained(Revision, d)
  BY <1>1, <1>2, <1>3, RevisionIs
<1>5. QED
  BY <1>4 DEF Keepable

LEMMA RedesignIsKeepable ==
  ASSUME PlanInv, NEW items \in Seq(Item), Compilable(items)
  PROVE  Keepable(Redesign(Body(items, done)))
<1>1. steps \in Seq(StepRec) /\ Unique(steps) /\ done \subseteq Ids(steps)
  BY DEF PlanInv
<1>2. done \in SUBSET Id /\ IsFiniteSet(done)
  <2>1. Ids(steps) \subseteq Id /\ IsFiniteSet(Ids(steps))
    BY <1>1, IdsFinite
  <2>2. QED
    BY <1>1, <2>1, FS_Subset
<1>3. PICK b : b = Body(items, done)
  OBVIOUS
<1>4. /\ Piece(b)
      /\ \A x \in Ids(b) :
           \/ x \in {<<"step", t, 0>> : t \in {"evidence_evaluate", "risk_gate", "close"}}
           \/ x[1] # "step" /\ x \notin done
  BY <1>2, <1>3, BodyIs
<1>5. /\ Redesign(b) \in Seq(StepRec) /\ Unique(Redesign(b))
      /\ \E m : Chained(Redesign(b), m)
  BY <1>1, <1>4, RedesignIs
<1>6. QED
  BY <1>3, <1>5 DEF Keepable

(* ids are those of the steps that the walk w visits before its place n.   *)
CompletedBefore(ids, s, m, w, n) ==
  /\ s \in Seq(StepRec) /\ Chained(s, m) /\ Unique(s) /\ w = Walk(s) /\ n \in DOMAIN w
  /\ ids = {s[w[k]].id : k \in 1 .. n - 1}

(* A run that fails at place n of the walk has completed the steps that    *)
(* follow the carried ones.                                                *)
LEMMA CompletedIs ==
  ASSUME NEW ids, NEW s, NEW m, NEW w, NEW n, CompletedBefore(ids, s, m, w, n)
  PROVE  \E d \in m .. Len(s) : ids = {s[i].id : i \in m + 1 .. d}
<1>1. /\ s \in Seq(StepRec) /\ Chained(s, m) /\ Unique(s) /\ w = Walk(s) /\ n \in DOMAIN w
      /\ ids = {s[w[k]].id : k \in 1 .. n - 1}
  BY DEF CompletedBefore
<1>2. PICK L : L = Len(s)
  OBVIOUS
<1>3. L \in Nat /\ m \in 0 .. L
  BY <1>2, <1>1 DEF Chained
<1>4. /\ w \in Seq(Nat)
      /\ \A k \in DOMAIN w : w[k] \in Live(s)
      /\ \A k, l \in DOMAIN w : k < l => w[k] < w[l]
      /\ \A i \in Live(s) : \E k \in DOMAIN w : w[k] = i
  <2>1. /\ Walk(s) \in Seq(Nat)
        /\ \A k \in DOMAIN Walk(s) : Walk(s)[k] \in Live(s)
        /\ \A k, l \in DOMAIN Walk(s) : k < l => Walk(s)[k] < Walk(s)[l]
        /\ \A i \in Live(s) : \E k \in DOMAIN Walk(s) : Walk(s)[k] = i
    BY <1>1, WalkIs
  <2>2. QED
    BY <1>1, <2>1
<1>5. Live(s) = m + 1 .. L
  BY <1>2, <1>1, ChainEdges
<1>6. PICK N : N = Len(w)
  OBVIOUS
<1>7. N \in Nat /\ DOMAIN w = 1 .. N
  BY <1>4, <1>6
<1>8. PICK d : d = w[n] - 1
  OBVIOUS
<1>9. d \in m .. L /\ w[n] = d + 1
  BY <1>3, <1>4, <1>5, <1>8, <1>1
<1>10. ASSUME NEW k \in 1 .. n - 1 PROVE w[k] \in m + 1 .. d
  <2>1. k \in 1 .. N /\ k < n
    BY <1>7, <1>1
  <2>2. w[k] \in m + 1 .. L /\ w[k] < w[n]
    BY <1>4, <1>5, <1>7, <1>1, <2>1
  <2>3. QED
    BY <1>3, <1>9, <2>2
<1>11. ASSUME NEW i \in m + 1 .. d PROVE \E k \in 1 .. n - 1 : w[k] = i
  <2>1. i \in m + 1 .. L /\ i < w[n]
    BY <1>3, <1>9
  <2>2. PICK k \in 1 .. N : w[k] = i
    BY <1>4, <1>5, <1>7, <2>1
  <2>3. ~(n <= k)
    <3>1. CASE n = k
      BY <2>1, <2>2, <3>1
    <3>2. CASE n < k
      <4>1. w[n] < w[k]
        BY <1>4, <1>7, <1>1, <3>2
      <4>2. QED
        BY <1>3, <1>9, <2>1, <2>2, <4>1
    <3>3. QED
      BY <1>7, <1>1, <3>1, <3>2
  <2>4. QED
    BY <1>7, <1>1, <2>2, <2>3
<1>12. {s[w[k]].id : k \in 1 .. n - 1} = {s[i].id : i \in m + 1 .. d}
  BY <1>10, <1>11
<1>13. QED
  BY <1>2, <1>9, <1>12, <1>1

LEMMA PlanInvInit == PlanInit => PlanInv
<1>1. SUFFICES ASSUME PlanInit PROVE PlanInv
  OBVIOUS
<1>2. phase = "none" /\ mode = "deterministic" /\ v2 = FALSE /\ rev = 0 /\ steps = <<>> /\ done = {}
  BY <1>1 DEF PlanInit
<1>3. steps \in Seq(StepRec) /\ Unique(steps) /\ done \subseteq Ids(steps)
  BY <1>2 DEF Unique
<1>4. IsChain
  <2>1. 0 \in 0 .. Len(steps) /\ Chained(steps, 0)
    BY <1>2 DEF Chained
  <2>2. ChainOf(steps, phase, done)
    BY <1>2, <2>1 DEF ChainOf
  <2>3. QED
    BY <2>2 DEF IsChain
<1>5. mode \in Mode /\ v2 \in BOOLEAN /\ rev \in 0 .. MaxRev /\ FallbackIsValid
  <2>1. mode \in Mode /\ rev \in 0 .. MaxRev
    BY <1>2, PlanAssumption DEF Mode
  <2>2. phase # "refused" /\ v2 \in BOOLEAN
    BY <1>2
  <2>3. QED
    BY <2>1, <2>2 DEF FallbackIsValid
<1>6. QED
  BY <1>2, <1>3, <1>4, <1>5 DEF PlanInv

(* Every action keeps the invariant.                                       *)
LEMMA PlanInvNext == PlanInv /\ [PlanNext]_planVars => PlanInv'
<1>1. SUFFICES ASSUME PlanInv, [PlanNext]_planVars PROVE PlanInv'
  OBVIOUS
<1>2. /\ phase \in {"none", "planned", "failed", "refused"}
      /\ mode \in Mode /\ v2 \in BOOLEAN /\ rev \in 0 .. MaxRev
      /\ steps \in Seq(StepRec) /\ Unique(steps) /\ IsChain
      /\ done \subseteq Ids(steps)
      /\ phase = "planned" => Valid(steps, v2)
      /\ FallbackIsValid
  BY <1>1 DEF PlanInv
<1>3. CASE BuildDeterministic
  <2>1. Build /\ mode' = mode /\ rev' = rev
    BY <1>3 DEF BuildDeterministic
  <2>2. PICK s : Keepable(s) /\ Keep(s, FALSE) /\ Valid(s, FALSE)
    BY <2>1, BuildIs
  <2>3. PICK two : two = FALSE
    OBVIOUS
  <2>4. /\ phase' \in {"planned", "refused"} /\ v2' \in BOOLEAN
        /\ steps' \in Seq(StepRec) /\ Unique(steps)' /\ IsChain'
        /\ done' \subseteq Ids(steps)'
        /\ phase' = "planned" => Valid(steps, v2)'
        /\ Valid(s, two) => phase' = "planned"
    BY <2>2, <2>3, KeepIs
  <2>5. FallbackIsValid'
    BY <2>2, <2>3, <2>4 DEF FallbackIsValid
  <2>6. QED
    BY <1>2, <2>1, <2>4, <2>5 DEF PlanInv
<1>4. CASE BuildFromProposal
  <2>1. mode' \in Mode /\ rev' = rev /\ phase = "none"
    BY <1>4 DEF BuildFromProposal, Mode
  <2>2. CASE \E items \in Items(MaxItems), rag, memory \in BOOLEAN :
               LET s == Compile(items, rag, memory) IN
               Compilable(items) /\ Valid(s, TRUE) /\ Keep(s, TRUE)
    <3>1. PICK items \in Items(MaxItems), rag \in BOOLEAN, memory \in BOOLEAN :
            /\ Compilable(items)
            /\ Valid(Compile(items, rag, memory), TRUE) /\ Keep(Compile(items, rag, memory), TRUE)
      BY <2>2
    <3>2. items \in Seq(Item)
      BY PlanAssumption, ItemsAre
    <3>3. PICK s, two : s = Compile(items, rag, memory) /\ two = TRUE
      OBVIOUS
    <3>4. Keepable(s) /\ Keep(s, two) /\ Valid(s, two)
      BY <3>1, <3>2, <3>3, CompiledIsKeepable
    <3>5. /\ phase' \in {"planned", "refused"} /\ v2' \in BOOLEAN
          /\ steps' \in Seq(StepRec) /\ Unique(steps)' /\ IsChain'
          /\ done' \subseteq Ids(steps)'
          /\ phase' = "planned" => Valid(steps, v2)'
          /\ Valid(s, two) => phase' = "planned"
      BY <3>3, <3>4, KeepIs
    <3>6. FallbackIsValid'
      BY <3>4, <3>5 DEF FallbackIsValid
    <3>7. QED
      BY <1>2, <2>1, <3>5, <3>6 DEF PlanInv
  <2>3. CASE mode' = "auto" /\ Build
    <3>1. PICK s : Keepable(s) /\ Keep(s, FALSE) /\ Valid(s, FALSE)
      BY <2>3, BuildIs
    <3>2. PICK two : two = FALSE
      OBVIOUS
    <3>3. /\ phase' \in {"planned", "refused"} /\ v2' \in BOOLEAN
          /\ steps' \in Seq(StepRec) /\ Unique(steps)' /\ IsChain'
          /\ done' \subseteq Ids(steps)'
          /\ phase' = "planned" => Valid(steps, v2)'
          /\ Valid(s, two) => phase' = "planned"
      BY <3>1, <3>2, KeepIs
    <3>4. FallbackIsValid'
      BY <3>1, <3>2, <3>3 DEF FallbackIsValid
    <3>5. QED
      BY <1>2, <2>1, <3>3, <3>4 DEF PlanInv
  <2>4. CASE mode' = "llm" /\ phase' = "refused" /\ UNCHANGED <<steps, v2, done>>
    <3>1. IsChain'
      <4>1. PICK m \in 0 .. Len(steps) : Chained(steps, m)
        BY <1>2 DEF IsChain, ChainOf
      <4>2. ChainOf(steps, phase', done)
        BY <2>4, <4>1 DEF ChainOf
      <4>3. QED
        BY <2>4, <4>2 DEF IsChain
    <3>2. Unique(steps)' /\ done' \subseteq Ids(steps)'
      BY <1>2, <2>4 DEF Unique, Ids
    <3>3. QED
      BY <1>2, <2>1, <2>4, <3>1, <3>2 DEF PlanInv, FallbackIsValid
  <2>5. QED
    BY <1>4, <2>2, <2>3, <2>4 DEF BuildFromProposal
<1>5. CASE RunFails
  <2>1. phase = "planned" /\ phase' = "failed" /\ UNCHANGED <<mode, v2, rev, steps>>
    BY <1>5 DEF RunFails
  <2>2. PICK n \in DOMAIN Walk(steps) : done' = {steps[Walk(steps)[k]].id : k \in 1 .. n - 1}
    BY <1>5 DEF RunFails
  <2>3. PICK m \in 0 .. Len(steps) : Chained(steps, m)
    BY <1>2 DEF IsChain, ChainOf
  <2>4. PICK s, w : s = steps /\ w = Walk(steps)
    OBVIOUS
  <2>5. s \in Seq(StepRec) /\ Chained(s, m) /\ Unique(s) /\ w = Walk(s) /\ n \in DOMAIN w
    BY <1>2, <2>2, <2>3, <2>4
  <2>6. PICK ids, j, l : ids = done' /\ j = m /\ l = n
    OBVIOUS
  <2>7. CompletedBefore(ids, s, j, w, l)
    BY <2>2, <2>4, <2>5, <2>6 DEF CompletedBefore
  <2>8. \E d \in j .. Len(s) : ids = {s[i].id : i \in j + 1 .. d}
    BY <2>7, CompletedIs
  <2>9. PICK d \in m .. Len(s) : done' = {s[i].id : i \in m + 1 .. d}
    BY <2>6, <2>8
  <2>10. IsChain'
    <3>1. ChainOf(s, "failed", done')
      BY <2>3, <2>4, <2>5, <2>9 DEF ChainOf
    <3>2. steps' = s
      BY <2>1, <2>4
    <3>3. QED
      BY <2>1, <3>1, <3>2 DEF IsChain
  <2>11. done' \subseteq Ids(s)
    <3>1. ASSUME NEW i \in m + 1 .. d PROVE s[i].id \in Ids(s)
      <4>1. i \in DOMAIN s
        BY <2>3, <2>4, <2>5, <2>9 DEF Chained
      <4>2. QED
        BY <4>1, IdsAre
    <3>2. QED
      BY <2>9, <3>1
  <2>12. done' \subseteq Ids(steps)' /\ Unique(steps)'
    BY <1>2, <2>1, <2>4, <2>11 DEF Ids, Unique
  <2>13. FallbackIsValid'
    BY <2>1 DEF FallbackIsValid
  <2>14. QED
    BY <1>2, <2>1, <2>10, <2>12, <2>13 DEF PlanInv
<1>6. CASE RevisePlan
  <2>1. phase = "failed" /\ rev < MaxRev /\ rev' = rev + 1 /\ mode' = mode
    BY <1>6 DEF RevisePlan
  <2>2. rev' \in 0 .. MaxRev /\ rev' # 0
    BY <1>2, <2>1, PlanAssumption
  <2>3. \E s : Keepable(s) /\ Keep(s, v2)
    <3>1. CASE Keep(Revision, v2)
      BY <1>1, <2>1, <3>1, RevisionIsKeepable
    <3>2. CASE \E items \in Items(MaxItems - 1) :
                 Compilable(items) /\ Keep(Redesign(Body(items, done)), v2)
      <4>1. PICK items \in Items(MaxItems - 1) :
              Compilable(items) /\ Keep(Redesign(Body(items, done)), v2)
        BY <3>2
      <4>2. items \in Seq(Item)
        <5>1. PICK k : k = MaxItems - 1
          OBVIOUS
        <5>2. k \in Nat /\ items \in Items(k)
          BY <5>1, PlanAssumption
        <5>3. QED
          BY <5>2, ItemsAre
      <4>3. Keepable(Redesign(Body(items, done)))
        BY <1>1, <4>1, <4>2, RedesignIsKeepable
      <4>4. QED
        BY <4>1, <4>3
    <3>3. QED
      BY <1>6, <3>1, <3>2 DEF RevisePlan
  <2>4. PICK s : Keepable(s) /\ Keep(s, v2)
    BY <2>3
  <2>5. /\ phase' \in {"planned", "refused"} /\ v2' \in BOOLEAN
        /\ steps' \in Seq(StepRec) /\ Unique(steps)' /\ IsChain'
        /\ done' \subseteq Ids(steps)'
        /\ phase' = "planned" => Valid(steps, v2)'
    BY <1>2, <2>4, KeepIs
  <2>6. FallbackIsValid'
    BY <2>2 DEF FallbackIsValid
  <2>7. QED
    BY <1>2, <2>1, <2>2, <2>5, <2>6 DEF PlanInv
<1>7. CASE UNCHANGED planVars
  <2>1. /\ phase' = phase /\ mode' = mode /\ v2' = v2 /\ rev' = rev
        /\ steps' = steps /\ done' = done
    BY <1>7 DEF planVars
  <2>2. IsChain'
    BY <1>2, <2>1 DEF IsChain
  <2>3. phase' = "planned" => Valid(steps', v2')
    BY <1>2, <2>1
  <2>4. Unique(steps') /\ done' \subseteq Ids(steps')
    BY <1>2, <2>1
  <2>5. QED
    BY <1>2, <2>1, <2>2, <2>3, <2>4 DEF PlanInv, FallbackIsValid
<1>8. QED
  BY <1>1, <1>3, <1>4, <1>5, <1>6, <1>7 DEF PlanNext

(* The plan is a chain of steps, and a run completes its first live ones,  *)
(* in every reachable state.                                               *)
THEOREM PlanInvariant == PlanSpec => []PlanInv
  BY PlanInvInit, PlanInvNext, PTL DEF PlanSpec

(* The fields of the plan's steps have their types.                        *)
THEOREM PlanTypes == PlanSpec => []PlanTypeOK
<1>1. PlanInv => PlanTypeOK
  <2>1. SUFFICES ASSUME PlanInv PROVE PlanTypeOK
    OBVIOUS
  <2>2. /\ phase \in {"none", "planned", "failed", "refused"}
        /\ mode \in Mode /\ v2 \in BOOLEAN /\ rev \in 0 .. MaxRev
        /\ steps \in Seq(StepRec) /\ done \subseteq Ids(steps)
    BY <2>1 DEF PlanInv
  <2>3. ASSUME NEW s \in ToSet(steps)
        PROVE  s.id \in Id /\ s.deps \subseteq Id /\ s.target \in Id \cup {NoId} /\ s.carried \in BOOLEAN
    <3>1. PICK i \in DOMAIN steps : s = steps[i]
      BY DEF ToSet
    <3>2. s \in StepRec
      BY <2>2, <3>1
    <3>3. QED
      BY <3>2 DEF StepRec
  <2>4. QED
    BY <2>2, <2>3 DEF PlanTypeOK, Ids
<1>2. QED
  BY <1>1, PlanInvariant, PTL

(* What the walk of a kept plan visits.                                    *)
LEMMA WalkOfKept ==
  ASSUME PlanInv
  PROVE  /\ Walk(steps) \in Seq(Nat)
         /\ \A n \in DOMAIN Walk(steps) : Walk(steps)[n] \in Live(steps)
         /\ \A k, n \in DOMAIN Walk(steps) : k < n => Walk(steps)[k] < Walk(steps)[n]
         /\ \A i \in Live(steps) : \E n \in DOMAIN Walk(steps) : Walk(steps)[n] = i
<1>1. PICK s, m : s = steps /\ Chained(s, m) /\ s \in Seq(StepRec) /\ Unique(s)
  BY DEF PlanInv, IsChain, ChainOf
<1>2. /\ Walk(s) \in Seq(Nat)
      /\ \A n \in DOMAIN Walk(s) : Walk(s)[n] \in Live(s)
      /\ \A k, n \in DOMAIN Walk(s) : k < n => Walk(s)[k] < Walk(s)[n]
      /\ \A i \in Live(s) : \E n \in DOMAIN Walk(s) : Walk(s)[n] = i
  BY <1>1, WalkIs
<1>3. QED
  BY <1>1, <1>2

(* Following the first edge of each node, the executor reaches every step  *)
(* of an accepted plan that is not carried, in the order of the plan.      *)
THEOREM WalkFollowsThePlan == PlanSpec => []WalkIsThePlan
<1>1. PlanInv => WalkIsThePlan
  <2>1. SUFFICES ASSUME PlanInv PROVE WalkIsThePlan
    OBVIOUS
  <2>2. PICK w, s : w = Walk(steps) /\ s = steps
    OBVIOUS
  <2>3. /\ w \in Seq(Nat)
        /\ \A n \in DOMAIN w : w[n] \in Live(s)
        /\ \A k, n \in DOMAIN w : k < n => w[k] < w[n]
        /\ \A i \in Live(s) : \E n \in DOMAIN w : w[n] = i
    BY <2>1, <2>2, WalkOfKept
  <2>4. ASSUME NEW n \in DOMAIN w, n > 1 PROVE w[n - 1] < w[n]
    <3>1. n - 1 \in DOMAIN w /\ n - 1 < n
      BY <2>3, <2>4
    <3>2. QED
      BY <2>3, <3>1
  <2>5. QED
    BY <2>2, <2>3, <2>4 DEF WalkIsThePlan
<1>2. QED
  BY <1>1, PlanInvariant, PTL

(* The gate of a live action of high risk is the step before it.           *)
LEMMA GateIsBefore ==
  ASSUME NEW s \in Seq(StepRec), Unique(s), NEW m, Chained(s, m), NEW two \in BOOLEAN,
         NEW i \in Live(s), s[i] \in RiskyActions(s), HasGate(s, s[i], two)
  PROVE  /\ i > 1 /\ i - 1 \in DOMAIN s
         /\ s[i - 1] \in Gates(s) /\ s[i - 1].id \in s[i].deps
         /\ s[i - 1].action = s[i].action
         /\ two => s[i - 1].target = s[i].id
<1>1. PICK L : L = Len(s)
  OBVIOUS
<1>2. L \in Nat /\ DOMAIN s = 1 .. L /\ m \in 0 .. L
  BY <1>1 DEF Chained
<1>3. i \in 1 .. L /\ i > m
  <2>1. Live(s) = m + 1 .. L
    BY <1>1, ChainEdges
  <2>2. QED
    BY <1>2, <2>1
<1>4. s[i].deps = IF i = 1 THEN {} ELSE {s[i - 1].id}
  BY <1>2, <1>3 DEF Chained
<1>5. PICK x, g : /\ x = s[i] /\ g \in Gates(s) /\ g.id \in x.deps
                  /\ IF two THEN g.target = x.id ELSE g.action = x.action
  BY DEF HasGate
<1>6. i # 1 /\ g.id = s[i - 1].id /\ i - 1 \in 1 .. L
  BY <1>2, <1>3, <1>4, <1>5
<1>7. PICK j \in 1 .. L : g = s[j]
  BY <1>2, <1>5 DEF Gates, ToSet
<1>8. g = s[i - 1]
  BY <1>2, <1>6, <1>7 DEF Unique
<1>9. x \in StepRec /\ g \in StepRec /\ x.type = "action"
  BY <1>2, <1>3, <1>5, <1>7 DEF RiskyActions
<1>10. g.action = x.action
  <2>1. CASE two
    <3>1. g.target = x.id
      BY <1>5, <2>1
    <3>2. x.id[1] = "action" /\ x.id[2] = x.action
      BY <1>9 DEF StepRec, Named
    <3>3. x.id # NoId
      BY <3>2 DEF NoId
    <3>4. g.target[2] = g.action
      BY <1>9, <3>1, <3>3 DEF StepRec, Named
    <3>5. QED
      BY <3>1, <3>2, <3>4
  <2>2. CASE ~two
    BY <1>5, <2>2
  <2>3. QED
    BY <2>1, <2>2
<1>11. two => g.target = x.id
  BY <1>5
<1>12. QED
  BY <1>2, <1>3, <1>5, <1>6, <1>8, <1>10, <1>11

LEMMA GatesComeFirst == PlanInv => GateBeforeAction
<1>1. SUFFICES ASSUME PlanInv, phase = "planned" PROVE GateBeforeAction
  BY DEF GateBeforeAction
<1>2. PICK w, s, two, m :
        /\ w = Walk(steps) /\ s = steps /\ two = v2
        /\ Chained(s, m) /\ s \in Seq(StepRec) /\ Unique(s)
        /\ two \in BOOLEAN /\ Valid(s, two)
  BY <1>1 DEF PlanInv, IsChain, ChainOf
<1>3. /\ w \in Seq(Nat)
      /\ \A n \in DOMAIN w : w[n] \in Live(s)
      /\ \A k, n \in DOMAIN w : k < n => w[k] < w[n]
      /\ \A i \in Live(s) : \E n \in DOMAIN w : w[n] = i
  BY <1>1, <1>2, WalkOfKept
<1>4. ASSUME NEW n \in DOMAIN w, s[w[n]] \in RiskyActions(s)
      PROVE  \/ /\ n > 1
                /\ s[w[n - 1]].type = "human_approval"
                /\ s[w[n - 1]].action = s[w[n]].action
                /\ two => s[w[n - 1]].target = s[w[n]].id
             \/ \E g \in Gates(s) :
                  g.carried /\ g.id \in s[w[n]].deps /\ (two => g.target = s[w[n]].id)
  <2>1. PICK i : i = w[n]
    OBVIOUS
  <2>2. i \in Live(s) /\ s[i] \in RiskyActions(s) /\ i \in Nat
    BY <1>3, <1>4, <2>1
  <2>3. HasGate(s, s[i], two)
    BY <1>2, <2>2 DEF Valid
  <2>4. /\ i > 1 /\ i - 1 \in DOMAIN s
        /\ s[i - 1] \in Gates(s) /\ s[i - 1].id \in s[i].deps
        /\ s[i - 1].action = s[i].action
        /\ two => s[i - 1].target = s[i].id
    BY <1>2, <2>2, <2>3, GateIsBefore
  <2>5. CASE s[i - 1].carried
    BY <2>1, <2>4, <2>5
  <2>6. CASE ~s[i - 1].carried
    <3>1. i - 1 \in Live(s)
      BY <2>4, <2>6 DEF Live
    <3>2. PICK k \in DOMAIN w : w[k] = i - 1
      BY <1>3, <3>1
    <3>3. k \in Nat \ {0} /\ n \in Nat \ {0} /\ \A j \in k .. n : j \in DOMAIN w
      BY <1>3
    <3>4. ~(n <= k)
      <4>1. n < k => w[n] < w[k]
        BY <1>3
      <4>2. w[n] \in Nat /\ w[k] < w[n]
        BY <2>1, <2>2, <3>2
      <4>3. QED
        BY <2>1, <2>2, <3>2, <3>3, <4>1, <4>2
    <3>5. k = n - 1
      <4>1. SUFFICES ASSUME k # n - 1 PROVE FALSE
        OBVIOUS
      <4>2. n - 1 \in DOMAIN w /\ k < n - 1 /\ n - 1 < n
        BY <3>3, <3>4, <4>1
      <4>3. w[k] < w[n - 1] /\ w[n - 1] < w[n] /\ w[n - 1] \in Nat
        BY <1>3, <4>2
      <4>4. QED
        BY <2>1, <2>2, <3>2, <4>3
    <3>6. n > 1 /\ w[n - 1] = i - 1
      BY <3>2, <3>3, <3>5
    <3>7. s[i - 1].type = "human_approval"
      BY <2>4 DEF Gates
    <3>8. QED
      BY <2>1, <2>4, <3>6, <3>7
  <2>7. QED
    BY <2>5, <2>6
<1>5. QED
  BY <1>2, <1>4 DEF GateBeforeAction

(* A plan of rules is valid whatever was recommended, a redesign takes no  *)
(* kept id, and an action of high risk comes directly after its gate.      *)
THEOREM PlansStayValid == PlanSpec => []PlansAreValid
<1>1. PlanInv => PlansAreValid
  BY GatesComeFirst DEF PlanInv, PlansAreValid, RedesignIdsAreNew
<1>2. QED
  BY <1>1, PlanInvariant, PTL

-----------------------------------------------------------------------------
(* The sources of a decision                                               *)

(* What a function takes a finite set to is finite.                        *)
LEMMA ImageIsFinite ==
  ASSUME NEW f, IsFiniteSet(DOMAIN f)
  PROVE  IsFiniteSet({f[x] : x \in DOMAIN f})
<1>1. [x \in DOMAIN f |-> f[x]] \in Surjection(DOMAIN f, {f[x] : x \in DOMAIN f})
  BY DEF Surjection
<1>2. QED
  BY <1>1, FS_Surjection

(* No source has the trust of an external one.                             *)
IsSource(s) == s \in SourceRec /\ s.trust \in 0 .. 3
Listing(S) == IsFiniteSet(S) /\ \A s \in S : IsSource(s)

LEMMA ListingOfNone == Listing({})
BY FS_EmptySet DEF Listing

LEMMA ListingOfOne ==
  ASSUME NEW s, IsSource(s)
  PROVE  Listing({s})
BY FS_Singleton DEF Listing

LEMMA ListingOfMany ==
  ASSUME NEW f, IsFiniteSet(DOMAIN f), \A j \in DOMAIN f : IsSource(f[j])
  PROVE  Listing({f[j] : j \in DOMAIN f})
BY ImageIsFinite DEF Listing

LEMMA ListingOfUnion ==
  ASSUME NEW S, NEW T, Listing(S), Listing(T)
  PROVE  Listing(S \cup T)
BY FS_Union DEF Listing

LEMMA ListingWhen ==
  ASSUME NEW c, NEW S, Listing(S)
  PROVE  Listing(When(c, S))
BY ListingOfNone DEF When

(* An execution of a node, as a trace records it.                          *)
Execution == [kind : Kind, end : End, tries : Tries \cup {0}]

LEMMA ExecutionIs ==
  ASSUME NEW x \in Execution
  PROVE  x.end \in {"ok", "denied", "failed", "interrupted"} /\ x.tries \in Nat
<1>1. x.end \in End
  BY DEF Execution
<1>2. x.tries \in Tries \cup {0}
  BY DEF Execution
<1>3. Tries \cup {0} \subseteq Nat
  <2>1. Tries \subseteq Nat \ {0}
    BY ContextAssumption
  <2>2. QED
    BY <2>1
<1>4. x.tries \in Nat
  BY <1>2, <1>3, Zenon
<1>5. QED
  BY <1>1, <1>4 DEF End

LEMMA NodeRunListed ==
  ASSUME NEW i \in Nat, NEW x \in Execution
  PROVE  Listing(NodeRunOf(i, x))
<1>1. CASE Succeeded(x)
  <2>1. NodeRunOf(i, x) = {Source("node_run", 0, i, 1, i, FALSE, 2)}
    BY <1>1 DEF NodeRunOf, Succeeded
  <2>2. Listing({Source("node_run", 0, i, 1, i, FALSE, 2)})
    <3>1. IsSource(Source("node_run", 0, i, 1, i, FALSE, 2))
      BY DEF Source, PerEvidence, SourceRec, IsSource, TypeOrder, Trust
    <3>2. QED
      BY <3>1, ListingOfOne
  <2>3. QED
    BY <2>1, <2>2
<1>2. CASE x.end = "failed"
  <2>1. NodeRunOf(i, x) = {Source("node_run", 1, i, 1, i, TRUE, 6)}
    BY <1>2 DEF NodeRunOf, Succeeded
  <2>2. Listing({Source("node_run", 1, i, 1, i, TRUE, 6)})
    <3>1. IsSource(Source("node_run", 1, i, 1, i, TRUE, 6))
      BY DEF Source, PerEvidence, SourceRec, IsSource, TypeOrder, Trust
    <3>2. QED
      BY <3>1, ListingOfOne
  <2>3. QED
    BY <2>1, <2>2
<1>3. CASE x.end = "interrupted"
  <2>1. NodeRunOf(i, x) = {Source("node_run", 1, i, 0, i, TRUE, 2)}
    BY <1>3 DEF NodeRunOf, Succeeded
  <2>2. Listing({Source("node_run", 1, i, 0, i, TRUE, 2)})
    <3>1. IsSource(Source("node_run", 1, i, 0, i, TRUE, 2))
      BY DEF Source, PerEvidence, SourceRec, IsSource, TypeOrder, Trust
    <3>2. QED
      BY <3>1, ListingOfOne
  <2>3. QED
    BY <2>1, <2>2
<1>4. QED
  BY <1>1, <1>2, <1>3, ExecutionIs DEF Succeeded

LEMMA OutputListed ==
  ASSUME NEW i \in Nat, NEW x \in Execution
  PROVE  Listing(OutputOf(i, x))
<1>1. PICK s : s = CASE x.kind = "retrieve" -> Source("node_output", 3, i, 0, 0, FALSE, 1)
                     [] x.kind = "recall"   -> Source("node_output", 1, i, 0, 0, FALSE, 1)
                     [] x.kind = "action"   -> Source("node_output", 1, i, 0, 0, FALSE, 2)
                     [] OTHER               -> Source("node_output", 1, i, 0, 0, FALSE, 3)
  OBVIOUS
<1>2. /\ IsSource(Source("node_output", 3, i, 0, 0, FALSE, 1))
      /\ IsSource(Source("node_output", 1, i, 0, 0, FALSE, 1))
      /\ IsSource(Source("node_output", 1, i, 0, 0, FALSE, 2))
      /\ IsSource(Source("node_output", 1, i, 0, 0, FALSE, 3))
  BY DEF Source, PerEvidence, SourceRec, IsSource, TypeOrder, Trust
<1>3. s \in {Source("node_output", 3, i, 0, 0, FALSE, 1), Source("node_output", 1, i, 0, 0, FALSE, 1),
             Source("node_output", 1, i, 0, 0, FALSE, 2), Source("node_output", 1, i, 0, 0, FALSE, 3)}
  BY <1>1
<1>4. Listing({s})
  BY <1>2, <1>3, ListingOfOne
<1>5. OutputOf(i, x) = When(Succeeded(x), {s})
  BY <1>1 DEF OutputOf
<1>6. QED
  BY <1>4, <1>5, ListingWhen

LEMMA EventsListed ==
  ASSUME NEW i \in Nat, NEW x \in Execution
  PROVE  Listing(EventsOf(i, x))
<1> DEFINE J == IF x.end = "interrupted" THEN {0} ELSE IF x.tries = 0 THEN {1} ELSE 1 .. 2
           f == [j \in J |-> Source("event", 0, i, j, i, FALSE, 1)]
<1>1. J \subseteq 0 .. 2 /\ IsFiniteSet(J)
  <2>1. J \in SUBSET (0 .. 2)
    OBVIOUS
  <2>2. PICK a, b : a = 0 /\ b = 2 /\ a \in Int /\ b \in Int
    OBVIOUS
  <2>3. IsFiniteSet(0 .. 2)
    BY <2>2, FS_Interval
  <2>4. QED
    BY <2>1, <2>3, FS_Subset
<1>2. EventsOf(i, x) = {f[j] : j \in DOMAIN f}
  BY DEF EventsOf
<1>3. ASSUME NEW j \in 0 .. 2 PROVE IsSource(Source("event", 0, i, j, i, FALSE, 1))
  BY DEF Source, PerEvidence, SourceRec, IsSource, TypeOrder, Trust
<1>4. DOMAIN f = J /\ \A j \in J : IsSource(f[j])
  BY <1>1, <1>3
<1> HIDE DEF f, J
<1>5. QED
  BY <1>1, <1>2, <1>4, ListingOfMany

LEMMA ActionListed ==
  ASSUME NEW i \in Nat, NEW x \in Execution
  PROVE  Listing(ActionOf(i, x))
<1>1. Listing({Source("action", 1, i, 0, i, x.end = "failed", 5)})
  <2>1. IsSource(Source("action", 1, i, 0, i, x.end = "failed", 5))
    BY DEF Source, PerEvidence, SourceRec, IsSource, TypeOrder, Trust
  <2>2. QED
    BY <2>1, ListingOfOne
<1>2. QED
  BY <1>1, ListingWhen DEF ActionOf

LEMMA ApprovalListed ==
  ASSUME NEW i \in Nat, NEW x \in Execution
  PROVE  Listing(ApprovalOf(i, x))
<1>1. Listing({Source("approval", 0, i, 0, i, FALSE, 1)})
  <2>1. IsSource(Source("approval", 0, i, 0, i, FALSE, 1))
    BY DEF Source, PerEvidence, SourceRec, IsSource, TypeOrder, Trust
  <2>2. QED
    BY <2>1, ListingOfOne
<1>2. QED
  BY <1>1, ListingWhen DEF ApprovalOf

LEMMA AgentsListed ==
  ASSUME NEW i \in Nat, NEW x \in Execution
  PROVE  Listing(AgentsOf(i, x))
<1> DEFINE f == [j \in 1 .. Agents |-> Source("agent_output", 2, 0, j, i, FALSE, 5)]
<1>1. IsFiniteSet(1 .. Agents)
  BY ContextAssumption, FS_Interval
<1>2. AgentsOf(i, x) = When(x.kind = "agent" /\ x.end = "ok", {f[j] : j \in DOMAIN f})
  BY DEF AgentsOf
<1>3. ASSUME NEW j \in 1 .. Agents PROVE IsSource(Source("agent_output", 2, 0, j, i, FALSE, 5))
  BY DEF Source, PerEvidence, SourceRec, IsSource, TypeOrder, Trust
<1>4. DOMAIN f = 1 .. Agents /\ \A j \in 1 .. Agents : IsSource(f[j])
  BY <1>3
<1> HIDE DEF f
<1>5. Listing({f[j] : j \in DOMAIN f})
  BY <1>1, <1>4, ListingOfMany
<1>6. QED
  BY <1>2, <1>5, ListingWhen

LEMMA AuditListed ==
  ASSUME NEW i \in Nat, NEW x \in Execution
  PROVE  Listing(AuditOf(i, x))
<1>1. Listing({Source("policy_audit", 0, i, 0, i, FALSE, 2)})
  <2>1. IsSource(Source("policy_audit", 0, i, 0, i, FALSE, 2))
    BY DEF Source, PerEvidence, SourceRec, IsSource, TypeOrder, Trust
  <2>2. QED
    BY <2>1, ListingOfOne
<1>2. QED
  BY <1>1, ListingWhen DEF AuditOf

LEMMA RagListed ==
  ASSUME NEW i \in Nat, NEW x \in Execution
  PROVE  Listing(RagOf(i, x))
<1>1. Listing({Source("rag_trace", 3, 0, i, 0, FALSE, 1)})
  <2>1. IsSource(Source("rag_trace", 3, 0, i, 0, FALSE, 1))
    BY DEF Source, PerEvidence, SourceRec, IsSource, TypeOrder, Trust
  <2>2. QED
    BY <2>1, ListingOfOne
<1>2. QED
  BY <1>1, ListingWhen DEF RagOf

LEMMA MemoryListed ==
  ASSUME NEW i \in Nat, NEW x \in Execution
  PROVE  Listing(MemoryOf(i, x))
<1> DEFINE f == [m \in 1 .. Memories |-> Source("memory", 3, 0, Memories * i + m, 0, FALSE, 3)]
<1>1. IsFiniteSet(1 .. Memories)
  BY ContextAssumption, FS_Interval
<1>2. MemoryOf(i, x) = When(x.kind = "recall" /\ x.end = "ok", {f[m] : m \in DOMAIN f})
  BY DEF MemoryOf
<1>3. ASSUME NEW m \in 1 .. Memories
      PROVE  IsSource(Source("memory", 3, 0, Memories * i + m, 0, FALSE, 3))
  <2>1. PICK k : k = Memories * i
    OBVIOUS
  <2>2. k \in Nat
    BY <2>1, ContextAssumption
  <2>3. Memories * i + m \in Nat
    BY <2>1, <2>2
  <2>4. QED
    BY <2>3 DEF Source, PerEvidence, SourceRec, IsSource, TypeOrder, Trust
<1>4. DOMAIN f = 1 .. Memories /\ \A m \in 1 .. Memories : IsSource(f[m])
  BY <1>3
<1> HIDE DEF f
<1>5. Listing({f[m] : m \in DOMAIN f})
  BY <1>1, <1>4, ListingOfMany
<1>6. QED
  BY <1>2, <1>5, ListingWhen

LEMMA ErrorsListed ==
  ASSUME NEW i \in Nat, NEW x \in Execution
  PROVE  Listing(ErrorsOf(i, x))
<1> DEFINE N == IF x.end = "failed" THEN x.tries ELSE x.tries - 1
           f == [t \in 1 .. N |-> Source("error", 1, i, t, i, TRUE, 5)]
<1>1. N \in Int /\ IsFiniteSet(1 .. N)
  BY ExecutionIs, FS_Interval
<1>2. ErrorsOf(i, x) = When(x.end # "interrupted", {f[t] : t \in DOMAIN f})
  BY DEF ErrorsOf
<1>3. ASSUME NEW t \in 1 .. N PROVE IsSource(Source("error", 1, i, t, i, TRUE, 5))
  <2>1. t \in Nat
    BY <1>1
  <2>2. QED
    BY <2>1 DEF Source, PerEvidence, SourceRec, IsSource, TypeOrder, Trust
<1>4. DOMAIN f = 1 .. N /\ \A t \in 1 .. N : IsSource(f[t])
  BY <1>3
<1> HIDE DEF f
<1>5. Listing({f[t] : t \in DOMAIN f})
  BY <1>1, <1>4, ListingOfMany
<1>6. QED
  BY <1>2, <1>5, ListingWhen

LEMMA RunListed == Listing(RiskOf) /\ Listing(SimulationOf)
<1>1. Listing({Source("risk", 2, 0, 0, 0, FALSE, 4)})
  <2>1. IsSource(Source("risk", 2, 0, 0, 0, FALSE, 4))
    BY DEF Source, PerEvidence, SourceRec, IsSource, TypeOrder, Trust
  <2>2. QED
    BY <2>1, ListingOfOne
<1> DEFINE f == [j \in 1 .. 2 |-> Source("simulation", 1, 0, j, 0, FALSE, 1)]
<1>2. DOMAIN f = 1 .. 2 /\ \A j \in 1 .. 2 : IsSource(f[j])
  BY DEF Source, PerEvidence, SourceRec, IsSource, TypeOrder, Trust
<1>3. {Source("simulation", 1, 0, j, 0, FALSE, 1) : j \in 1 .. 2} = {f[j] : j \in DOMAIN f}
  OBVIOUS
<1> HIDE DEF f
<1>4. PICK a, b : a = 1 /\ b = 2 /\ a \in Int /\ b \in Int
  OBVIOUS
<1>5. IsFiniteSet(1 .. 2)
  BY <1>4, FS_Interval
<1>6. Listing({f[j] : j \in DOMAIN f})
  BY <1>2, <1>5, ListingOfMany
<1>7. Listing(RiskOf)
  BY <1>1, ListingWhen DEF RiskOf
<1>8. Listing(SimulationOf)
  BY <1>3, <1>6, ListingWhen DEF SimulationOf
<1>9. QED
  BY <1>7, <1>8

LEMMA SourcesListed ==
  ASSUME NEW i \in Nat, NEW x \in Execution
  PROVE  Listing(SourcesOf(i, x))
BY NodeRunListed, OutputListed, EventsListed, ActionListed, ApprovalListed, AgentsListed,
   AuditListed, RagListed, MemoryListed, ErrorsListed, ListingOfUnion DEF SourcesOf

(* What a run left is a finite set of sources.                             *)
LEMMA CollectedIs ==
  ASSUME trace \in Seq(Execution)
  PROVE  Listing(Collected)
<1> DEFINE f == [i \in DOMAIN trace |-> SourcesOf(NodeOf(i), trace[i])]
           U == {f[i] : i \in DOMAIN f}
<1>1. DOMAIN trace = 1 .. Len(trace) /\ Len(trace) \in Nat
  OBVIOUS
<1>2. ASSUME NEW i \in DOMAIN trace PROVE Listing(f[i])
  <2>1. trace[i] \in Execution /\ NodeOf(i) \in Nat
    BY <1>1 DEF NodeOf
  <2>2. Listing(SourcesOf(NodeOf(i), trace[i]))
    BY <2>1, SourcesListed
  <2>3. QED
    BY <2>2
<1>3. DOMAIN f = DOMAIN trace
  OBVIOUS
<1>4. {SourcesOf(NodeOf(i), trace[i]) : i \in DOMAIN trace} = U
  OBVIOUS
<1>5. IsFiniteSet(DOMAIN f)
  BY <1>1, <1>3, FS_Interval
<1> HIDE DEF f
<1>6. IsFiniteSet(U)
  BY <1>5, ImageIsFinite
<1>7. \A T \in U : Listing(T)
  BY <1>2, <1>3
<1> HIDE DEF U
<1>8. Listing(UNION U)
  <2>1. IsFiniteSet(UNION U)
    BY <1>6, <1>7, FS_UNION DEF Listing
  <2>2. QED
    BY <1>7, <2>1 DEF Listing
<1>9. Collected = ((UNION U) \cup RiskOf) \cup SimulationOf
  BY <1>4 DEF Collected
<1>10. Listing((UNION U) \cup RiskOf)
  BY <1>8, RunListed, ListingOfUnion
<1>11. QED
  BY <1>9, <1>10, RunListed, ListingOfUnion

-----------------------------------------------------------------------------
(* The ranking                                                             *)

Key == [1 .. 6 -> Int]
IsEntry(x) == x = [late |-> x.late, key |-> x.key, src |-> x.src]
            /\ x.late \in 0 .. 1 /\ x.key \in Key /\ IsSource(x.src)

LEMMA PrecedesIsIrreflexive ==
  ASSUME NEW a \in Key
  PROVE  ~Precedes(a, a)
BY DEF Precedes, Key

LEMMA PrecedesIsTransitive ==
  ASSUME NEW a \in Key, NEW b \in Key, NEW c \in Key, Precedes(a, b), Precedes(b, c)
  PROVE  Precedes(a, c)
<1>1. PICK i \in 1 .. 6 : a[i] < b[i] /\ \A j \in 1 .. i - 1 : a[j] = b[j]
  BY DEF Precedes, Key
<1>2. PICK k \in 1 .. 6 : b[k] < c[k] /\ \A j \in 1 .. k - 1 : b[j] = c[j]
  BY DEF Precedes, Key
<1>3. \A j \in 1 .. 6 : a[j] \in Int /\ b[j] \in Int /\ c[j] \in Int
  BY DEF Key
<1>4. \E m \in 1 .. 6 : a[m] < c[m] /\ \A j \in 1 .. m - 1 : a[j] = c[j]
  <2>1. CASE i <= k
    <3>1. a[i] < c[i]
      BY <1>1, <1>2, <1>3, <2>1
    <3>2. \A j \in 1 .. i - 1 : a[j] = c[j]
      BY <1>1, <1>2, <2>1
    <3>3. QED
      BY <3>1, <3>2
  <2>2. CASE k < i
    <3>1. a[k] < c[k]
      BY <1>1, <1>2, <1>3, <2>2
    <3>2. \A j \in 1 .. k - 1 : a[j] = c[j]
      BY <1>1, <1>2, <2>2
    <3>3. QED
      BY <3>1, <3>2
  <2>3. QED
    BY <2>1, <2>2
<1>5. QED
  BY <1>4 DEF Precedes, Key

LEMMA OutranksIsIrreflexive ==
  ASSUME NEW x, IsEntry(x)
  PROVE  ~Outranks(x, x)
BY PrecedesIsIrreflexive DEF Outranks, IsEntry

LEMMA OutranksIsTransitive ==
  ASSUME NEW x, NEW y, NEW z, IsEntry(x), IsEntry(y), IsEntry(z), Outranks(x, y), Outranks(y, z)
  PROVE  Outranks(x, z)
<1>1. x.late \in Int /\ y.late \in Int /\ z.late \in Int
  BY DEF IsEntry
<1>2. CASE x.late = y.late /\ y.late = z.late
  <2>1. Precedes(x.key, y.key) /\ Precedes(y.key, z.key)
    BY <1>1, <1>2 DEF Outranks
  <2>2. Precedes(x.key, z.key)
    BY <2>1, PrecedesIsTransitive DEF IsEntry
  <2>3. QED
    BY <1>2, <2>2 DEF Outranks
<1>3. CASE ~(x.late = y.late /\ y.late = z.late)
  BY <1>1, <1>3 DEF Outranks
<1>4. QED
  BY <1>2, <1>3

(* Of finitely many entries one is outranked by none: the one that the     *)
(* fewest outrank.                                                         *)
LEMMA BestIs ==
  ASSUME NEW E, IsFiniteSet(E), E # {}, \A x \in E : IsEntry(x)
  PROVE  Best(E) \in E /\ \A y \in E : ~Outranks(y, Best(E))
<1> DEFINE above(x) == {y \in E : Outranks(y, x)}
           n(x) == Cardinality(above(x))
           T == {n(x) : x \in E}
<1>1. ASSUME NEW x \in E PROVE IsFiniteSet(above(x)) /\ n(x) \in Nat
  BY FS_Subset, FS_CardinalityType
<1>2. T \subseteq Nat /\ T # {}
  BY <1>1
<1>3. PICK k \in T : \A m \in T : k <= m
  BY <1>2, SmallestExists
<1>4. PICK x \in E : n(x) = k
  BY <1>3
<1>5. ASSUME NEW y \in E, Outranks(y, x) PROVE FALSE
  <2>1. above(y) \subseteq above(x)
    BY <1>5, OutranksIsTransitive
  <2>2. y \in above(x) /\ y \notin above(y)
    BY <1>5, OutranksIsIrreflexive
  <2>3. n(y) < n(x)
    <3>1. above(y) # above(x)
      BY <2>2
    <3>2. IsFiniteSet(above(x)) /\ n(y) \in Nat /\ n(x) \in Nat
      BY <1>1
    <3> HIDE DEF above
    <3>3. n(y) <= n(x) /\ n(y) # n(x)
      BY <2>1, <3>1, <3>2, FS_Subset
    <3>4. QED
      BY <3>2, <3>3
  <2>4. n(y) \in T
    OBVIOUS
  <2>5. k <= n(y) /\ n(y) \in Nat /\ n(x) \in Nat
    BY <1>1, <1>3, <2>4
  <2>6. QED
    BY <1>4, <2>3, <2>5
<1> HIDE DEF above, n, T
<1>6. \E z \in E : \A y \in E : ~Outranks(y, z)
  BY <1>5
<1>7. QED
  BY <1>6 DEF Best

LEMMA KeyIs ==
  ASSUME NEW s, IsSource(s)
  PROVE  /\ SortKey(s) \in Key
         /\ SortKey(s)[1] = -Relevance(s) /\ Relevance(s) \in Int
<1>1. /\ s.trust \in 0 .. 3 /\ s.type \in DOMAIN TypeOrder /\ s.bad \in BOOLEAN
      /\ s.node \in Nat /\ s.n \in Nat /\ s.time \in Nat
  BY DEF IsSource, SourceRec
<1>2. Relevance(s) \in Int
  BY <1>1 DEF Relevance
<1>3. TypeOrder[s.type] \in Int
  BY <1>1 DEF TypeOrder
<1>4. QED
  BY <1>1, <1>2, <1>3 DEF SortKey, Key

(* A ranking of finitely many sources has finitely many entries, one for   *)
(* each source, and late are those that another of their type precedes.    *)
LEMMA RankedIs ==
  ASSUME NEW S, Listing(S)
  PROVE  /\ IsFiniteSet(Ranked(S))
         /\ \A x \in Ranked(S) : IsEntry(x) /\ x.src \in S /\ x.key = SortKey(x.src)
         /\ \A s \in S : \E x \in Ranked(S) : x.src = s
         /\ \A x \in Ranked(S) :
              x.late = 0 \/ \E s \in S : s.type = x.src.type /\ Precedes(SortKey(s), x.key)
<1> DEFINE keyed == {[key |-> SortKey(s), src |-> s] : s \in S}
           late(x) == IF \E y \in keyed : y.src.type = x.src.type /\ Precedes(y.key, x.key)
                      THEN 1 ELSE 0
           k == [s \in S |-> [key |-> SortKey(s), src |-> s]]
           r == [x \in keyed |-> [late |-> late(x), key |-> x.key, src |-> x.src]]
<1>1. Ranked(S) = {r[x] : x \in DOMAIN r} /\ keyed = {k[s] : s \in DOMAIN k}
  BY DEF Ranked
<1>2. IsFiniteSet(keyed)
  <2>1. DOMAIN k = S
    OBVIOUS
  <2>2. IsFiniteSet(DOMAIN k)
    BY <2>1 DEF Listing
  <2> HIDE DEF k
  <2>3. IsFiniteSet({k[s] : s \in DOMAIN k})
    BY <2>2, ImageIsFinite
  <2>4. QED
    BY <1>1, <2>3
<1>3. IsFiniteSet(Ranked(S))
  <2>1. DOMAIN r = keyed
    OBVIOUS
  <2> HIDE DEF keyed, r
  <2>2. IsFiniteSet({r[x] : x \in DOMAIN r})
    BY <1>2, <2>1, ImageIsFinite
  <2>3. QED
    BY <1>1, <2>2
<1>4. ASSUME NEW x \in Ranked(S)
      PROVE  \E s \in S : x = [late |-> late([key |-> SortKey(s), src |-> s]),
                               key |-> SortKey(s), src |-> s]
  <2>1. PICK y \in keyed : x = r[y]
    BY <1>1
  <2>2. PICK s \in S : y = [key |-> SortKey(s), src |-> s]
    BY <2>1
  <2>3. x = [late |-> late(y), key |-> y.key, src |-> y.src]
    BY <2>1
  <2>4. y.key = SortKey(s) /\ y.src = s
    BY <2>2
  <2> HIDE DEF late, keyed, r
  <2>5. x = [late |-> late([key |-> SortKey(s), src |-> s]), key |-> SortKey(s), src |-> s]
    BY <2>2, <2>3, <2>4
  <2>6. QED
    BY <2>5
<1>5. ASSUME NEW x \in Ranked(S)
      PROVE  IsEntry(x) /\ x.src \in S /\ x.key = SortKey(x.src)
  <2>1. PICK s \in S : x = [late |-> late([key |-> SortKey(s), src |-> s]),
                            key |-> SortKey(s), src |-> s]
    BY <1>4
  <2>2. PICK l \in 0 .. 1 : l = late([key |-> SortKey(s), src |-> s])
    OBVIOUS
  <2> HIDE DEF late
  <2>3. IsSource(s)
    BY DEF Listing
  <2>4. SortKey(s) \in Key
    BY <2>3, KeyIs
  <2>5. QED
    BY <2>1, <2>2, <2>3, <2>4 DEF IsEntry
<1>6. ASSUME NEW s \in S PROVE \E x \in Ranked(S) : x.src = s
  <2>1. [key |-> SortKey(s), src |-> s] \in keyed
    OBVIOUS
  <2>2. r[[key |-> SortKey(s), src |-> s]].src = s
    BY <2>1
  <2>3. r[[key |-> SortKey(s), src |-> s]] \in Ranked(S)
    BY <1>1, <2>1
  <2>4. QED
    BY <2>2, <2>3
<1>7. ASSUME NEW x \in Ranked(S)
      PROVE  x.late = 0 \/ \E s \in S : s.type = x.src.type /\ Precedes(SortKey(s), x.key)
  <2>1. PICK s \in S : x = [late |-> late([key |-> SortKey(s), src |-> s]),
                            key |-> SortKey(s), src |-> s]
    BY <1>4
  <2>2. x.late = late([key |-> SortKey(s), src |-> s]) /\ x.key = SortKey(s) /\ x.src = s
    BY <2>1
  <2>3. CASE \E y \in keyed : y.src.type = s.type /\ Precedes(y.key, SortKey(s))
    BY <2>2, <2>3
  <2>4. CASE ~\E y \in keyed : y.src.type = s.type /\ Precedes(y.key, SortKey(s))
    <3>1. late([key |-> SortKey(s), src |-> s]) = 0
      BY <2>4
    <3>2. QED
      BY <2>2, <3>1
  <2>5. QED
    BY <2>3, <2>4
<1>8. QED
  BY <1>3, <1>5, <1>6, <1>7

-----------------------------------------------------------------------------
(* The packing                                                             *)

(* What is left of the ranking E, with what is packed of it.               *)
Acc(E) ==
  [left : SUBSET E, total : Nat, used : [Trust -> Nat], packed : Seq(SourceRec),
   dropped : Seq(SourceRec)]
Unpacked(E) ==
  [left |-> E, total |-> 0, used |-> [t \in Trust |-> 0], packed |-> <<>>, dropped |-> <<>>]

(* Every round considers one source.                                       *)
LEMMA ConsiderTakesOne ==
  ASSUME NEW E, IsFiniteSet(E), \A x \in E : IsEntry(x), NEW acc \in Acc(E), acc.left # {}, NEW d
  PROVE  /\ Best(acc.left) \in acc.left
         /\ Consider(d, acc).left = acc.left \ {Best(acc.left)}
         /\ Cardinality(Consider(d, acc).left) = Cardinality(acc.left) - 1
<1>1. acc.left \subseteq E /\ IsFiniteSet(acc.left)
  BY FS_Subset DEF Acc
<1>2. Best(acc.left) \in acc.left
  BY <1>1, BestIs
<1>3. Consider(d, acc).left = acc.left \ {Best(acc.left)}
  <2>1. CASE Fits(d, acc, Best(acc.left).src)
    BY <2>1 DEF Consider
  <2>2. CASE ~Fits(d, acc, Best(acc.left).src)
    BY <2>2 DEF Consider, Acc
  <2>3. QED
    BY <2>1, <2>2
<1>4. PICK x, L : x = Best(acc.left) /\ L = acc.left
  OBVIOUS
<1>5. IsFiniteSet(L) /\ x \in L
  BY <1>1, <1>2, <1>4
<1>6. Cardinality(L \ {x}) = Cardinality(L) - 1
  BY <1>5, FS_RemoveElement
<1>7. QED
  BY <1>2, <1>3, <1>4, <1>6

(* The rounds of pack_evidence, as a function.                             *)
IsPacking(after, d, E, N) ==
  after = [n \in 0 .. N |-> IF n = 0 THEN Unpacked(E) ELSE Consider(d, after[n - 1])]

LEMMA PackingExists ==
  ASSUME NEW E, IsFiniteSet(E), \A x \in E : IsEntry(x), NEW d,
         NEW P, P \subseteq Acc(E), Unpacked(E) \in P,
         \A acc \in P : acc.left # {} => Consider(d, acc) \in P,
         NEW N \in Nat, N = Cardinality(E)
  PROVE  \E f : IsPacking(f, d, E, N)
<1> DEFINE h == [p \in (1 .. N) \X P |-> IF p[2].left = {} THEN p[2] ELSE Consider(d, p[2])]
<1>1. h \in [(1 .. N) \X P -> P]
  OBVIOUS
<1>2. \A n \in 1 .. N, acc \in P : acc.left # {} => h[<<n, acc>>] = Consider(d, acc)
  OBVIOUS
<1> HIDE DEF h
<1>3. PICK U : U = Unpacked(E)
  OBVIOUS
<1>4. \E f : Follows(f, U, h, N, P)
  BY <1>1, <1>3, Recursion
<1>5. PICK f \in [0 .. N -> P] : f[0] = U /\ \A n \in 1 .. N : f[n] = h[<<n, f[n - 1]>>]
  BY <1>4 DEF Follows
<1>6. ASSUME NEW n \in 1 .. N, Cardinality(f[n - 1].left) = N - (n - 1)
      PROVE  f[n] = Consider(d, f[n - 1]) /\ Cardinality(f[n].left) = N - n
  <2>1. n - 1 \in 0 .. N
    OBVIOUS
  <2>2. f[n - 1] \in P /\ f[n] = h[<<n, f[n - 1]>>]
    BY <1>5, <2>1
  <2>3. f[n - 1].left # {}
    <3>1. N - (n - 1) # 0 /\ Cardinality({}) = 0
      BY FS_EmptySet
    <3>2. QED
      BY <1>6, <3>1
  <2>4. f[n] = Consider(d, f[n - 1])
    BY <1>2, <2>2, <2>3
  <2>5. f[n - 1] \in Acc(E)
    BY <2>2
  <2>6. Cardinality(Consider(d, f[n - 1]).left) = Cardinality(f[n - 1].left) - 1
    BY <2>3, <2>5, ConsiderTakesOne
  <2>7. QED
    BY <1>6, <2>4, <2>6
<1> DEFINE T == {n \in 0 .. N : Cardinality(f[n].left) = N - n}
<1>7. 0 .. N \subseteq T
  <2>1. 0 \in T
    BY <1>3, <1>5 DEF Unpacked
  <2>2. \A n \in 1 .. N : n - 1 \in T => n \in T
    BY <1>6
  <2> HIDE DEF T
  <2>3. QED
    BY <2>1, <2>2, UpTo
<1>8. ASSUME NEW n \in 0 .. N
      PROVE  f[n] = IF n = 0 THEN Unpacked(E) ELSE Consider(d, f[n - 1])
  <2>1. CASE n = 0
    BY <1>3, <1>5, <2>1
  <2>2. CASE n # 0
    <3>1. n \in 1 .. N /\ n - 1 \in 0 .. N
      BY <2>2
    <3>2. Cardinality(f[n - 1].left) = N - (n - 1)
      BY <1>7, <3>1
    <3>3. QED
      BY <1>6, <2>2, <3>1, <3>2
  <2>3. QED
    BY <2>1, <2>2
<1>9. DOMAIN f = 0 .. N /\ f = [n \in 0 .. N |-> f[n]]
  BY <1>5
<1>10. f = [n \in 0 .. N |-> IF n = 0 THEN Unpacked(E) ELSE Consider(d, f[n - 1])]
  BY <1>8, <1>9
<1>11. QED
  BY <1>10 DEF IsPacking

(* Induction over the rounds: a property of the pack that holds at first   *)
(* and is kept by every round holds in the end, when nothing is left.      *)
LEMMA PackReaches ==
  ASSUME NEW E, IsFiniteSet(E), \A x \in E : IsEntry(x), NEW d,
         NEW P, P \subseteq Acc(E), Unpacked(E) \in P,
         \A acc \in P : acc.left # {} => Consider(d, acc) \in P
  PROVE  Pack(d, E) \in P /\ Pack(d, E).left = {}
<1> DEFINE after[n \in 0 .. Cardinality(E)] ==
             IF n = 0
             THEN [left |-> E, total |-> 0, used |-> [t \in Trust |-> 0],
                   packed |-> <<>>, dropped |-> <<>>]
             ELSE Consider(d, after[n - 1])
<1>1. PICK N \in Nat : N = Cardinality(E)
  BY FS_CardinalityType
<1>2. \E f : IsPacking(f, d, E, N)
  BY <1>1, PackingExists
<1>3. IsPacking(after, d, E, N)
  BY <1>1, <1>2, Zenon DEF IsPacking, Unpacked
<1>4. Pack(d, E) = after[N]
  BY <1>1 DEF Pack, after
<1> HIDE DEF after
<1>5. \A n \in 0 .. N : after[n] = IF n = 0 THEN Unpacked(E) ELSE Consider(d, after[n - 1])
  BY <1>3, Zenon DEF IsPacking
<1>6. after[0] = Unpacked(E) /\ \A n \in 1 .. N : after[n] = Consider(d, after[n - 1])
  BY <1>5
<1> DEFINE T == {n \in 0 .. N : after[n] \in P /\ Cardinality(after[n].left) = N - n}
<1>7. 0 .. N \subseteq T
  <2>1. 0 \in T
    BY <1>1, <1>6 DEF Unpacked
  <2>2. ASSUME NEW n \in 1 .. N, n - 1 \in T PROVE n \in T
    <3>1. after[n - 1] \in P /\ Cardinality(after[n - 1].left) = N - (n - 1)
      BY <2>2
    <3>2. after[n - 1].left # {}
      BY <3>1, FS_EmptySet
    <3>3. after[n] \in P
      BY <1>6, <3>1, <3>2
    <3>4. after[n - 1] \in Acc(E)
      BY <3>1
    <3>5. Cardinality(Consider(d, after[n - 1]).left) = Cardinality(after[n - 1].left) - 1
      BY <3>2, <3>4, ConsiderTakesOne
    <3>6. QED
      BY <1>6, <3>1, <3>3, <3>5
  <2> HIDE DEF T
  <2>3. QED
    BY <2>1, <2>2, UpTo
<1>8. after[N] \in P /\ Cardinality(after[N].left) = 0
  BY <1>7
<1>9. after[N].left \subseteq E /\ IsFiniteSet(after[N].left)
  BY <1>8, FS_Subset DEF Acc
<1>10. after[N].left = {}
  BY <1>8, <1>9, FS_EmptySet
<1>11. QED
  BY <1>4, <1>8, <1>10

-----------------------------------------------------------------------------
(* What the system's facts need                                            *)

Fact(x) == IF x.trust = 0 THEN x.size ELSE 0

LEMMA FactIs ==
  ASSUME NEW x \in SourceRec
  PROVE  Fact(x) \in Nat
BY DEF Fact, SourceRec

(* The sums of FactSize, as a function.                                    *)
IsSum(f, s, N) == f = [n \in 0 .. N |-> IF n = 0 THEN 0 ELSE f[n - 1] + Fact(s[n])]

LEMMA SumExists ==
  ASSUME NEW s \in Seq(SourceRec), NEW N \in Nat, N <= Len(s)
  PROVE  \E f \in [0 .. N -> Nat] : IsSum(f, s, N)
<1> DEFINE h == [p \in (1 .. N) \X Nat |-> p[2] + Fact(s[p[1]])]
<1>1. ASSUME NEW n \in 1 .. N PROVE Fact(s[n]) \in Nat
  <2>1. s[n] \in SourceRec
    OBVIOUS
  <2>2. QED
    BY <2>1, FactIs
<1>2. h \in [(1 .. N) \X Nat -> Nat]
  BY <1>1
<1>3. \A n \in 1 .. N, k \in Nat : h[<<n, k>>] = k + Fact(s[n])
  OBVIOUS
<1> HIDE DEF h
<1>4. PICK b \in Nat : b = 0
  OBVIOUS
<1>5. \E f : Follows(f, b, h, N, Nat)
  BY <1>2, <1>4, Recursion
<1>6. PICK f \in [0 .. N -> Nat] : f[0] = b /\ \A n \in 1 .. N : f[n] = h[<<n, f[n - 1]>>]
  BY <1>5 DEF Follows
<1>7. ASSUME NEW n \in 0 .. N PROVE f[n] = IF n = 0 THEN 0 ELSE f[n - 1] + Fact(s[n])
  <2>1. CASE n = 0
    BY <1>4, <1>6, <2>1
  <2>2. CASE n # 0
    <3>1. n \in 1 .. N /\ n - 1 \in 0 .. N
      BY <2>2
    <3>2. f[n - 1] \in Nat
      BY <1>6, <3>1
    <3>3. QED
      BY <1>3, <1>6, <2>2, <3>1, <3>2
  <2>3. QED
    BY <2>1, <2>2
<1>8. f = [n \in 0 .. N |-> IF n = 0 THEN 0 ELSE f[n - 1] + Fact(s[n])]
  BY <1>6, <1>7
<1>9. QED
  BY <1>8 DEF IsSum

(* The sums are those of the sequence, and the last of them is FactSize.   *)
LEMMA SumsAre ==
  ASSUME NEW s \in Seq(SourceRec)
  PROVE  \E f : /\ f[0] = 0 /\ f[Len(s)] = FactSize(s)
                /\ \A n \in 1 .. Len(s) : f[n] = f[n - 1] + Fact(s[n])
<1> DEFINE upTo[n \in 0 .. Len(s)] ==
             IF n = 0 THEN 0 ELSE upTo[n - 1] + (IF s[n].trust = 0 THEN s[n].size ELSE 0)
<1>1. PICK N \in Nat : N = Len(s)
  OBVIOUS
<1>2. \E f : IsSum(f, s, N)
  BY <1>1, SumExists
<1>3. IsSum(upTo, s, N)
  BY <1>1, <1>2, Zenon DEF IsSum, Fact
<1>4. FactSize(s) = upTo[N]
  BY <1>1 DEF FactSize, upTo
<1> HIDE DEF upTo
<1>5. \A n \in 0 .. N : upTo[n] = IF n = 0 THEN 0 ELSE upTo[n - 1] + Fact(s[n])
  BY <1>3, Zenon DEF IsSum
<1>6. upTo[0] = 0 /\ \A n \in 1 .. N : upTo[n] = upTo[n - 1] + Fact(s[n])
  BY <1>5
<1>7. QED
  BY <1>1, <1>4, <1>6

(* Sums that start alike and add alike are equal, and are numbers.         *)
LEMMA SumsAgree ==
  ASSUME NEW N \in Nat, NEW f, NEW g, NEW s, NEW u, f[0] = 0, g[0] = 0,
         \A n \in 1 .. N : f[n] = f[n - 1] + Fact(s[n]),
         \A n \in 1 .. N : g[n] = g[n - 1] + Fact(u[n]),
         \A n \in 1 .. N : s[n] = u[n] /\ s[n] \in SourceRec
  PROVE  f[N] = g[N] /\ f[N] \in Nat
<1> DEFINE T == {n \in 0 .. N : f[n] = g[n] /\ f[n] \in Nat}
<1>1. 0 \in T
  OBVIOUS
<1>2. ASSUME NEW n \in 1 .. N, n - 1 \in T PROVE n \in T
  <2>1. Fact(s[n]) \in Nat /\ Fact(s[n]) = Fact(u[n])
    BY FactIs
  <2>2. f[n - 1] = g[n - 1] /\ f[n - 1] \in Nat
    BY <1>2
  <2>3. QED
    BY <2>1, <2>2
<1> HIDE DEF T
<1>3. 0 .. N \subseteq T
  BY <1>1, <1>2, UpTo
<1>4. QED
  BY <1>3 DEF T

LEMMA FactSizeOfNone == FactSize(<<>>) = 0
<1>1. <<>> \in Seq(SourceRec) /\ Len(<<>>) = 0
  OBVIOUS
<1>2. QED
  BY <1>1, SumsAre

LEMMA FactSizeIs ==
  ASSUME NEW s \in Seq(SourceRec)
  PROVE  FactSize(s) \in Nat
<1>1. PICK f : /\ f[0] = 0 /\ f[Len(s)] = FactSize(s)
               /\ \A n \in 1 .. Len(s) : f[n] = f[n - 1] + Fact(s[n])
  BY SumsAre
<1>2. PICK N \in Nat : N = Len(s)
  OBVIOUS
<1>3. \A n \in 1 .. N : s[n] \in SourceRec
  BY <1>2
<1>4. f[N] \in Nat
  BY <1>1, <1>2, <1>3, SumsAgree
<1>5. QED
  BY <1>1, <1>2, <1>4

LEMMA FactSizeOfAppend ==
  ASSUME NEW s \in Seq(SourceRec), NEW x \in SourceRec
  PROVE  FactSize(Append(s, x)) = FactSize(s) + Fact(x)
<1>1. PICK f : /\ f[0] = 0 /\ f[Len(s)] = FactSize(s)
               /\ \A n \in 1 .. Len(s) : f[n] = f[n - 1] + Fact(s[n])
  BY SumsAre
<1>2. PICK N \in Nat : N = Len(s)
  OBVIOUS
<1>3. PICK u : u = Append(s, x)
  OBVIOUS
<1>4. /\ u \in Seq(SourceRec) /\ Len(u) = N + 1 /\ u[N + 1] = x
      /\ \A n \in 1 .. N : u[n] = s[n] /\ s[n] \in SourceRec
  BY <1>2, <1>3
<1>5. PICK g : /\ g[0] = 0 /\ g[Len(u)] = FactSize(u)
               /\ \A n \in 1 .. Len(u) : g[n] = g[n - 1] + Fact(u[n])
  BY <1>4, SumsAre
<1>6. \A n \in 1 .. N : g[n] = g[n - 1] + Fact(u[n])
  BY <1>4, <1>5
<1>7. f[N] = g[N]
  <2>1. /\ f[0] = 0 /\ g[0] = 0
        /\ \A n \in 1 .. N : f[n] = f[n - 1] + Fact(s[n])
        /\ \A n \in 1 .. N : s[n] = u[n] /\ s[n] \in SourceRec
    BY <1>1, <1>2, <1>4, <1>5
  <2>2. QED
    BY <1>6, <2>1, SumsAgree
<1>8. g[N + 1] = g[N] + Fact(x)
  <2>1. N + 1 \in 1 .. Len(u) /\ (N + 1) - 1 = N
    BY <1>4
  <2>2. g[N + 1] = g[(N + 1) - 1] + Fact(u[N + 1])
    BY <1>5, <2>1
  <2>3. QED
    BY <1>4, <2>1, <2>2
<1>9. QED
  BY <1>1, <1>2, <1>3, <1>4, <1>5, <1>7, <1>8

-----------------------------------------------------------------------------
(* The system's facts are kept                                             *)

LEMMA CapsAre ==
  ASSUME NEW d \in DecisionType
  PROVE  /\ Total[d] \in Nat
         /\ \A t \in 1 .. 3 : Cap(d, t) \in Nat
         /\ Cap(d, 1) >= 16 /\ Total[d] >= 40
<1>1. Total[d] \in {40, 50, 60}
  BY DEF DecisionType, Total
<1>2. Ratio[1] = 40 /\ Ratio[2] = 25 /\ Ratio[3] = 15
  BY DEF Ratio
<1>3. ASSUME NEW k \in {40, 50, 60}
      PROVE  /\ (k * 40) \div 100 \in Nat /\ (k * 40) \div 100 >= 16
             /\ (k * 25) \div 100 \in Nat /\ (k * 15) \div 100 \in Nat
  <2>1. CASE k = 40
    BY <2>1
  <2>2. CASE k = 50
    BY <2>2
  <2>3. CASE k = 60
    BY <2>3
  <2>4. QED
    BY <2>1, <2>2, <2>3
<1>4. /\ Cap(d, 1) = (Total[d] * 40) \div 100 /\ Cap(d, 2) = (Total[d] * 25) \div 100
      /\ Cap(d, 3) = (Total[d] * 15) \div 100
  BY <1>2 DEF Cap
<1>5. PICK k : k = Total[d]
  OBVIOUS
<1>6. /\ Cap(d, 1) \in Nat /\ Cap(d, 2) \in Nat /\ Cap(d, 3) \in Nat /\ Cap(d, 1) >= 16
  BY <1>1, <1>3, <1>4, <1>5
<1>7. QED
  BY <1>1, <1>6

(* What a round does to a pack.                                            *)
LEMMA ConsiderIs ==
  ASSUME NEW E, IsFiniteSet(E), \A x \in E : IsEntry(x), NEW acc \in Acc(E), acc.left # {}, NEW d
  PROVE  LET s == Best(acc.left).src
             new == Consider(d, acc)
         IN /\ IsSource(s) /\ new \in Acc(E)
            /\ Fits(d, acc, s) =>
                 /\ new.total = acc.total + s.size
                 /\ new.used = [acc.used EXCEPT ![s.trust] = @ + s.size]
                 /\ new.packed = Append(acc.packed, s) /\ new.dropped = acc.dropped
            /\ ~Fits(d, acc, s) =>
                 /\ new.total = acc.total /\ new.used = acc.used
                 /\ new.packed = acc.packed /\ new.dropped = Append(acc.dropped, s)
<1>1. PICK x, s, left : x = Best(acc.left) /\ s = x.src /\ left = acc.left \ {x}
  OBVIOUS
<1>2. x \in acc.left /\ acc.left \subseteq E /\ left \subseteq E
  BY <1>1, ConsiderTakesOne DEF Acc
<1>3. IsSource(s)
  BY <1>1, <1>2 DEF IsEntry
<1>4. s \in SourceRec /\ s.trust \in Trust /\ s.size \in Nat
  BY <1>3 DEF IsSource, SourceRec
<1>5. /\ acc.total \in Nat /\ acc.used \in [Trust -> Nat]
      /\ acc.packed \in Seq(SourceRec) /\ acc.dropped \in Seq(SourceRec)
      /\ acc = [left |-> acc.left, total |-> acc.total, used |-> acc.used,
                packed |-> acc.packed, dropped |-> acc.dropped]
  BY DEF Acc
<1>6. CASE Fits(d, acc, s)
  <2>1. PICK t, u, p : /\ t = acc.total + s.size
                       /\ u = [acc.used EXCEPT ![s.trust] = @ + s.size]
                       /\ p = Append(acc.packed, s)
    OBVIOUS
  <2>2. Consider(d, acc) = [left |-> left, total |-> t, used |-> u, packed |-> p,
                            dropped |-> acc.dropped]
    BY <1>1, <1>6, <2>1 DEF Consider
  <2>3. t \in Nat /\ u \in [Trust -> Nat] /\ p \in Seq(SourceRec)
    BY <1>4, <1>5, <2>1
  <2>4. Consider(d, acc) \in Acc(E)
    BY <1>2, <1>5, <2>2, <2>3 DEF Acc
  <2>5. QED
    BY <1>1, <1>3, <1>6, <2>1, <2>2, <2>4
<1>7. CASE ~Fits(d, acc, s)
  <2>1. PICK q : q = Append(acc.dropped, s)
    OBVIOUS
  <2>2. Consider(d, acc) = [left |-> left, total |-> acc.total, used |-> acc.used,
                            packed |-> acc.packed, dropped |-> q]
    BY <1>1, <1>5, <1>7, <2>1 DEF Consider
  <2>3. q \in Seq(SourceRec)
    BY <1>4, <1>5, <2>1
  <2>4. Consider(d, acc) \in Acc(E)
    BY <1>2, <1>5, <2>2, <2>3 DEF Acc
  <2>5. QED
    BY <1>1, <1>3, <1>7, <2>1, <2>2, <2>4
<1>8. QED
  BY <1>6, <1>7

(* What a pack of the decision d uses: no class of trust more than its     *)
(* share, and a fact is left out only when there are too many.             *)
Crowded(d, packed, dropped) ==
  FactSize(packed) + FactSize(dropped) > Total[d] - Cap(d, 1) - Cap(d, 2) - Cap(d, 3)
Kept(d, acc) ==
  /\ acc.used[0] = FactSize(acc.packed) /\ acc.used[4] = 0
  /\ \A t \in 1 .. 3 : acc.used[t] <= Cap(d, t)
  /\ acc.total = acc.used[0] + acc.used[1] + acc.used[2] + acc.used[3]
  /\ (\E i \in DOMAIN acc.dropped : acc.dropped[i].trust = 0) =>
       Crowded(d, acc.packed, acc.dropped)

LEMMA KeptAtFirst ==
  ASSUME NEW E, NEW d \in DecisionType
  PROVE  Unpacked(E) \in Acc(E) /\ Kept(d, Unpacked(E))
<1>1. Unpacked(E) \in Acc(E)
  BY DEF Unpacked, Acc
<1>2. \A t \in 0 .. 4 : Unpacked(E).used[t] = 0
  BY DEF Unpacked, Trust
<1>3. Unpacked(E).total = 0 /\ Unpacked(E).packed = <<>> /\ Unpacked(E).dropped = <<>>
  BY DEF Unpacked
<1>4. \A t \in 1 .. 3 : Cap(d, t) \in Nat
  BY CapsAre
<1>5. QED
  BY <1>1, <1>2, <1>3, <1>4, FactSizeOfNone DEF Kept

LEMMA KeptByARound ==
  ASSUME NEW E, IsFiniteSet(E), \A x \in E : IsEntry(x), NEW acc \in Acc(E), acc.left # {},
         NEW d \in DecisionType, Kept(d, acc)
  PROVE  Kept(d, Consider(d, acc))
<1>1. PICK s, new : s = Best(acc.left).src /\ new = Consider(d, acc)
  OBVIOUS
<1>2. /\ IsSource(s) /\ new \in Acc(E)
      /\ Fits(d, acc, s) =>
           /\ new.total = acc.total + s.size
           /\ new.used = [acc.used EXCEPT ![s.trust] = @ + s.size]
           /\ new.packed = Append(acc.packed, s) /\ new.dropped = acc.dropped
      /\ ~Fits(d, acc, s) =>
           /\ new.total = acc.total /\ new.used = acc.used
           /\ new.packed = acc.packed /\ new.dropped = Append(acc.dropped, s)
  BY <1>1, ConsiderIs
<1>3. s \in SourceRec /\ s.trust \in 0 .. 3 /\ s.size \in Nat
  BY <1>2 DEF IsSource, SourceRec
<1>4. /\ acc.packed \in Seq(SourceRec) /\ acc.dropped \in Seq(SourceRec)
      /\ acc.used \in [0 .. 4 -> Nat]
  BY DEF Acc, Trust
<1>5. PICK FP, FD : FP = FactSize(acc.packed) /\ FD = FactSize(acc.dropped)
  OBVIOUS
<1>6. FP \in Nat /\ FD \in Nat
  BY <1>4, <1>5, FactSizeIs
<1>7. Fact(s) = IF s.trust = 0 THEN s.size ELSE 0
  BY DEF Fact
<1>8. PICK T, c1, c2, c3 : T = Total[d] /\ c1 = Cap(d, 1) /\ c2 = Cap(d, 2) /\ c3 = Cap(d, 3)
  OBVIOUS
<1>9. T \in Nat /\ c1 \in Nat /\ c2 \in Nat /\ c3 \in Nat
  BY <1>8, CapsAre
<1>10. PICK u0, u1, u2, u3 : /\ u0 = acc.used[0] /\ u1 = acc.used[1]
                             /\ u2 = acc.used[2] /\ u3 = acc.used[3]
  OBVIOUS
<1>11. /\ u0 \in Nat /\ u1 \in Nat /\ u2 \in Nat /\ u3 \in Nat
       /\ u0 = FP /\ u1 <= c1 /\ u2 <= c2 /\ u3 <= c3 /\ acc.total = u0 + u1 + u2 + u3
       /\ acc.used[4] = 0
       /\ (\E i \in DOMAIN acc.dropped : acc.dropped[i].trust = 0) =>
            FP + FD > T - c1 - c2 - c3
  BY <1>4, <1>5, <1>8, <1>10 DEF Kept, Crowded
<1>12. CASE Fits(d, acc, s)
  <2>1. acc.total + s.size <= T /\ (s.trust # 0 => acc.used[s.trust] + s.size <= Cap(d, s.trust))
    BY <1>8, <1>12 DEF Fits
  <2>2. FactSize(new.packed) = FP + Fact(s) /\ new.dropped = acc.dropped
    BY <1>2, <1>3, <1>4, <1>5, <1>12, FactSizeOfAppend
  <2>3. \A t \in 0 .. 4 : new.used[t] = IF t = s.trust THEN acc.used[t] + s.size ELSE acc.used[t]
    BY <1>2, <1>3, <1>4, <1>12
  <2>4. new.used[0] = FactSize(new.packed) /\ new.used[4] = 0
    <3>1. new.used[0] = IF s.trust = 0 THEN u0 + s.size ELSE u0
      BY <1>10, <2>3
    <3>2. new.used[0] = FP + Fact(s)
      BY <1>7, <1>11, <3>1
    <3>3. 4 \in 0 .. 4 /\ 4 # s.trust
      BY <1>3
    <3>4. new.used[4] = acc.used[4]
      BY <2>3, <3>3
    <3>5. QED
      BY <1>11, <2>2, <3>2, <3>4
  <2>5. ASSUME NEW t \in 1 .. 3 PROVE new.used[t] <= Cap(d, t)
    <3>1. CASE t = s.trust
      BY <2>1, <2>3, <3>1
    <3>2. CASE t # s.trust
      <4>1. new.used[t] = acc.used[t]
        BY <2>3, <3>2
      <4>2. QED
        BY <4>1 DEF Kept
    <3>3. QED
      BY <3>1, <3>2
  <2>6. new.total = new.used[0] + new.used[1] + new.used[2] + new.used[3]
    <3>1. new.total = u0 + u1 + u2 + u3 + s.size
      BY <1>2, <1>11, <1>12
    <3>2. /\ new.used[0] = IF s.trust = 0 THEN u0 + s.size ELSE u0
          /\ new.used[1] = IF s.trust = 1 THEN u1 + s.size ELSE u1
          /\ new.used[2] = IF s.trust = 2 THEN u2 + s.size ELSE u2
          /\ new.used[3] = IF s.trust = 3 THEN u3 + s.size ELSE u3
      BY <1>10, <2>3
    <3>3. QED
      BY <1>3, <1>11, <3>1, <3>2
  <2>7. ASSUME \E i \in DOMAIN new.dropped : new.dropped[i].trust = 0
        PROVE  Crowded(d, new.packed, new.dropped)
    <3>1. FP + FD > T - c1 - c2 - c3
      BY <1>11, <2>2, <2>7
    <3>2. Fact(s) \in Nat
      BY <1>3, FactIs
    <3>3. FactSize(new.packed) = FP + Fact(s) /\ FactSize(new.dropped) = FD
      BY <1>5, <2>2
    <3>4. QED
      BY <1>6, <1>8, <1>9, <3>1, <3>2, <3>3 DEF Crowded
  <2>8. QED
    BY <1>1, <2>4, <2>5, <2>6, <2>7 DEF Kept
<1>13. CASE ~Fits(d, acc, s)
  <2>1. /\ FactSize(new.dropped) = FD + Fact(s)
        /\ FactSize(new.packed) = FP /\ new.used = acc.used /\ new.total = acc.total
    BY <1>2, <1>3, <1>4, <1>5, <1>13, FactSizeOfAppend
  <2>2. new.dropped = Append(acc.dropped, s)
    BY <1>2, <1>13
  <2>3. ASSUME NEW i \in DOMAIN new.dropped, new.dropped[i].trust = 0
        PROVE  Crowded(d, new.packed, new.dropped)
    <3>1. CASE i \in DOMAIN acc.dropped
      <4>1. new.dropped[i] = acc.dropped[i]
        BY <1>4, <2>2, <3>1
      <4>2. FP + FD > T - c1 - c2 - c3
        BY <1>11, <2>3, <3>1, <4>1
      <4>3. Fact(s) \in Nat
        BY <1>3, FactIs
      <4>4. QED
        BY <1>6, <1>8, <1>9, <2>1, <4>2, <4>3 DEF Crowded
    <3>2. CASE i \notin DOMAIN acc.dropped
      <4>1. i = Len(acc.dropped) + 1
        BY <1>4, <2>2, <3>2
      <4>2. s.trust = 0
        BY <1>4, <2>2, <2>3, <4>1
      <4>3. ~(acc.total + s.size <= T)
        BY <1>8, <1>13, <4>2 DEF Fits
      <4>4. FP + (FD + s.size) > T - c1 - c2 - c3
        BY <1>3, <1>6, <1>9, <1>11, <4>3
      <4>5. QED
        BY <1>7, <1>8, <2>1, <4>2, <4>4 DEF Crowded
    <3>3. QED
      BY <3>1, <3>2
  <2>4. QED
    BY <1>1, <1>5, <2>1, <2>3 DEF Kept
<1>14. QED
  BY <1>12, <1>13

(* The pack of a decision.                                                 *)
LEMMA PackIsKept ==
  ASSUME NEW E, IsFiniteSet(E), \A x \in E : IsEntry(x), NEW d \in DecisionType
  PROVE  Pack(d, E) \in Acc(E) /\ Kept(d, Pack(d, E))
<1> DEFINE P == {acc \in Acc(E) : Kept(d, acc)}
<1>1. P \subseteq Acc(E) /\ Unpacked(E) \in P
  BY KeptAtFirst
<1>2. ASSUME NEW acc \in P, acc.left # {} PROVE Consider(d, acc) \in P
  <2>1. acc \in Acc(E) /\ Kept(d, acc)
    OBVIOUS
  <2>2. Consider(d, acc) \in Acc(E)
    BY <1>2, <2>1, ConsiderIs
  <2>3. Kept(d, Consider(d, acc))
    BY <1>2, <2>1, KeptByARound
  <2>4. QED
    BY <2>2, <2>3
<1> HIDE DEF P
<1>3. Pack(d, E) \in P
  BY <1>1, <1>2, PackReaches
<1>4. QED
  BY <1>3 DEF P

-----------------------------------------------------------------------------
(* The failure is shown                                                    *)

(* The run failed at its last node, and no node was interrupted.           *)
FailedLast ==
  /\ status = "failed" /\ trace \in Seq(Execution) /\ Len(trace) > 0
  /\ trace[Len(trace)].end = "failed"
  /\ \A i \in 1 .. Len(trace) - 1 : Succeeded(trace[i])

(* The row of the failed node and its first error.                         *)
FailedRow == Source("node_run", 1, Len(trace), 1, Len(trace), TRUE, 6)
FirstError == Source("error", 1, Len(trace), 1, Len(trace), TRUE, 5)

LEMMA ObservedIsLast ==
  ASSUME FailedLast
  PROVE  Observed = Len(trace)
<1>1. PICK L : L = Len(trace)
  OBVIOUS
<1>2. L \in Nat \ {0} /\ DOMAIN trace = 1 .. L
  BY <1>1 DEF FailedLast
<1>3. ~Succeeded(trace[L]) /\ NodeOf(L) = L
  BY <1>1 DEF FailedLast, Succeeded, NodeOf
<1>4. ASSUME NEW i \in DOMAIN trace, ~Succeeded(trace[i]) PROVE i = L
  <2>1. i \notin 1 .. L - 1
    BY <1>1, <1>4 DEF FailedLast
  <2>2. QED
    BY <1>2, <2>1
<1>5. (CHOOSE i \in DOMAIN trace :
         ~Succeeded(trace[i]) /\ \A j \in 1 .. i - 1 : Succeeded(trace[j])) = L
  <2>1. L \in DOMAIN trace /\ ~Succeeded(trace[L]) /\ \A j \in 1 .. L - 1 : Succeeded(trace[j])
    BY <1>1, <1>2, <1>3 DEF FailedLast
  <2>2. QED
    BY <1>4, <2>1
<1>6. status = "failed"
  BY DEF FailedLast
<1>7. QED
  BY <1>1, <1>3, <1>5, <1>6 DEF Observed

(* Rows and errors come from _norm_node_runs and _norm_errors alone.       *)
LEMMA OtherTypes ==
  ASSUME NEW i, NEW x,
         NEW s \in OutputOf(i, x) \cup EventsOf(i, x) \cup ActionOf(i, x)
                   \cup ApprovalOf(i, x) \cup AgentsOf(i, x) \cup AuditOf(i, x) \cup RagOf(i, x)
                   \cup MemoryOf(i, x) \cup RiskOf \cup SimulationOf
  PROVE  s.type # "node_run" /\ s.type # "error"
<1>1. CASE s \in OutputOf(i, x)
  <2>1. s.type = "node_output"
    <3>1. Succeeded(x) /\ s = CASE x.kind = "retrieve" -> Source("node_output", 3, i, 0, 0, FALSE, 1)
                     [] x.kind = "recall"   -> Source("node_output", 1, i, 0, 0, FALSE, 1)
                     [] x.kind = "action"   -> Source("node_output", 1, i, 0, 0, FALSE, 2)
                     [] OTHER               -> Source("node_output", 1, i, 0, 0, FALSE, 3)
      BY <1>1 DEF OutputOf, When
    <3>2. s \in {Source("node_output", 3, i, 0, 0, FALSE, 1), Source("node_output", 1, i, 0, 0, FALSE, 1),
                 Source("node_output", 1, i, 0, 0, FALSE, 2), Source("node_output", 1, i, 0, 0, FALSE, 3)}
      BY <3>1
    <3>3. QED
      BY <3>2 DEF Source
  <2>2. QED
    BY <2>1
<1>2. CASE s \in EventsOf(i, x)
  <2>1. s.type = "event"
    BY <1>2 DEF Source, EventsOf
  <2>2. QED
    BY <2>1
<1>3. CASE s \in ActionOf(i, x)
  <2>1. s.type = "action"
    BY <1>3 DEF Source, ActionOf, When
  <2>2. QED
    BY <2>1
<1>4. CASE s \in ApprovalOf(i, x)
  <2>1. s.type = "approval"
    BY <1>4 DEF Source, ApprovalOf, When
  <2>2. QED
    BY <2>1
<1>5. CASE s \in AgentsOf(i, x)
  <2>1. s.type = "agent_output"
    BY <1>5 DEF Source, AgentsOf, When
  <2>2. QED
    BY <2>1
<1>6. CASE s \in AuditOf(i, x)
  <2>1. s.type = "policy_audit"
    BY <1>6 DEF Source, AuditOf, When
  <2>2. QED
    BY <2>1
<1>7. CASE s \in RagOf(i, x)
  <2>1. s.type = "rag_trace"
    BY <1>7 DEF Source, RagOf, When
  <2>2. QED
    BY <2>1
<1>8. CASE s \in MemoryOf(i, x)
  <2>1. s.type = "memory"
    BY <1>8 DEF Source, MemoryOf, When
  <2>2. QED
    BY <2>1
<1>9. CASE s \in RiskOf
  <2>1. s.type = "risk"
    BY <1>9 DEF Source, RiskOf, When
  <2>2. QED
    BY <2>1
<1>10. CASE s \in SimulationOf
  <2>1. s.type = "simulation"
    BY <1>10 DEF Source, SimulationOf, When
  <2>2. QED
    BY <2>1
<1>11. QED
  BY <1>1, <1>2, <1>3, <1>4, <1>5, <1>6, <1>7, <1>8, <1>9, <1>10

(* The explicit evidence is the row and the first error.                   *)
LEMMA ExplicitAre ==
  ASSUME FailedLast, NEW s \in Collected, Explicit(s)
  PROVE  s = FailedRow \/ s = FirstError
<1>1. s.node = Len(trace) /\ (s.type = "node_run" \/ (s.type = "error" /\ s.n = 1))
  BY ObservedIsLast DEF Explicit
<1>2. s \notin RiskOf /\ s \notin SimulationOf
  BY <1>1, OtherTypes
<1>3. PICK i \in DOMAIN trace : s \in SourcesOf(NodeOf(i), trace[i])
  BY <1>2 DEF Collected
<1>4. PICK L : L = Len(trace)
  OBVIOUS
<1>5. L \in Nat \ {0} /\ i \in 1 .. L
  BY <1>4 DEF FailedLast
<1>6. NodeOf(i) = i /\ (i = L => trace[i].end = "failed")
  <2>1. CASE i = L
    BY <1>4, <2>1 DEF FailedLast, NodeOf
  <2>2. CASE i # L
    <3>1. i \in 1 .. L - 1
      BY <1>5, <2>2
    <3>2. Succeeded(trace[i])
      BY <1>4, <3>1 DEF FailedLast
    <3>3. QED
      BY <2>2, <3>2 DEF Succeeded, NodeOf
  <2>3. QED
    BY <2>1, <2>2
<1>7. s \in NodeRunOf(i, trace[i]) \/ s \in ErrorsOf(i, trace[i])
  BY <1>1, <1>3, <1>6, OtherTypes DEF SourcesOf
<1>8. CASE s \in NodeRunOf(i, trace[i])
  <2>1. s = CASE Succeeded(trace[i])           -> Source("node_run", 0, i, 1, i, FALSE, 2)
              [] trace[i].end = "failed"       -> Source("node_run", 1, i, 1, i, TRUE, 6)
              [] trace[i].end = "interrupted"  -> Source("node_run", 1, i, 0, i, TRUE, 2)
    BY <1>8 DEF NodeRunOf
  <2>2. trace[i].end \in End
    <3>1. trace[i] \in Execution
      BY <1>4, <1>5 DEF FailedLast
    <3>2. QED
      BY <3>1 DEF Execution
  <2>3. s \in {Source("node_run", 0, i, 1, i, FALSE, 2), Source("node_run", 1, i, 1, i, TRUE, 6),
               Source("node_run", 1, i, 0, i, TRUE, 2)}
    BY <2>1, <2>2 DEF End, Succeeded
  <2>4. s.node = i
    BY <2>3 DEF Source
  <2>5. i = L /\ trace[i].end = "failed"
    BY <1>1, <1>4, <1>6, <2>4
  <2>6. s = Source("node_run", 1, L, 1, L, TRUE, 6)
    BY <2>1, <2>5 DEF Succeeded
  <2>7. QED
    BY <1>4, <2>6 DEF FailedRow
<1>9. CASE s \in ErrorsOf(i, trace[i])
  <2>1. PICK t : s = Source("error", 1, i, t, i, TRUE, 5)
    BY <1>9 DEF ErrorsOf, When
  <2>2. s.node = i /\ s.n = t /\ s.type = "error"
    BY <2>1 DEF Source
  <2>3. i = L /\ t = 1
    BY <1>1, <1>4, <2>2
  <2>4. QED
    BY <1>4, <2>1, <2>3 DEF FirstError
<1>10. QED
  BY <1>7, <1>8, <1>9

(* They are among the sources.                                             *)
LEMMA ExplicitCollected ==
  ASSUME FailedLast
  PROVE  /\ FailedRow \in Collected /\ Explicit(FailedRow)
         /\ trace[Len(trace)].tries > 0 => FirstError \in Collected /\ Explicit(FirstError)
<1>1. PICK L, x : L = Len(trace) /\ x = trace[L]
  OBVIOUS
<1>2. L \in Nat \ {0} /\ L \in DOMAIN trace /\ x.end = "failed" /\ NodeOf(L) = L
  BY <1>1 DEF FailedLast, NodeOf
<1>3. SourcesOf(L, x) \subseteq Collected
  BY <1>1, <1>2 DEF Collected
<1>4. FailedRow \in NodeRunOf(L, x)
  BY <1>1, <1>2 DEF FailedRow, NodeRunOf, Succeeded
<1>5. ASSUME x.tries > 0 PROVE FirstError \in ErrorsOf(L, x)
  <2>1. x \in Execution
    BY <1>1, <1>2 DEF FailedLast
  <2>2. x.tries \in Nat
    BY <2>1, ExecutionIs
  <2>3. 1 \in 1 .. (IF x.end = "failed" THEN x.tries ELSE x.tries - 1)
    BY <1>2, <1>5, <2>2
  <2>4. ErrorsOf(L, x) = {Source("error", 1, L, t, L, TRUE, 5) :
                            t \in 1 .. (IF x.end = "failed" THEN x.tries ELSE x.tries - 1)}
    BY <1>2 DEF ErrorsOf, When
  <2>5. QED
    BY <1>1, <2>3, <2>4 DEF FirstError
<1>6. Explicit(FailedRow) /\ Explicit(FirstError)
  <2>1. /\ FailedRow.type = "node_run" /\ FailedRow.node = L
        /\ FirstError.type = "error" /\ FirstError.node = L /\ FirstError.n = 1
    BY <1>1 DEF FailedRow, FirstError, Source
  <2>2. Observed = L /\ L # 0
    BY <1>1, <1>2, ObservedIsLast
  <2>3. QED
    BY <2>1, <2>2 DEF Explicit
<1>7. QED
  BY <1>1, <1>3, <1>4, <1>5, <1>6 DEF SourcesOf

(* They matter more than anything else.                                    *)
LEMMA RelevanceIs ==
  ASSUME FailedLast, NEW s \in Collected
  PROVE  IF Explicit(s) THEN Relevance(s) = 175 ELSE Relevance(s) <= 100
<1>1. PICK L \in Nat \ {0} : L = Len(trace) /\ Observed = L
  BY ObservedIsLast DEF FailedLast
<1>2. CASE Explicit(s)
  <2>1. s = FailedRow \/ s = FirstError
    BY <1>2, ExplicitAre
  <2>2. s.trust = 1 /\ s.node = L /\ s.bad = TRUE /\ s.type \in {"node_run", "error"}
    BY <1>1, <2>1 DEF FailedRow, FirstError, Source
  <2>3. Relevance(s) = 100 + 40 + 20 + 0 + 5 * (4 - 1)
    BY <1>1, <1>2, <2>2 DEF Relevance
  <2>4. QED
    BY <1>2, <2>3
<1>3. CASE ~Explicit(s)
  <2>1. IsSource(s)
    BY CollectedIs DEF FailedLast, Listing
  <2>2. s.trust \in 0 .. 3
    BY <2>1 DEF IsSource
  <2>3. PICK a, b, c : /\ a = IF s.node = L THEN 40 ELSE 0
                       /\ b = IF s.bad THEN 20 ELSE 0
                       /\ c = IF s.type = "policy_audit" THEN 20 ELSE 0
    OBVIOUS
  <2>4. Relevance(s) = 0 + a + b + c + 5 * (4 - s.trust)
    BY <1>1, <1>3, <2>3 DEF Relevance
  <2>5. a \in 0 .. 40 /\ b \in 0 .. 20 /\ c \in 0 .. 20
    BY <2>3
  <2>6. Relevance(s) <= 100
    BY <2>2, <2>4, <2>5
  <2>7. QED
    BY <1>3, <2>6
<1>4. QED
  BY <1>2, <1>3

(* What the ranking knows of them: they are late in nothing, and rank      *)
(* before all others.                                                      *)
LEMMA PrecedesAtFirst ==
  ASSUME NEW a \in Key, NEW b \in Key, Precedes(a, b)
  PROVE  a[1] <= b[1]
<1>1. PICK i \in 1 .. 6 : a[i] < b[i] /\ \A j \in 1 .. i - 1 : a[j] = b[j]
  BY DEF Precedes, Key
<1>2. a[1] \in Int /\ b[1] \in Int
  BY DEF Key
<1>3. CASE i = 1
  BY <1>1, <1>2, <1>3
<1>4. CASE i # 1
  <2>1. 1 \in 1 .. i - 1
    BY <1>4
  <2>2. a[1] = b[1]
    BY <1>1, <2>1
  <2>3. QED
    BY <1>2, <2>2
<1>5. QED
  BY <1>3, <1>4

LEMMA ExplicitRankFirst ==
  ASSUME FailedLast, NEW R, R = Ranked(Collected)
  PROVE  /\ \A x \in R : Explicit(x.src) => x.late = 0
         /\ \A x, y \in R : Explicit(x.src) /\ ~Explicit(y.src) => Outranks(x, y)
<1>1. Listing(Collected)
  BY CollectedIs DEF FailedLast
<1>2. PICK C : C = Collected
  OBVIOUS
<1>3. /\ \A x \in R : IsEntry(x) /\ x.src \in C /\ x.key = SortKey(x.src)
      /\ \A x \in R :
           x.late = 0 \/ \E s \in C : s.type = x.src.type /\ Precedes(SortKey(s), x.key)
  BY <1>1, <1>2, RankedIs
<1>4. \A s \in C : IsSource(s)
  BY <1>1, <1>2 DEF Listing
<1>5. \A s \in C : /\ SortKey(s) \in Key
                   /\ SortKey(s)[1] = -Relevance(s) /\ Relevance(s) \in Int
  BY <1>4, KeyIs
<1>6. \A s \in C : IF Explicit(s) THEN Relevance(s) = 175 ELSE Relevance(s) <= 100
  BY <1>2, RelevanceIs
<1>7. \A s \in C : Explicit(s) => s = FailedRow \/ s = FirstError
  BY <1>2, ExplicitAre
<1>8. ASSUME NEW x \in R, Explicit(x.src) PROVE x.late = 0
  <2>1. SUFFICES ASSUME NEW s \in C, s.type = x.src.type, Precedes(SortKey(s), x.key) PROVE FALSE
    BY <1>3
  <2>2. PICK e : e = x.src
    OBVIOUS
  <2>3. e \in C /\ x.key = SortKey(e) /\ Explicit(e)
    BY <1>3, <1>8, <2>2
  <2>4. SortKey(s)[1] <= SortKey(e)[1]
    BY <1>5, <2>1, <2>3, PrecedesAtFirst
  <2>5. Relevance(e) = 175 /\ Relevance(s) >= 175
    BY <1>5, <1>6, <2>3, <2>4
  <2>6. Explicit(s)
    BY <1>5, <1>6, <2>5
  <2>7. (s = FailedRow \/ s = FirstError) /\ (e = FailedRow \/ e = FirstError)
    BY <1>7, <2>3, <2>6
  <2>8. FailedRow.type = "node_run" /\ FirstError.type = "error"
    BY DEF FailedRow, FirstError, Source
  <2>9. s = e
    BY <2>1, <2>2, <2>7, <2>8
  <2>10. QED
    BY <1>5, <2>1, <2>3, <2>9, PrecedesIsIrreflexive
<1>9. ASSUME NEW x \in R, NEW y \in R, Explicit(x.src), ~Explicit(y.src) PROVE Outranks(x, y)
  <2>1. x.late = 0 /\ y.late \in 0 .. 1
    BY <1>3, <1>8, <1>9 DEF IsEntry
  <2>2. PICK s, t : s = x.src /\ t = y.src
    OBVIOUS
  <2>3. s \in C /\ t \in C /\ x.key = SortKey(s) /\ y.key = SortKey(t)
    BY <1>3, <2>2
  <2>4. x.key[1] < y.key[1]
    BY <1>5, <1>6, <1>9, <2>2, <2>3
  <2>5. Precedes(x.key, y.key)
    <3>1. 1 \in DOMAIN x.key
      BY <1>3 DEF IsEntry, Key
    <3>2. QED
      BY <2>4, <3>1 DEF Precedes
  <2>6. QED
    BY <2>1, <2>5 DEF Outranks
<1>10. QED
  BY <1>8, <1>9

(* A pack takes the entries X that rank first, when they are two at most   *)
(* and of a size that fits.                                                *)
Shown(acc, X) ==
  /\ \A x \in X : x \in acc.left \/ x.src \in ToSet(acc.packed)
  /\ X \cap acc.left # {} =>
       /\ acc.total = acc.used[1]
       /\ acc.total = 0 \/ (acc.total = 4 /\ \E x \in X : X \cap acc.left = {x})

LEMMA ToSetOfAppend ==
  ASSUME NEW S, NEW s \in Seq(S), NEW x
  PROVE  ToSet(Append(s, x)) = ToSet(s) \cup {x}
<1>1. PICK L \in Nat : L = Len(s) /\ DOMAIN s = 1 .. L
  OBVIOUS
<1>2. PICK u : u = Append(s, x)
  OBVIOUS
<1>3. DOMAIN u = 1 .. L + 1 /\ u[L + 1] = x /\ \A i \in 1 .. L : u[i] = s[i]
  BY <1>1, <1>2
<1>4. ToSet(u) = {u[i] : i \in 1 .. L + 1} /\ ToSet(s) = {s[i] : i \in 1 .. L}
  BY <1>1, <1>3 DEF ToSet
<1>5. L + 1 \in 1 .. L + 1 /\ 1 .. L \subseteq 1 .. L + 1 /\ \A i \in 1 .. L + 1 : i \in 1 .. L \/ i = L + 1
  OBVIOUS
<1>6. QED
  BY <1>2, <1>3, <1>4, <1>5

LEMMA ShownByARound ==
  ASSUME NEW E, IsFiniteSet(E), \A x \in E : IsEntry(x), NEW acc \in Acc(E), acc.left # {},
         NEW d \in DecisionType, NEW X, X \subseteq E, NEW a, NEW b, X \subseteq {a, b},
         \A x \in X : x.src.trust = 1 /\ x.src.size = 4,
         X \cap acc.left # {} => Best(acc.left) \in X,
         Shown(acc, X)
  PROVE  Shown(Consider(d, acc), X)
<1>1. PICK y, s, new : y = Best(acc.left) /\ s = y.src /\ new = Consider(d, acc)
  OBVIOUS
<1>2. /\ IsSource(s) /\ new \in Acc(E)
      /\ Fits(d, acc, s) =>
           /\ new.total = acc.total + s.size
           /\ new.used = [acc.used EXCEPT ![s.trust] = @ + s.size]
           /\ new.packed = Append(acc.packed, s) /\ new.dropped = acc.dropped
      /\ ~Fits(d, acc, s) =>
           /\ new.total = acc.total /\ new.used = acc.used
           /\ new.packed = acc.packed /\ new.dropped = Append(acc.dropped, s)
  BY <1>1, ConsiderIs
<1>3. y \in acc.left /\ new.left = acc.left \ {y}
  BY <1>1, ConsiderTakesOne
<1>4. acc.packed \in Seq(SourceRec) /\ acc.used \in [0 .. 4 -> Nat]
  BY DEF Acc, Trust
<1>5. ToSet(Append(acc.packed, s)) = ToSet(acc.packed) \cup {s}
  BY <1>4, ToSetOfAppend
<1>6. ToSet(acc.packed) \subseteq ToSet(new.packed)
  <2>1. new.packed = acc.packed \/ new.packed = Append(acc.packed, s)
    BY <1>2
  <2>2. QED
    BY <1>5, <2>1
<1>7. CASE X \cap acc.left = {}
  <2>1. X \cap new.left = {}
    BY <1>3, <1>7
  <2>2. \A x \in X : x.src \in ToSet(acc.packed)
    BY <1>7 DEF Shown
  <2>3. QED
    BY <1>1, <1>6, <2>1, <2>2 DEF Shown
<1>8. CASE X \cap acc.left # {}
  <2>1. y \in X /\ s.trust = 1 /\ s.size = 4
    BY <1>1, <1>8
  <2>2. acc.total = acc.used[1] /\ acc.total \in 0 .. 4
    BY <1>8 DEF Shown
  <2>3. Fits(d, acc, s)
    <3>1. Total[d] \in Nat /\ Total[d] >= 40 /\ Cap(d, 1) \in Nat /\ Cap(d, 1) >= 16
      BY CapsAre
    <3>2. QED
      BY <2>1, <2>2, <3>1 DEF Fits
  <2>4. /\ new.total = acc.total + 4 /\ new.used[1] = acc.used[1] + 4
        /\ ToSet(new.packed) = ToSet(acc.packed) \cup {s}
    <3>1. new.packed = Append(acc.packed, s)
      BY <1>2, <2>3
    <3>2. /\ new.total = acc.total + s.size
          /\ new.used = [acc.used EXCEPT ![s.trust] = @ + s.size]
      BY <1>2, <2>3
    <3>3. new.used[1] = acc.used[1] + 4
      BY <1>4, <2>1, <3>2
    <3>4. QED
      BY <1>5, <2>1, <3>1, <3>2, <3>3
  <2>5. \A x \in X : x \in new.left \/ x.src \in ToSet(new.packed)
    BY <1>1, <1>3, <2>4 DEF Shown
  <2>6. ASSUME X \cap new.left # {}
        PROVE  /\ new.total = new.used[1]
               /\ new.total = 4 /\ \E x \in X : X \cap new.left = {x}
    <3>1. PICK z \in X : z \in new.left
      BY <2>6
    <3>2. z # y /\ z \in acc.left
      BY <1>3, <3>1
    <3>3. acc.total = 0
      <4>1. ~\E x \in X : X \cap acc.left = {x}
        BY <1>3, <2>1, <3>1, <3>2
      <4>2. QED
        BY <1>8, <4>1 DEF Shown
    <3>4. X \cap new.left = {z}
      BY <1>3, <2>1, <3>1, <3>2
    <3>5. QED
      BY <2>2, <2>4, <3>3, <3>4
  <2>7. QED
    BY <1>1, <2>5, <2>6 DEF Shown
<1>9. QED
  BY <1>7, <1>8

LEMMA PackShows ==
  ASSUME NEW E, IsFiniteSet(E), \A x \in E : IsEntry(x),
         NEW d \in DecisionType, NEW X, X \subseteq E, NEW a, NEW b, X \subseteq {a, b},
         \A x \in X : x.src.trust = 1 /\ x.src.size = 4,
         \A left \in SUBSET E : X \cap left # {} => Best(left) \in X
  PROVE  \A x \in X : x.src \in ToSet(Pack(d, E).packed)
<1> DEFINE P == {acc \in Acc(E) : Shown(acc, X)}
<1>1. Unpacked(E) \in P
  <2>1. Unpacked(E) \in Acc(E)
    BY DEF Unpacked, Acc
  <2>2. Unpacked(E).left = E /\ Unpacked(E).total = 0 /\ Unpacked(E).used[1] = 0
    BY DEF Unpacked, Trust
  <2>3. QED
    BY <2>1, <2>2 DEF Shown
<1>2. ASSUME NEW acc \in P, acc.left # {} PROVE Consider(d, acc) \in P
  <2>1. acc \in Acc(E) /\ Shown(acc, X)
    OBVIOUS
  <2>2. Consider(d, acc) \in Acc(E)
    BY <1>2, <2>1, ConsiderIs
  <2>3. acc.left \in SUBSET E
    BY <2>1 DEF Acc
  <2>4. Shown(Consider(d, acc), X)
    BY <1>2, <2>1, <2>3, ShownByARound
  <2>5. QED
    BY <2>2, <2>4
<1>3. P \subseteq Acc(E)
  OBVIOUS
<1> HIDE DEF P
<1>4. Pack(d, E) \in P /\ Pack(d, E).left = {}
  BY <1>1, <1>2, <1>3, PackReaches
<1>5. QED
  BY <1>4 DEF P, Shown

(* Whoever decides about a run that failed at its last node sees its row   *)
(* and its first error.                                                    *)
LEMMA ExplicitPacked ==
  ASSUME FailedLast, NEW d \in DecisionType, NEW packed,
         packed = Pack(d, Ranked(Collected)).packed
  PROVE  /\ FailedRow \in ToSet(packed)
         /\ trace[Len(trace)].tries > 0 => FirstError \in ToSet(packed)
<1>1. Listing(Collected)
  BY CollectedIs DEF FailedLast
<1>2. PICK C, R : C = Collected /\ R = Ranked(C)
  OBVIOUS
<1>3. /\ IsFiniteSet(R)
      /\ \A x \in R : IsEntry(x) /\ x.src \in C /\ x.key = SortKey(x.src)
      /\ \A s \in C : \E x \in R : x.src = s
  BY <1>1, <1>2, RankedIs
<1>4. /\ \A x \in R : Explicit(x.src) => x.late = 0
      /\ \A x, y \in R : Explicit(x.src) /\ ~Explicit(y.src) => Outranks(x, y)
  BY <1>2, ExplicitRankFirst
<1> DEFINE X == {x \in R : Explicit(x.src)}
           entry(s) == [late |-> 0, key |-> SortKey(s), src |-> s]
<1>5. X \subseteq R
  OBVIOUS
<1>6. ASSUME NEW x \in X PROVE (x.src = FailedRow \/ x.src = FirstError) /\ x = entry(x.src)
  <2>1. x.src = FailedRow \/ x.src = FirstError
    BY <1>2, <1>3, ExplicitAre
  <2>2. x = [late |-> x.late, key |-> x.key, src |-> x.src]
    BY <1>3 DEF IsEntry
  <2>3. x.late = 0 /\ x.key = SortKey(x.src)
    BY <1>3, <1>4
  <2>4. QED
    BY <2>1, <2>2, <2>3
<1>7. X \subseteq {entry(FailedRow), entry(FirstError)}
  BY <1>6
<1>8. \A x \in X : x.src.trust = 1 /\ x.src.size = 4
  <2>1. FailedRow.trust = 1 /\ FailedRow.size = 4 /\ FirstError.trust = 1 /\ FirstError.size = 4
    BY DEF FailedRow, FirstError, Source, PerEvidence
  <2>2. QED
    BY <1>6, <2>1
<1>9. ASSUME NEW left \in SUBSET R, X \cap left # {} PROVE Best(left) \in X
  <2>1. IsFiniteSet(left) /\ left # {} /\ \A x \in left : IsEntry(x)
    BY <1>3, <1>9, FS_Subset
  <2>2. Best(left) \in left /\ \A y \in left : ~Outranks(y, Best(left))
    BY <2>1, BestIs
  <2>3. PICK x \in X : x \in left
    BY <1>9
  <2>4. Explicit(Best(left).src)
    BY <1>4, <2>2, <2>3
  <2>5. QED
    BY <2>2, <2>4
<1>10. PICK a, b : X \subseteq {a, b}
  BY <1>7
<1>11. PICK Y : Y = X
  OBVIOUS
<1>12. \A x \in Y : x.src \in ToSet(Pack(d, R).packed)
  <2> HIDE DEF X
  <2>1. Y \subseteq R /\ Y \subseteq {a, b} /\ (\A x \in Y : x.src.trust = 1 /\ x.src.size = 4)
    BY <1>5, <1>8, <1>10, <1>11
  <2>2. \A left \in SUBSET R : Y \cap left # {} => Best(left) \in Y
    BY <1>9, <1>11
  <2>3. \A x \in R : IsEntry(x)
    BY <1>3
  <2>4. QED
    BY <1>3, <2>1, <2>2, <2>3, PackShows
<1>13. \A s \in C : Explicit(s) => s \in ToSet(packed)
  BY <1>2, <1>3, <1>11, <1>12
<1>14. QED
  BY <1>2, <1>13, ExplicitCollected

-----------------------------------------------------------------------------
(* Decisions are informed                                                  *)

(* A run fails at its last node, and is decided about when it has ended.   *)
ContextInv ==
  /\ ContextTypeOK
  /\ \A i \in DOMAIN trace :
       trace[i].end = "failed" <=> (status = "failed" /\ i = Len(trace))
  /\ status = "failed" => Len(trace) > 0
  /\ context.type # "none" => status # "running"
  /\ context.type \in {"critic", "semantic_replan"} => status = "failed"
  /\ SystemFactsKept /\ FailureIsShown

(* In every step of a run another node ends, or the run does.              *)
LEMMA RunGoesOn ==
  ASSUME ContextInv, NEW x \in Execution, status = "running", Len(trace) < MaxNodes,
         trace' = Append(trace, x), context' = context,
         status' = (IF x.end = "failed" THEN "failed" ELSE "running")
  PROVE  ContextInv'
<1>1. PICK L, t : L = Len(trace) /\ t = Append(trace, x)
  OBVIOUS
<1>2. trace \in Seq(Execution) /\ L \in Nat /\ L < MaxNodes /\ MaxNodes \in Nat
  BY <1>1, ContextAssumption DEF ContextInv, ContextTypeOK, Execution
<1>3. /\ t \in Seq(Execution) /\ Len(t) = L + 1 /\ DOMAIN t = 1 .. L + 1 /\ t[L + 1] = x
      /\ \A i \in 1 .. L : t[i] = trace[i] /\ i \in DOMAIN trace
  BY <1>1, <1>2
<1>4. context.type = "none"
  BY DEF ContextInv
<1>5. ContextTypeOK'
  <2>1. t \in Seq([kind : Kind, end : End, tries : Tries \cup {0}]) /\ Len(t) <= MaxNodes
    BY <1>2, <1>3 DEF Execution
  <2>2. status' \in {"running", "completed", "failed"}
    OBVIOUS
  <2>3. QED
    BY <1>1, <2>1, <2>2 DEF ContextInv, ContextTypeOK
<1>6. ASSUME NEW i \in 1 .. L + 1
      PROVE  t[i].end = "failed" <=> (status' = "failed" /\ i = L + 1)
  <2>1. CASE i = L + 1
    BY <1>3, <2>1
  <2>2. CASE i # L + 1
    <3>1. i \in 1 .. L
      BY <1>2, <2>2
    <3>2. t[i].end # "failed"
      BY <1>3, <3>1 DEF ContextInv
    <3>3. QED
      BY <2>2, <3>2
  <2>3. QED
    BY <2>1, <2>2
<1>7. SystemFactsKept' /\ FailureIsShown'
  BY <1>4 DEF SystemFactsKept, FailureIsShown
<1>8. (\A i \in DOMAIN trace :
         trace[i].end = "failed" <=> (status = "failed" /\ i = Len(trace)))'
  BY <1>1, <1>3, <1>6
<1>9. (status = "failed" => Len(trace) > 0)'
  BY <1>1, <1>2, <1>3
<1>10. QED
  BY <1>4, <1>5, <1>7, <1>8, <1>9 DEF ContextInv

LEMMA RunFailedLast ==
  ASSUME ContextInv, status = "failed", \A i \in DOMAIN trace : trace[i].end # "interrupted"
  PROVE  FailedLast
<1>1. PICK L : L = Len(trace)
  OBVIOUS
<1>2. trace \in Seq(Execution) /\ L \in Nat /\ L > 0 /\ DOMAIN trace = 1 .. L
  BY <1>1 DEF ContextInv, ContextTypeOK, Execution
<1>3. trace[L].end = "failed"
  BY <1>1, <1>2 DEF ContextInv
<1>4. ASSUME NEW i \in 1 .. L - 1 PROVE Succeeded(trace[i])
  <2>1. i \in DOMAIN trace /\ i # L
    BY <1>2
  <2>2. trace[i].end # "failed" /\ trace[i].end # "interrupted"
    BY <1>1, <2>1 DEF ContextInv
  <2>3. trace[i].end \in {"ok", "denied", "failed", "interrupted"}
    BY <1>2, <2>1, ExecutionIs
  <2>4. QED
    BY <2>2, <2>3 DEF Succeeded
<1>5. QED
  BY <1>1, <1>2, <1>3, <1>4 DEF FailedLast

LEMMA DecisionIsInformed ==
  ASSUME ContextInv, NEW d \in DecisionType, AssembleDecision(d)
  PROVE  ContextInv'
<1>1. PICK E, pack : E = Ranked(Collected) /\ pack = Pack(d, E)
  OBVIOUS
<1>2. /\ IF d = "assessment" THEN status = "completed" ELSE status = "failed"
      /\ context' = [type |-> d, packed |-> pack.packed, dropped |-> pack.dropped]
      /\ trace' = trace /\ status' = status
  BY <1>1 DEF AssembleDecision
<1>3. context'.type = d /\ context'.packed = pack.packed /\ context'.dropped = pack.dropped
  BY <1>2
<1>4. trace \in Seq(Execution)
  BY DEF ContextInv, ContextTypeOK, Execution
<1>5. IsFiniteSet(E) /\ \A x \in E : IsEntry(x)
  BY <1>1, <1>4, CollectedIs, RankedIs
<1>6. pack \in Acc(E) /\ Kept(d, pack)
  BY <1>1, <1>5, PackIsKept
<1>7. pack.packed \in Seq(SourceRec) /\ pack.dropped \in Seq(SourceRec)
  BY <1>6 DEF Acc
<1>8. d \in {"critic", "semantic_replan", "assessment"}
  BY DEF DecisionType
<1>9. ContextTypeOK'
  <2>1. context'.type \in DecisionType \cup {"none"}
    BY <1>3
  <2>2. QED
    BY <1>2, <1>3, <1>7, <2>1 DEF ContextInv, ContextTypeOK
<1>10. SystemFactsKept'
  <2>1. SUFFICES ASSUME FactSize(pack.packed) + FactSize(pack.dropped)
                          <= Total[d] - Cap(d, 1) - Cap(d, 2) - Cap(d, 3),
                        NEW i \in DOMAIN pack.dropped, pack.dropped[i].trust = 0
                 PROVE  FALSE
    BY <1>3 DEF SystemFactsKept
  <2>2. Crowded(d, pack.packed, pack.dropped)
    BY <1>6, <2>1 DEF Kept
  <2>3. PICK m, k : /\ m = FactSize(pack.packed) + FactSize(pack.dropped)
                    /\ k = Total[d] - Cap(d, 1) - Cap(d, 2) - Cap(d, 3)
    OBVIOUS
  <2>4. m \in Nat
    BY <1>7, <2>3, FactSizeIs
  <2>5. k \in Int
    BY <2>3, CapsAre
  <2>6. m > k /\ m <= k
    BY <2>1, <2>2, <2>3 DEF Crowded
  <2>7. QED
    BY <2>4, <2>5, <2>6
<1>11. FailureIsShown'
  <2>1. SUFFICES ASSUME d # "assessment", \A i \in DOMAIN trace : trace[i].end # "interrupted",
                        NEW type \in {"node_run"} \cup
                              (IF Last(trace).tries > 0 THEN {"error"} ELSE {})
                 PROVE  \E s \in ToSet(pack.packed) :
                          s.type = type /\ s.node = Len(trace) /\ s.n = 1
    BY <1>2, <1>3 DEF FailureIsShown
  <2>2. FailedLast
    BY <1>2, <2>1, RunFailedLast
  <2>3. PICK packed : packed = pack.packed
    OBVIOUS
  <2>4. /\ FailedRow \in ToSet(packed)
        /\ trace[Len(trace)].tries > 0 => FirstError \in ToSet(packed)
    BY <1>1, <2>2, <2>3, ExplicitPacked
  <2>5. /\ FailedRow.type = "node_run" /\ FailedRow.node = Len(trace) /\ FailedRow.n = 1
        /\ FirstError.type = "error" /\ FirstError.node = Len(trace) /\ FirstError.n = 1
    BY DEF FailedRow, FirstError, Source
  <2>6. Last(trace) = trace[Len(trace)]
    BY DEF Last
  <2>7. CASE type = "node_run"
    BY <2>3, <2>4, <2>5, <2>7
  <2>8. CASE type # "node_run"
    <3>1. type = "error" /\ trace[Len(trace)].tries > 0
      BY <2>1, <2>6, <2>8
    <3>2. QED
      BY <2>3, <2>4, <2>5, <3>1
  <2>9. QED
    BY <2>7, <2>8
<1>12. (/\ context.type # "none" => status # "running"
        /\ context.type \in {"critic", "semantic_replan"} => status = "failed")'
  BY <1>2, <1>3, <1>8
<1>13. (/\ \A i \in DOMAIN trace :
             trace[i].end = "failed" <=> (status = "failed" /\ i = Len(trace))
        /\ status = "failed" => Len(trace) > 0)'
  BY <1>2 DEF ContextInv
<1>14. QED
  BY <1>9, <1>10, <1>11, <1>12, <1>13 DEF ContextInv

LEMMA ContextInvAtFirst ==
  ASSUME ContextInit
  PROVE  ContextInv
<1>1. trace = <<>> /\ status = "running" /\ context = NoContext /\ MaxNodes \in Nat
  BY ContextAssumption DEF ContextInit
<1>2. context.type = "none" /\ context.packed = <<>> /\ context.dropped = <<>>
  BY <1>1 DEF NoContext
<1>3. ContextTypeOK
  BY <1>1, <1>2 DEF ContextTypeOK
<1>4. SystemFactsKept /\ FailureIsShown
  BY <1>2 DEF SystemFactsKept, FailureIsShown
<1>5. QED
  BY <1>1, <1>2, <1>3, <1>4 DEF ContextInv

LEMMA ContextInvKept ==
  ASSUME ContextInv, [ContextNext]_ctxVars
  PROVE  ContextInv'
<1>1. ASSUME NEW k \in Kind, NEW e \in {"ok", "denied"}, NEW t \in Tries, NodeEnds(k, e, t)
      PROVE  ContextInv'
  <2>1. PICK x : x = [kind |-> k, end |-> e, tries |-> t]
    OBVIOUS
  <2>2. x \in Execution /\ x.end # "failed"
    BY <2>1 DEF Execution, End
  <2>3. /\ status = "running" /\ Len(trace) < MaxNodes
        /\ trace' = Append(trace, x) /\ context' = context /\ status' = status
    BY <1>1, <2>1 DEF NodeEnds, MayRun
  <2>4. QED
    BY <2>2, <2>3, RunGoesOn
<1>2. ASSUME NEW k \in Kind, NEW t \in Tries \cup {0}, NodeFails(k, t)
      PROVE  ContextInv'
  <2>1. PICK x : x = [kind |-> k, end |-> "failed", tries |-> t]
    OBVIOUS
  <2>2. x \in Execution /\ x.end = "failed"
    BY <2>1 DEF Execution, End
  <2>3. /\ status = "running" /\ Len(trace) < MaxNodes
        /\ trace' = Append(trace, x) /\ context' = context /\ status' = "failed"
    BY <1>2, <2>1 DEF NodeFails, MayRun
  <2>4. QED
    BY <2>2, <2>3, RunGoesOn
<1>3. ASSUME NEW k \in Kind, NodeInterrupted(k), 1 \in Tries
      PROVE  ContextInv'
  <2>1. PICK x : x = [kind |-> k, end |-> "interrupted", tries |-> 1]
    OBVIOUS
  <2>2. x \in Execution /\ x.end # "failed"
    BY <1>3, <2>1 DEF Execution, End
  <2>3. /\ status = "running" /\ Len(trace) < MaxNodes
        /\ trace' = Append(trace, x) /\ context' = context /\ status' = status
    BY <1>3, <2>1 DEF NodeInterrupted, MayRun
  <2>4. QED
    BY <2>2, <2>3, RunGoesOn
<1>4. ASSUME RunCompletes PROVE ContextInv'
  <2>1. status = "running" /\ status' = "completed" /\ trace' = trace /\ context' = context
    BY <1>4 DEF RunCompletes
  <2>2. context.type = "none"
    BY <2>1 DEF ContextInv
  <2>3. ContextTypeOK'
    BY <2>1 DEF ContextInv, ContextTypeOK
  <2>4. SystemFactsKept' /\ FailureIsShown'
    BY <2>1, <2>2 DEF SystemFactsKept, FailureIsShown
  <2>5. QED
    BY <2>1, <2>2, <2>3, <2>4 DEF ContextInv
<1>5. CASE UNCHANGED ctxVars
  BY <1>5 DEF ctxVars, ContextInv, ContextTypeOK, SystemFactsKept, FailureIsShown
<1>6. 1 \in Tries
  BY ContextAssumption
<1>7. QED
  BY <1>1, <1>2, <1>3, <1>4, <1>5, <1>6, DecisionIsInformed DEF ContextNext

(* For any budget of attempts, agents and memories.                        *)
THEOREM ContextInvariant == ContextSpec => []ContextInv
<1>1. ContextInit => ContextInv
  BY ContextInvAtFirst
<1>2. ContextInv /\ [ContextNext]_ctxVars => ContextInv'
  BY ContextInvKept
<1>3. QED
  BY <1>1, <1>2, PTL DEF ContextSpec

(* A context has the type of its decision and holds sources.               *)
THEOREM ContextTypes == ContextSpec => []ContextTypeOK
<1>1. ContextInv => ContextTypeOK
  BY DEF ContextInv
<1>2. QED
  BY <1>1, ContextInvariant, PTL

(* The system's facts about a run are never crowded out of a decision's    *)
(* context, and the failure that ended the run is in it.                   *)
THEOREM DecisionsInformed == ContextSpec => []DecisionsAreInformed
<1>1. ContextInv => DecisionsAreInformed
  BY DEF ContextInv, DecisionsAreInformed
<1>2. QED
  BY <1>1, ContextInvariant, PTL
=============================================================================
