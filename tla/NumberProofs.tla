---------------------------- MODULE NumberProofs ----------------------------
(***************************************************************************)
(* What libreboot-utils and sbase compute is what was asked for: random    *)
(* numbers below a limit, MAC addresses that are set and printed,          *)
(* nvmutil's commands and the images of its cat, checksums and lists of    *)
(* checksums.                                                              *)
(*                                                                         *)
(* What a loop makes is a fold over its input: one step is a lemma, and    *)
(* UpTo takes one to the next (Folding, KeepIs, UpdateFold).  The words of *)
(* an address are And and Or of digits that were shifted, so the argument  *)
(* is about bits that are apart (Disjoint); a checksum is that of the      *)
(* whole message since what is mixed is, block for block, the padded       *)
(* message (Taken, PaddedIs).                                              *)
(***************************************************************************)
EXTENDS NvmCommands, Checksums, FiniteSetTheorems, SequenceTheorems, WellFoundedInduction, TLAPS

\* A set of numbers has a least one.
LEMMA LeastOf ==
  ASSUME NEW S \in SUBSET Nat, S # {}
  PROVE  Min(S) \in S /\ Min(S) \in Nat /\ \A n \in S : Min(S) <= n
<1> DEFINE R == {ss \in Nat \X Nat : ss[1] < ss[2]}
<1>0. IsWellFoundedOn(R, Nat)
  BY NatLessThanWellFounded DEF OpToRel
<1>1. PICK x \in S : \A y \in S : <<y, x>> \notin R
  <2> HIDE DEF R
  <2> QED  BY <1>0, WFMin
<1>2. \A y \in S : x <= y
  <2> SUFFICES ASSUME NEW y \in S, ~(x <= y) PROVE FALSE  OBVIOUS
  <2>1. x \in Nat /\ y \in Nat /\ y < x  OBVIOUS
  <2>2. <<y, x>> \in R  BY <2>1
  <2> QED  BY <2>2, <1>1
<1> QED  BY <1>2 DEF Min

\* The numbers that are drawn are those below the greatest multiple of n, each with
\* the rest of its division.
LEMMA Drawn ==
  ASSUME NEW n \in 1 .. SIZE_MAX
  PROVE  LET q == SIZE_MAX \div n
         IN  /\ SIZE_MAX \in Nat /\ q \in Nat \ {0} /\ n * q \in Nat
             /\ SIZE_MAX < n * q + n /\ n * q <= SIZE_MAX
             /\ DOMAIN rsize(n) = 0 .. n * q - 1
             /\ \A raw \in 0 .. n * q - 1 : rsize(n)[raw] = raw % n
<1> DEFINE q == SIZE_MAX \div n
           m == SIZE_MAX % n
<1>1. SIZE_MAX \in Nat
  <2>1. SIZE_MAX \in Int  BY SizeAssumption DEF SIZE_MAX
  <2>2. 1 <= SIZE_MAX  BY <2>1
  <2> QED  BY <2>1, <2>2
<1>2. n \in Nat /\ 1 <= n /\ n <= SIZE_MAX  BY <1>1
<1>3. q \in Nat /\ m \in 0 .. n - 1 /\ SIZE_MAX = n * q + m
  <2> DEFINE s == SIZE_MAX
  <2> HIDE DEF s
  <2>1. s \in Nat /\ n \in Nat \ {0}  BY <1>1, <1>2 DEF s
  <2>2. s \div n \in Nat /\ s % n \in 0 .. n - 1 /\ s = n * (s \div n) + (s % n)
    BY <2>1
  <2> QED  BY <2>2 DEF s
<1>4. DOMAIN rsize(n) = {x \in 0 .. SIZE_MAX : ~Rejected(n, x)}
  BY DEF rsize
<1>5. \A x \in DOMAIN rsize(n) : rsize(n)[x] = x % n
  BY DEF rsize
<1>6. \A x \in 0 .. SIZE_MAX : Rejected(n, x) <=> x >= SIZE_MAX - m
  BY DEF Rejected
<1> HIDE DEF q, m
<1>7. n * q \in Nat /\ SIZE_MAX - m = n * q /\ n * q <= SIZE_MAX /\ SIZE_MAX < n * q + n
  BY <1>1, <1>2, <1>3
<1>8. q # 0
  <2> SUFFICES ASSUME q = 0 PROVE FALSE  OBVIOUS
  <2>1. n * q = 0  BY <1>2
  <2> QED  BY <2>1, <1>1, <1>2, <1>7
<1>9. DOMAIN rsize(n) = 0 .. n * q - 1
  <2> DEFINE k == n * q
  <2>1. k \in Nat /\ k <= SIZE_MAX /\ SIZE_MAX - m = k  BY <1>7
  <2> HIDE DEF k
  <2> QED  BY <2>1, <1>1, <1>4, <1>6 DEF k
<1> QED  BY <1>1, <1>3, <1>5, <1>7, <1>8, <1>9 DEF q

\* rsize (lib/rand.c), for every size of a size_t: each number below n is drawn as often
\* as any other, and at least every second draw counts.
THEOREM RsizeUnbiased == \A n \in 1 .. SIZE_MAX : Unbiased(n, rsize(n))
<1> SUFFICES ASSUME NEW n \in 1 .. SIZE_MAX PROVE Unbiased(n, rsize(n))
  OBVIOUS
<1> DEFINE q == SIZE_MAX \div n
           v == rsize(n)
           draws(k) == {raw \in DOMAIN v : v[raw] = k}
<1>1. /\ SIZE_MAX \in Nat /\ q \in Nat \ {0} /\ n * q \in Nat
      /\ SIZE_MAX < n * q + n /\ n * q <= SIZE_MAX
      /\ DOMAIN v = 0 .. n * q - 1
      /\ \A raw \in 0 .. n * q - 1 : v[raw] = raw % n
  BY Drawn
<1>2. n \in Nat \ {0}  BY <1>1
<1> HIDE DEF q, v
<1>3. \A raw \in DOMAIN v : v[raw] < n
  <2> SUFFICES ASSUME NEW raw \in 0 .. n * q - 1 PROVE v[raw] < n
    BY <1>1
  <2>1. raw \in Nat  BY <1>1
  <2>2. raw % n < n  BY <2>1, <1>2
  <2> QED  BY <2>2, <1>1
<1>4. ASSUME NEW k \in 0 .. n - 1
      PROVE  draws(k) = {n * j + k : j \in 0 .. q - 1}
  <2>1. ASSUME NEW raw \in draws(k) PROVE \E j \in 0 .. q - 1 : raw = n * j + k
    <3>1. raw \in Nat /\ raw < n * q /\ raw % n = k  BY <1>1
    <3> DEFINE j == raw \div n
    <3>2. j \in Nat /\ raw = n * j + k  BY <3>1, <1>2
    <3> HIDE DEF j
    <3>3. j < q
      <4> SUFFICES ASSUME j >= q PROVE FALSE  BY <3>2, <1>1
      <4>1. n * j >= n * q  BY <3>2, <1>1, <1>2
      <4>2. n * j \in Int /\ n * q \in Int  BY <3>2, <1>1, <1>2
      <4> QED  BY <4>1, <4>2, <3>1, <3>2
    <3>4. j \in 0 .. q - 1  BY <3>2, <3>3, <1>1
    <3> QED  BY <3>2, <3>4
  <2>2. ASSUME NEW j \in 0 .. q - 1 PROVE n * j + k \in draws(k)
    <3>1. j \in Nat /\ j + 1 <= q /\ k \in Nat /\ k < n  BY <1>1, <1>2
    <3>2. n * j \in Nat /\ n * (j + 1) <= n * q /\ n * (j + 1) = n * j + n
      BY <3>1, <1>1, <1>2
    <3> DEFINE raw == n * j + k
    <3>3. raw \in 0 .. n * q - 1
      <4> DEFINE p == n * j
                 t == n * q
      <4>1. p \in Nat /\ t \in Nat /\ p + n <= t  BY <3>2, <1>1
      <4> HIDE DEF p, t
      <4>2. p + k \in 0 .. t - 1  BY <4>1, <3>1, <1>2
      <4> QED  BY <4>2 DEF p, t
    <3>4. raw % n = k  BY <3>1, <3>2, <1>2
    <3> HIDE DEF raw
    <3> QED  BY <3>3, <3>4, <1>1 DEF raw
  <2> QED  BY <2>1, <2>2
<1>5. ASSUME NEW k \in 0 .. n - 1 PROVE Cardinality(draws(k)) = q
  <2> DEFINE J == 0 .. q - 1
             D == {n * j + k : j \in J}
             f == [j \in J |-> n * j + k]
  <2>1. IsFiniteSet(J) /\ Cardinality(J) = q  BY <1>1, FS_Interval
  <2>2. f \in Bijection(J, D)
    <3>1. \A i, j \in J : n * i + k = n * j + k => i = j
      <4> SUFFICES ASSUME NEW i \in J, NEW j \in J, n * i + k = n * j + k PROVE i = j
        OBVIOUS
      <4>1. i \in Int /\ j \in Int /\ k \in Int  BY <1>1
      <4>2. n * (i - j) = 0  BY <4>1, <1>2
      <4> QED  BY <4>1, <4>2, <1>2
    <3>2. f \in [J -> D]  OBVIOUS
    <3>3. \A i, j \in J : f[i] = f[j] => i = j  BY <3>1
    <3>4. \A d \in D : \E j \in J : f[j] = d  OBVIOUS
    <3> HIDE DEF f, D, J
    <3> QED  BY <3>2, <3>3, <3>4 DEF Bijection, Injection, Surjection, IsInjective
  <2>3. Cardinality(D) = q
    <3> HIDE DEF f, D, J
    <3>1. ExistsBijection(J, D)  BY <2>2 DEF ExistsBijection
    <3> QED  BY <3>1, <2>1, FS_Bijection
  <2> QED  BY <2>3, <1>4
<1>6. \A k \in 1 .. n - 1 : Cardinality(draws(k)) = Cardinality(draws(0))
  <2>1. 0 \in 0 .. n - 1  BY <1>2
  <2> SUFFICES ASSUME NEW k \in 1 .. n - 1 PROVE Cardinality(draws(k)) = Cardinality(draws(0))
    OBVIOUS
  <2>2. k \in 0 .. n - 1  OBVIOUS
  <2> HIDE DEF draws
  <2> QED  BY <2>1, <2>2, <1>5
<1>7. 2 * Cardinality(DOMAIN v) >= SIZE_MAX
  <2> DEFINE k == n * q
  <2>1. k \in Nat /\ SIZE_MAX < k + n /\ n <= k
    <3>1. n <= n * q  BY <1>1, <1>2
    <3> QED  BY <3>1, <1>1
  <2>2. DOMAIN v = 0 .. k - 1  BY <1>1
  <2> HIDE DEF k
  <2>3. Cardinality(DOMAIN v) = k
    <3>1. k - 1 \in Int /\ 0 \in Int /\ (0 > k - 1 => k = 0) /\ (k - 1) - 0 + 1 = k
      BY <2>1
    <3>2. Cardinality(0 .. k - 1) = IF 0 > k - 1 THEN 0 ELSE (k - 1) - 0 + 1
      BY <3>1, FS_Interval
    <3> QED  BY <3>1, <3>2, <2>2
  <2> QED  BY <2>1, <2>3, <1>1, <1>2
<1> HIDE DEF draws
<1> QED  BY <1>3, <1>6, <1>7 DEF Unbiased, draws, v

----------------------------------------------------------------------------
(* Folds from the left: what a fold over m places is, place by place.      *)

\* What holds of 0 and goes from each number to the next holds of all.
LEMMA UpTo ==
  ASSUME NEW T, 0 \in T, NEW m \in Nat, \A k \in 0 .. m - 1 : k \in T => k + 1 \in T
  PROVE  \A k \in 0 .. m : k \in T
<1> DEFINE B == {k \in 0 .. m : k \notin T}
<1> SUFFICES ASSUME B # {} PROVE FALSE  OBVIOUS
<1>1. Min(B) \in B /\ \A n \in B : Min(B) <= n
  <2>1. B \in SUBSET Nat  OBVIOUS
  <2> HIDE DEF B
  <2> QED  BY <2>1, LeastOf
<1>2. PICK k \in B : \A n \in B : k <= n  BY <1>1
<1>3. k # 0 /\ k - 1 \in 0 .. m - 1 /\ k - 1 \notin B  BY <1>2
<1>4. k - 1 \in T  BY <1>3
<1>5. k - 1 + 1 = k /\ k - 1 + 1 \in T  BY <1>3, <1>4, <1>2
<1> QED  BY <1>5, <1>2

\* The greatest of places up to k is k when it is one.
LEMMA MaxIs ==
  ASSUME NEW k \in Nat, NEW s \in SUBSET (1 .. k), k \in s
  PROVE  Max(s) = k
<1>1. \A x \in s : x \in 1 .. k  OBVIOUS
<1>2. \A x \in s : (\A y \in s : x >= y) => x = k  BY <1>1
<1>3. \A y \in s : k >= y  BY <1>1
<1> QED  BY <1>2, <1>3 DEF Max

\* Steps that are functions on V; and the function of sets of places of which a fold
\* from the left is a value.
AreSteps(g, m, V) == g \in [1 .. m -> [V -> V]]

\* w is such a function: base of no places, and of others a step at the greatest.
Folding(w, m, V, base, g) ==
    /\ w \in [SUBSET (1 .. m) -> V]
    /\ w[{}] = base
    /\ \A s \in SUBSET (1 .. m) : s # {} =>
         Max(s) \in s /\ w[s] = g[Max(s)][w[s \ {Max(s)}]]

\* There is one, by steps from the first places to more.
LEMMA FoldExists ==
  ASSUME NEW V, NEW base \in V, NEW m \in Nat, NEW g, AreSteps(g, m, V)
  PROVE  \E w : Folding(w, m, V, base, g)
<1> USE DEF AreSteps
<1> DEFINE Is(w, k) == /\ w[{}] = base
                       /\ \A s \in SUBSET (1 .. k) : s # {} =>
                            Max(s) \in s /\ w[s] = g[Max(s)][w[s \ {Max(s)}]]
           T == {k \in 0 .. m : \E w \in [SUBSET (1 .. k) -> V] : Is(w, k)}
<1>1. 0 \in T
  <2> DEFINE w == [s \in SUBSET (1 .. 0) |-> base]
  <2>1. \A s \in SUBSET (1 .. 0) : s = {}  OBVIOUS
  <2>2. w \in [SUBSET (1 .. 0) -> V]  OBVIOUS
  <2>3. Is(w, 0)  BY <2>1
  <2>4. 0 \in 0 .. m  OBVIOUS
  <2> HIDE DEF w, Is
  <2> QED  BY <2>2, <2>3, <2>4
<1>2. ASSUME NEW k \in 0 .. m - 1, k \in T PROVE k + 1 \in T
  <2>1. PICK w \in [SUBSET (1 .. k) -> V] : Is(w, k)  BY <1>2
  <2> DEFINE u == [s \in SUBSET (1 .. k + 1) |->
                     IF k + 1 \in s THEN g[k + 1][w[s \ {k + 1}]] ELSE w[s]]
  <2>2. \A s \in SUBSET (1 .. k + 1) : s \ {k + 1} \in SUBSET (1 .. k)  OBVIOUS
  <2>3. u \in [SUBSET (1 .. k + 1) -> V]
    <3>1. \A s \in SUBSET (1 .. k + 1) : w[s \ {k + 1}] \in V  BY <2>1, <2>2
    <3>2. \A s \in SUBSET (1 .. k + 1) : g[k + 1][w[s \ {k + 1}]] \in V  BY <3>1
    <3>3. \A s \in SUBSET (1 .. k + 1) : k + 1 \notin s => s = s \ {k + 1}  OBVIOUS
    <3> QED  BY <3>1, <3>2, <3>3
  <2>4. ASSUME NEW s \in SUBSET (1 .. k + 1), s # {}
        PROVE  Max(s) \in s /\ u[s] = g[Max(s)][u[s \ {Max(s)}]]
    <3>1. CASE k + 1 \in s
      <4>1. Max(s) = k + 1  BY <3>1, MaxIs
      <4>2. u[s \ {k + 1}] = w[s \ {k + 1}]  BY <2>2
      <4>3. u[s] = g[k + 1][w[s \ {k + 1}]]  BY <3>1
      <4> QED  BY <3>1, <4>1, <4>2, <4>3
    <3>2. CASE k + 1 \notin s
      <4>1. s \in SUBSET (1 .. k) /\ u[s] = w[s]  BY <3>2
      <4> DEFINE r == s \ {Max(s)}
      <4>0. r \in SUBSET (1 .. k)  BY <4>1
      <4>2. u[r] = w[r]
        <5> HIDE DEF r
        <5>1. r \in SUBSET (1 .. k + 1) /\ k + 1 \notin r  BY <4>0
        <5> QED  BY <5>1
      <4>3. Max(s) \in s /\ w[s] = g[Max(s)][w[r]]  BY <4>1, <2>1, <2>4
      <4> QED  BY <4>1, <4>2, <4>3
    <3> QED  BY <3>1, <3>2
  <2>5. u[{}] = base
    <3>1. {} \in SUBSET (1 .. k + 1) /\ k + 1 \notin {} /\ w[{}] = base  BY <2>1
    <3> QED  BY <3>1
  <2>6. Is(u, k + 1)
    <3> HIDE DEF u
    <3> QED  BY <2>4, <2>5
  <2> HIDE DEF u, Is
  <2> QED  BY <2>3, <2>6
<1>3. m \in T
  <2>1. \A k \in 0 .. m - 1 : k \in T => k + 1 \in T
    <3> HIDE DEF T
    <3> QED  BY <1>2
  <2> HIDE DEF T
  <2>2. \A k \in 0 .. m : k \in T  BY ONLY m \in Nat, <1>1, <2>1, UpTo
  <2> QED  BY ONLY m \in Nat, <2>2
<1>4. PICK w \in [SUBSET (1 .. m) -> V] : Is(w, m)  BY <1>3
<1> QED  BY <1>4 DEF Folding

----------------------------------------------------------------------------
(* What is kept of a sequence.                                             *)

\* What is kept of the first n characters, and where it was.
IsKept(t, at, s, places, n) ==
    /\ DOMAIN at = DOMAIN t
    /\ \A k \in DOMAIN t : at[k] \in 1 .. n /\ at[k] \in places /\ t[k] = s[at[k]]
    /\ \A j, k \in DOMAIN t : j < k => at[j] < at[k]
    /\ \A i \in 1 .. n : i \in places => \E k \in DOMAIN t : at[k] = i
    /\ (\A i \in 1 .. n : i \in places) => DOMAIN t = 1 .. n /\ \A k \in 1 .. n : at[k] = k
    /\ Len(t) \in 0 .. n /\ (Len(t) = n => \A i \in 1 .. n : i \in places)

\* A step of Keep.
KeepStep(s, places, kept, i) == IF i \in places THEN Append(kept, s[i]) ELSE kept

\* One more place is kept or left out, and what was kept stays in its order.
LEMMA KeptStep ==
  ASSUME NEW S, NEW s, NEW places, NEW n \in Nat, s[n + 1] \in S,
         NEW t \in Seq(S), NEW at, IsKept(t, at, s, places, n)
  PROVE  \E at2 : IsKept(KeepStep(s, places, t, n + 1), at2, s, places, n + 1)
<1>1. CASE n + 1 \notin places
  <2>1. KeepStep(s, places, t, n + 1) = t  BY <1>1 DEF KeepStep
  <2>2. IsKept(t, at, s, places, n + 1)
    <3>1. ~\A i \in 1 .. n + 1 : i \in places  BY <1>1
    <3>2. \A i \in 1 .. n + 1 : i \in places => i \in 1 .. n  BY <1>1
    <3>3. 1 .. n \subseteq 1 .. n + 1  OBVIOUS
    <3>4. Len(t) \in 0 .. n + 1 /\ Len(t) # n + 1  BY DEF IsKept
    <3> QED  BY <3>1, <3>2, <3>3, <3>4 DEF IsKept
  <2> QED  BY <2>1, <2>2
<1>2. CASE n + 1 \in places
  <2> DEFINE m  == Len(t)
             u  == Append(t, s[n + 1])
             bt == [k \in 1 .. m + 1 |-> IF k = m + 1 THEN n + 1 ELSE at[k]]
  <2>1. m \in Nat /\ DOMAIN t = 1 .. m /\ DOMAIN u = 1 .. m + 1
    OBVIOUS
  <2>2. \A k \in 1 .. m + 1 : u[k] = IF k = m + 1 THEN s[n + 1] ELSE t[k]
    OBVIOUS
  <2> HIDE DEF u, m
  <2>3. \A k \in 1 .. m : at[k] \in 1 .. n /\ at[k] \in places /\ t[k] = s[at[k]]
    BY <2>1 DEF IsKept
  <2>4. \A k \in 1 .. m + 1 : bt[k] \in 1 .. n + 1 /\ bt[k] \in places /\ u[k] = s[bt[k]]
    BY <1>2, <2>1, <2>2, <2>3
  <2>5. \A j, k \in 1 .. m + 1 : j < k => bt[j] < bt[k]
    <3> SUFFICES ASSUME NEW j \in 1 .. m + 1, NEW k \in 1 .. m + 1, j < k PROVE bt[j] < bt[k]
      OBVIOUS
    <3>1. j \in 1 .. m /\ bt[j] = at[j] /\ at[j] \in 1 .. n  BY <2>1, <2>3
    <3>2. CASE k = m + 1  BY <3>1, <3>2
    <3>3. CASE k # m + 1
      <4>1. k \in 1 .. m /\ bt[k] = at[k]  BY <2>1, <3>3
      <4> QED  BY <2>1, <3>1, <4>1 DEF IsKept
    <3> QED  BY <3>2, <3>3
  <2>6. \A i \in 1 .. n + 1 : i \in places => \E k \in 1 .. m + 1 : bt[k] = i
    <3> SUFFICES ASSUME NEW i \in 1 .. n + 1, i \in places PROVE \E k \in 1 .. m + 1 : bt[k] = i
      OBVIOUS
    <3>1. CASE i = n + 1
      <4>1. m + 1 \in 1 .. m + 1 /\ bt[m + 1] = n + 1  BY <2>1
      <4> QED  BY <3>1, <4>1
    <3>2. CASE i # n + 1
      <4>1. PICK k \in 1 .. m : at[k] = i  BY <2>1, <3>2 DEF IsKept
      <4>2. k \in 1 .. m + 1 /\ bt[k] = i  BY <2>1, <4>1
      <4> QED  BY <4>2
    <3> QED  BY <3>1, <3>2
  <2>7. ASSUME \A i \in 1 .. n + 1 : i \in places
        PROVE  1 .. m + 1 = 1 .. n + 1 /\ \A k \in 1 .. n + 1 : bt[k] = k
    <3>1. \A i \in 1 .. n : i \in places  BY <2>7
    <3>2. 1 .. m = 1 .. n /\ \A k \in 1 .. n : at[k] = k  BY <2>1, <3>1 DEF IsKept
    <3>3. m = n  BY <2>1, <3>2
    <3> QED  BY <2>1, <3>2, <3>3
  <2>8. KeepStep(s, places, t, n + 1) = u  BY <1>2 DEF KeepStep, u
  <2>11. Len(u) \in 0 .. n + 1 /\ (Len(u) = n + 1 => \A i \in 1 .. n + 1 : i \in places)
    <3>1. Len(u) = m + 1 /\ m \in 0 .. n /\ (m = n => \A i \in 1 .. n : i \in places)
      BY DEF u, m, IsKept
    <3> HIDE DEF IsKept
    <3>2. \A i \in 1 .. n + 1 : i \in 1 .. n \/ i = n + 1  OBVIOUS
    <3> QED  BY <1>2, <3>1, <3>2
  <2>9. DOMAIN bt = 1 .. m + 1  OBVIOUS
  <2> HIDE DEF bt
  <2>10. IsKept(u, bt, s, places, n + 1)
    BY <2>1, <2>4, <2>5, <2>6, <2>7, <2>9, <2>11 DEF IsKept
  <2> QED  BY <2>8, <2>10
<1> QED  BY <1>1, <1>2

\* What Keep keeps are characters of s, in their order.
LEMMA KeepIs ==
  ASSUME NEW S, NEW s \in Seq(S), NEW places
  PROVE  Keep(s, places) \in Seq(S) /\ \E at : IsKept(Keep(s, places), at, s, places, Len(s))
<1> DEFINE n == Len(s)
           V == Seq(S)
           g == [k \in 1 .. n |-> [c \in V |-> KeepStep(s, places, c, k)]]
<1>1. n \in Nat /\ DOMAIN s = 1 .. n /\ \A k \in 1 .. n : s[k] \in S  OBVIOUS
<1>0. \A k \in 1 .. n, c \in V : KeepStep(s, places, c, k) \in V
  <2> SUFFICES ASSUME NEW k \in 1 .. n, NEW c \in V PROVE KeepStep(s, places, c, k) \in V
    OBVIOUS
  <2>1. s[k] \in S  BY <1>1
  <2>2. Append(c, s[k]) \in V  BY <2>1
  <2> QED  BY <2>2 DEF KeepStep
<1>2. << >> \in V  OBVIOUS
<1> HIDE DEF n, V
<1>3. PICK w : Folding(w, n, V, << >>, g)
  <2>1. AreSteps(g, n, V)  BY <1>0 DEF AreSteps
  <2> HIDE DEF g
  <2> QED  BY <1>1, <1>2, <2>1, FoldExists
<1> DEFINE e == [i \in DOMAIN s |-> i]
           I == CHOOSE u : u = [x \in SUBSET (1 .. n) |->
                  IF x = {} THEN << >> ELSE KeepStep(s, places, u[x \ {Max(x)}], e[Max(x)])]
<1>4. w = [x \in SUBSET (1 .. n) |->
             IF x = {} THEN << >> ELSE KeepStep(s, places, w[x \ {Max(x)}], e[Max(x)])]
  <2>1. ASSUME NEW x \in SUBSET (1 .. n), x # {}
        PROVE  g[Max(x)][w[x \ {Max(x)}]] = KeepStep(s, places, w[x \ {Max(x)}], e[Max(x)])
    <3>1. Max(x) \in 1 .. n  BY <1>3, <2>1 DEF Folding
    <3> DEFINE r == x \ {Max(x)}
    <3>2. r \in SUBSET (1 .. n)  OBVIOUS
    <3> HIDE DEF r
    <3>3. w[r] \in V  BY <3>2, <1>3 DEF Folding
    <3>4. e[Max(x)] = Max(x)  BY <1>1, <3>1
    <3> QED  BY <3>1, <3>3, <3>4 DEF r
  <2> HIDE DEF g
  <2> QED  BY <2>1, <1>3 DEF Folding
<1>5. I = [x \in SUBSET (1 .. n) |->
             IF x = {} THEN << >> ELSE KeepStep(s, places, I[x \ {Max(x)}], e[Max(x)])]
  <2> HIDE DEF e
  <2> QED  BY <1>4
<1>6. Keep(s, places) = I[1 .. n]
  BY <1>1 DEF Keep, KeepStep, FoldLeftDomain, FoldLeft, MapThenFoldSet
<1> HIDE DEF I
<1>7. I[{}] = << >>
  <2>1. {} \in SUBSET (1 .. n)  OBVIOUS
  <2> QED  BY <2>1, <1>5
<1>8. \A k \in 1 .. n : I[1 .. k] = KeepStep(s, places, I[1 .. k - 1], k)
  <2> SUFFICES ASSUME NEW k \in 1 .. n PROVE I[1 .. k] = KeepStep(s, places, I[1 .. k - 1], k)
    OBVIOUS
  <2>1. k \in Nat /\ 1 .. k \in SUBSET (1 .. n) /\ k \in 1 .. k  BY <1>1
  <2>2. Max(1 .. k) = k  BY <2>1, MaxIs
  <2>3. (1 .. k) \ {k} = 1 .. k - 1  BY <2>1
  <2>4. e[k] = k  BY <1>1
  <2> HIDE DEF e
  <2> QED  BY <2>1, <2>2, <2>3, <2>4, <1>5
<1> DEFINE T == {k \in 0 .. n : I[1 .. k] \in V /\ \E at : IsKept(I[1 .. k], at, s, places, k)}
<1>9. 0 \in T
  <2>1. 1 .. 0 = {} /\ 0 \in 0 .. n  BY <1>1
  <2>2. IsKept(<< >>, << >>, s, places, 0)
    <3>1. DOMAIN << >> = {}  OBVIOUS
    <3> QED  BY <3>1, <2>1 DEF IsKept
  <2> QED  BY <1>2, <1>7, <2>1, <2>2
<1>10. \A k \in 0 .. n - 1 : k \in T => k + 1 \in T
  <2> SUFFICES ASSUME NEW k \in 0 .. n - 1, k \in T PROVE k + 1 \in T
    OBVIOUS
  <2>1. k + 1 \in 1 .. n /\ k + 1 - 1 = k /\ k \in Nat /\ s[k + 1] \in S  BY <1>1
  <2>2. PICK at : IsKept(I[1 .. k], at, s, places, k)  OBVIOUS
  <2> DEFINE t == I[1 .. k]
             t2 == I[1 .. k + 1]
  <2>3. t2 = KeepStep(s, places, t, k + 1)  BY <2>1, <1>8
  <2>4. t \in V  OBVIOUS
  <2>5. t2 \in V  BY <1>0, <2>1, <2>3, <2>4
  <2> HIDE DEF T
  <2>6. \E at2 : IsKept(t2, at2, s, places, k + 1)
    <3> HIDE DEF t, t2
    <3> QED  BY <2>1, <2>2, <2>3, <2>4, KeptStep DEF V, t
  <2> QED  BY <2>1, <2>5, <2>6, <1>1 DEF T
<1> HIDE DEF T
<1>11. n \in T
  <2>1. \A k \in 0 .. n : k \in T  BY <1>1, <1>9, <1>10, UpTo
  <2> QED  BY <1>1, <2>1
<1> QED  BY <1>6, <1>11 DEF T, V, n

\* Characters that are next to each other in it have none between that was kept; and it
\* is s when all places are kept.
LEMMA KeepFacts ==
  ASSUME NEW S, NEW s \in Seq(S), NEW places
  PROVE  LET t == Keep(s, places)
         IN  /\ t \in Seq(S)
             /\ \A k \in 1 .. Len(t) : \E i \in 1 .. Len(s) : i \in places /\ t[k] = s[i]
             /\ \A k \in 1 .. Len(t) - 1 : \E i, j \in 1 .. Len(s) :
                  /\ i < j /\ i \in places /\ j \in places /\ t[k] = s[i] /\ t[k + 1] = s[j]
                  /\ \A h \in 1 .. Len(s) : i < h /\ h < j => h \notin places
             /\ (\A i \in 1 .. Len(s) : i \in places) => t = s
<1> DEFINE t == Keep(s, places)
           n == Len(s)
<1>1. t \in Seq(S) /\ n \in Nat  BY KeepIs
<1>2. PICK at : IsKept(t, at, s, places, n)  BY KeepIs
<1> HIDE DEF t
<1>3. DOMAIN t = 1 .. Len(t) /\ Len(t) \in Nat  BY <1>1
<1>4. \A k \in 1 .. Len(t) : \E i \in 1 .. n : i \in places /\ t[k] = s[i]
  BY <1>2, <1>3 DEF IsKept
<1>10. \A i, j \in 1 .. Len(t) : i < j => at[i] < at[j]
  BY <1>2, <1>3 DEF IsKept
<1>5. ASSUME NEW k \in 1 .. Len(t) - 1
      PROVE  \E i, j \in 1 .. n :
               /\ i < j /\ i \in places /\ j \in places /\ t[k] = s[i] /\ t[k + 1] = s[j]
               /\ \A h \in 1 .. n : i < h /\ h < j => h \notin places
  <2>1. k \in 1 .. Len(t) /\ k + 1 \in 1 .. Len(t) /\ k < k + 1  BY <1>3
  <2>2. /\ at[k] \in 1 .. n /\ at[k] \in places /\ t[k] = s[at[k]]
        /\ at[k + 1] \in 1 .. n /\ at[k + 1] \in places /\ t[k + 1] = s[at[k + 1]]
        /\ at[k] < at[k + 1]
    BY <2>1, <1>2, <1>3 DEF IsKept
  <2>3. ASSUME NEW h \in 1 .. n, at[k] < h, h < at[k + 1], h \in places PROVE FALSE
    <3>1. PICK j \in 1 .. Len(t) : at[j] = h  BY <2>3, <1>2, <1>3 DEF IsKept
    <3>2. j <= k => at[j] <= at[k]
      <4>1. j < k => at[j] < at[k]  BY <2>1, <1>10
      <4> QED  BY <4>1, <2>1, <2>2, <2>3, <3>1
    <3>3. k + 1 <= j => at[k + 1] <= at[j]
      <4>1. k + 1 < j => at[k + 1] < at[j]  BY <2>1, <1>10
      <4> QED  BY <4>1, <2>1, <2>2, <2>3, <3>1
    <3> QED  BY <2>1, <2>2, <2>3, <3>1, <3>2, <3>3, <1>3
  <2> QED  BY <2>2, <2>3
<1>6. ASSUME \A i \in 1 .. n : i \in places PROVE t = s
  <2>1. DOMAIN t = 1 .. n /\ \A k \in 1 .. n : at[k] = k  BY <1>2, <1>6 DEF IsKept
  <2>2. \A k \in 1 .. n : t[k] = s[k]  BY <2>1, <1>2 DEF IsKept
  <2>3. Len(t) = n  BY <2>1, <1>3, <1>1
  <2> QED  BY <2>2, <2>3, <1>1, SeqEqual
<1> QED  BY <1>1, <1>4, <1>5, <1>6 DEF t

----------------------------------------------------------------------------
(* nvmutil's command line, and the images of cat.                          *)

\* The command that is run is the one that was written.
LEMMA CommandAsWritten ==
  ASSUME NEW a \in Arguments
  PROVE  RunsAsWritten(a, set_cmd(a))
<1> DEFINE v == set_cmd(a)
           part == IF Table[a.cmd].arg_part THEN conv_argv_part_num(a.arg) ELSE None
           mac  == IF a.cmd # "setmac" THEN None ELSE IF argc(a) >= 4 THEN a.arg ELSE AnyMac
<1>1. /\ a.cmd \in STRING \cup {None} /\ a.arg \in STRING \cup {None}
      /\ a.cmd = None => a.arg = None
  BY DEF Arguments
<1>2. /\ DOMAIN Table = {"dump", "setmac", "swap", "copy", "cat", "cat16", "cat128"}
      /\ \A c \in DOMAIN Table : /\ Table[c].argc = IF c = "copy" THEN 4 ELSE 3
                                 /\ (Table[c].arg_part <=> c = "copy")
                                 /\ Table[c].rw_size = IF c \in {"dump", "setmac"} THEN 128 ELSE 4096
  BY ONLY TRUE, Zenon DEF Table
<1>3. \A c \in DOMAIN Table : sanitize_command_index(c)
  BY <1>2 DEF sanitize_command_index
<1>4. /\ None \notin DOMAIN Table /\ None \notin {"0", "1"} /\ None \notin {0, 1}
      /\ Refused \notin {None, 0, 1}
      /\ Refused \notin [cmd : STRING, part : {None, 0, 1}, mac : STRING \cup {None, AnyMac}]
  BY ArgumentAssumption
<1>5. CASE a.cmd \notin DOMAIN Table
  <2>1. v = Refused  BY <1>5 DEF set_cmd
  <2> QED  BY <1>5, <2>1 DEF RunsAsWritten
<1>6. CASE a.cmd \in DOMAIN Table
  <2>1. argc(a) = IF a.arg = None THEN 3 ELSE 4  BY <1>4, <1>6 DEF argc
  <2>2. CASE a.cmd = "copy" /\ a.arg = None
    <3>1. v = Refused  BY <1>2, <1>6, <2>1, <2>2 DEF set_cmd
    <3> QED  BY <1>4, <2>2, <3>1 DEF RunsAsWritten
  <2>3. CASE a.cmd # "copy" \/ a.arg # None
    <3>1. v = IF part = Refused THEN Refused ELSE [cmd |-> a.cmd, part |-> part, mac |-> mac]
      BY <1>2, <1>3, <1>6, <2>1, <2>3 DEF set_cmd, set_cmd_args
    <3>2. part = IF a.cmd # "copy" THEN None
                 ELSE IF a.arg = "0" THEN 0 ELSE IF a.arg = "1" THEN 1 ELSE Refused
      <4>1. Table[a.cmd].arg_part <=> a.cmd = "copy"  BY <1>2, <1>6
      <4>2. conv_argv_part_num(a.arg) =
              IF a.arg = "0" THEN 0 ELSE IF a.arg = "1" THEN 1 ELSE Refused
        BY DEF conv_argv_part_num
      <4> QED  BY <4>1, <4>2
    <3>3. mac \in {None, a.arg, AnyMac} /\ mac \in STRING \cup {None, AnyMac}
      BY <1>1
    <3>4. CASE part = Refused
      <4>1. a.cmd = "copy" /\ a.arg \notin {"0", "1"}  BY <1>4, <3>2, <3>4
      <4> QED  BY <3>1, <3>4, <4>1 DEF RunsAsWritten
    <3>5. CASE part # Refused
      <4>1. v = [cmd |-> a.cmd, part |-> part, mac |-> mac]  BY <3>1, <3>5
      <4>2. a.cmd \in STRING  BY <1>1, <1>4, <1>6
      <4>3. part \in {None, 0, 1}  BY <3>2, <3>5
      <4>4. v \in [cmd : STRING, part : {None, 0, 1}, mac : STRING \cup {None, AnyMac}]
        <5> HIDE DEF v, part, mac
        <5> QED  BY <3>3, <4>1, <4>2, <4>3
      <4>5. v # Refused  BY <1>4, <4>4
      <4>6. v.cmd = a.cmd /\ v.part = part /\ v.mac = mac
        <5> HIDE DEF v, part, mac
        <5> QED  BY <4>1
      <4>7. /\ part = 0 => a.arg = "0"
            /\ part = 1 => a.arg = "1"
            /\ a.cmd = "copy" <=> part # None
        BY <1>4, <3>2, <3>5
      <4> HIDE DEF v, part, mac
      <4> QED  BY <3>3, <4>5, <4>6, <4>7 DEF RunsAsWritten, v
    <3> QED  BY <3>4, <3>5
  <2> QED  BY <2>2, <2>3
<1> QED  BY <1>5, <1>6

\* The parts are where a file of that size has them.
LEMMA CatOfSize ==
  ASSUME NEW f, IsGbe(f), NEW c \in {"cat", "cat16", "cat128"}
  PROVE  IsFileOfSize(f, cat(f, nff(c)), 2 * (nff(c) + 1))
<1> DEFINE n == nff(c)
           h == Cardinality(DOMAIN f) \div 2
           filler == [i \in 1 .. n |-> Padding]
           X == {f[0], f[h], Padding}
           part(p) == <<f[p * h]>> \o filler
<1>1. n \in {0, 1, 15}  BY DEF nff
<1>2. part(0) \o part(1) = cat(f, n)  BY DEF cat
<1>3. h \in Nat
  <2>1. PICK m \in 1 .. Cardinality(DOMAIN f) : DOMAIN f = 0 .. 2 * m - 1  BY DEF IsGbe
  <2>2. m \in Int  OBVIOUS
  <2>3. Cardinality(0 .. 2 * m - 1) = IF 0 > 2 * m - 1 THEN 0 ELSE 2 * m - 1 - 0 + 1
    BY <2>2, FS_Interval
  <2> QED  BY <2>1, <2>2, <2>3
<1>4. filler \in Seq(X) /\ Len(filler) = n  BY <1>1
<1>5. 0 * h = 0 /\ 1 * h = h  BY <1>3
<1>6. part(0) = <<f[0]>> \o filler /\ part(1) = <<f[h]>> \o filler  BY <1>5
<1> HIDE DEF n, h, filler
<1>7. <<f[0]>> \in Seq(X) /\ <<f[h]>> \in Seq(X)  OBVIOUS
<1>8. /\ part(0) \in Seq(X) /\ Len(part(0)) = n + 1 /\ part(0)[1] = f[0]
      /\ part(1) \in Seq(X) /\ Len(part(1)) = n + 1 /\ part(1)[1] = f[h]
  BY <1>1, <1>4, <1>6, <1>7
<1>9. cat(f, n) = part(0) \o part(1)  BY <1>2
<1> HIDE DEF part, X
<1>10. /\ Len(cat(f, n)) = 2 * (n + 1)
       /\ cat(f, n)[1] = f[0] /\ cat(f, n)[n + 2] = f[h]
  BY <1>1, <1>8, <1>9
<1>11. (2 * (n + 1)) \div 2 + 1 = n + 2  BY <1>1
<1> QED  BY <1>10, <1>11 DEF IsFileOfSize, n, h

----------------------------------------------------------------------------
(* Lists of checksums (util/sbase/libutil/crypt.c).                        *)

\* A line counts as right if every digit is.
LEMMA LineIs ==
  ASSUME NEW line \in Lines
  PROVE  mdcheckentry(line) = "OK" <=>
           /\ line.spaces /\ line.file = "there"
           /\ Len(line.digits) \div 2 = Len(line.md)
           /\ \A k \in DOMAIN line.md : /\ line.digits[2 * k - 1] = line.md[k] \div 16
                                        /\ line.digits[2 * k] = line.md[k] % 16
<1> DEFINE ds == line.digits
           md == line.md
           n == Len(md)
           wrong(i) == \/ -1 \in {ds[2 * i - 1], ds[2 * i]}
                       \/ 16 * ds[2 * i - 1] + ds[2 * i] # md[i]
           W == {i \in 1 .. n : wrong(i)}
           first == IF W # {} THEN Min(W) ELSE 0
           right(k) == ds[2 * k - 1] = md[k] \div 16 /\ ds[2 * k] = md[k] % 16
<1>1. /\ ds \in Seq(-1 .. 15) /\ md \in Seq(0 .. 255) /\ line.spaces \in BOOLEAN
      /\ line.file \in {"there", "absent", "unreadable"}
      /\ n \in Nat /\ DOMAIN md = 1 .. n /\ \A k \in 1 .. n : md[k] \in 0 .. 255
  <2>1. /\ ds \in Seq(-1 .. 15) /\ md \in Seq(0 .. 255) /\ line.spaces \in BOOLEAN
        /\ line.file \in {"there", "absent", "unreadable"}
    BY DEF Lines, Octets
  <2> HIDE DEF ds, md
  <2>2. n \in Nat /\ DOMAIN md = 1 .. n  BY <2>1, LenProperties
  <2>3. \A k \in 1 .. n : md[k] \in 0 .. 255  BY <2>1, ElementOfSeq
  <2> QED  BY <2>1, <2>2, <2>3
<1>2. CASE ~line.spaces \/ Len(ds) \div 2 # n
  <2>1. mdcheckentry(line) = "formatsucks"  BY <1>2 DEF mdcheckentry
  <2> QED  BY <1>2, <2>1
<1>3. CASE line.spaces /\ Len(ds) \div 2 = n /\ line.file # "there"
  <2>1. mdcheckentry(line) = "noread"  BY <1>1, <1>3 DEF mdcheckentry
  <2> QED  BY <1>3, <2>1
<1>4. CASE line.spaces /\ Len(ds) \div 2 = n /\ line.file = "there"
  <2>1. mdcheckline(ds, md) = IF first = 0 THEN 1 ELSE IF -1 \in {ds[2 * first - 1], ds[2 * first]} THEN -1 ELSE 0
    <3> DEFINE ws == [i \in DOMAIN md |-> wrong(i)]
    <3>1. Len(ws) = n  BY <1>1
    <3>2. {i \in 1 .. Len(ws) : ws[i]} = W  BY <1>1, <3>1
    <3>3. SelectInSeq(ws, LAMBDA w : w) = first
      <4> HIDE DEF ws, W
      <4> QED  BY <3>2 DEF SelectInSeq
    <3> HIDE DEF first
    <3> QED  BY <3>3 DEF mdcheckline
  <2>2. mdcheckline(ds, md) = 1 <=> W = {}
    <3>1. CASE W = {}  BY <2>1, <3>1
    <3>2. CASE W # {}
      <4>1. n \in Nat /\ W \in SUBSET Nat /\ W \subseteq 1 .. n  BY <1>1
      <4> HIDE DEF W, n
      <4>2. Min(W) \in W  BY ONLY <3>2, <4>1, LeastOf
      <4>3. first # 0  BY ONLY <3>2, <4>1, <4>2
      <4> HIDE DEF first
      <4> QED  BY ONLY <2>1, <3>2, <4>3
    <3> HIDE DEF W
    <3> QED  BY ONLY <3>1, <3>2
  <2>3. mdcheckentry(line) = "OK" <=> mdcheckline(ds, md) = 1
    BY <1>1, <1>4 DEF mdcheckentry
  <2>4. \A i \in 1 .. n : ~wrong(i) <=> right(i)
    <3> SUFFICES ASSUME NEW i \in 1 .. n PROVE ~wrong(i) <=> right(i)
      OBVIOUS
    <3>1. 2 * i - 1 \in 1 .. Len(ds) /\ 2 * i \in 1 .. Len(ds)
      <4> DEFINE l == Len(ds)
      <4>1. l \in Nat  BY <1>1, LenProperties
      <4>2. l \div 2 = n  BY <1>4
      <4>3. n \in Nat /\ i \in 1 .. n  BY <1>1
      <4> HIDE DEF l, n
      <4>4. 2 * i - 1 \in 1 .. l /\ 2 * i \in 1 .. l  BY ONLY <4>1, <4>2, <4>3
      <4> QED  BY <4>4 DEF l
    <3>2. ds[2 * i - 1] \in -1 .. 15 /\ ds[2 * i] \in -1 .. 15
      <4> DEFINE D == -1 .. 15
      <4>1. ds \in Seq(D)  BY <1>1
      <4> HIDE DEF ds, D
      <4>2. ds[2 * i - 1] \in D /\ ds[2 * i] \in D  BY ONLY <3>1, <4>1, ElementOfSeq
      <4> QED  BY ONLY <4>2 DEF D
    <3> DEFINE a == ds[2 * i - 1]
               b == ds[2 * i]
               m == md[i]
    <3>3. a \in -1 .. 15 /\ b \in -1 .. 15 /\ m \in 0 .. 255  BY <1>1, <3>2
    <3> HIDE DEF a, b, m
    <3>4. ~(-1 \in {a, b} \/ 16 * a + b # m) <=> a = m \div 16 /\ b = m % 16
      BY <3>3
    <3> QED  BY <3>4 DEF a, b, m
  <2>5. W = {} <=> \A k \in 1 .. n : right(k)
    BY <2>4
  <2> HIDE DEF W, first, wrong, right
  <2>6. mdcheckentry(line) = "OK" <=> \A k \in 1 .. n : right(k)
    BY <2>2, <2>3, <2>5
  <2> QED  BY <1>1, <1>4, <2>6 DEF right
<1> QED  BY <1>1, <1>2, <1>3, <1>4

\* A list is right when each line of it is.
LEMMA ListIs ==
  ASSUME NEW lists \in Seq(Lists)
  PROVE  ListHolds(lists, cryptcheck(lists))
<1> DEFINE right(lines) == \A i \in DOMAIN lines : mdchecklist(lines)[i] = "OK"
           holds(lines) == \A i \in DOMAIN lines : LineHolds(lines[i])
<1>1. ASSUME NEW lines \in Seq(Lines) PROVE right(lines) <=> holds(lines)
  <2>1. \A i \in DOMAIN lines : lines[i] \in Lines /\ mdchecklist(lines)[i] = mdcheckentry(lines[i])
    BY DEF mdchecklist
  <2>2. \A i \in DOMAIN lines : mdcheckentry(lines[i]) = "OK" <=> LineHolds(lines[i])
    BY <2>1, LineIs DEF LineHolds
  <2> QED  BY <2>1, <2>2
<1>2. \A l \in DOMAIN lists : lists[l].lines \in Seq(Lines)
  <2>1. \A l \in DOMAIN lists : lists[l] \in Lists
    <3> HIDE DEF right, holds
    <3> QED  OBVIOUS
  <2> HIDE DEF right, holds
  <2> QED  BY <2>1 DEF Lists
<1>3. cryptcheck(lists) = 0 <=> \A l \in DOMAIN lists : lists[l].there /\ right(lists[l].lines)
  BY DEF cryptcheck
<1> HIDE DEF right
<1>4. cryptcheck(lists) = 0 <=> \A l \in DOMAIN lists : lists[l].there /\ holds(lists[l].lines)
  <2> HIDE DEF holds
  <2> QED  BY <1>1, <1>2, <1>3
<1> QED  BY <1>4 DEF ListHolds

\* What Keep keeps is all when no place is left out, and then only.
LEMMA AllKept ==
  ASSUME NEW S, NEW s \in Seq(S), NEW places
  PROVE  /\ Len(Keep(s, places)) = Len(s) <=> \A i \in 1 .. Len(s) : i \in places
         /\ Len(Keep(s, places)) = Len(s) => Keep(s, places) = s
<1>1. PICK at : IsKept(Keep(s, places), at, s, places, Len(s))  BY KeepIs
<1>2. Len(Keep(s, places)) = Len(s) => \A i \in 1 .. Len(s) : i \in places  BY <1>1 DEF IsKept
<1>3. (\A i \in 1 .. Len(s) : i \in places) => Keep(s, places) = s  BY KeepFacts
<1> QED  BY <1>2, <1>3

\* The digits of a digest.
DigestOf(alg, c) ==
  /\ alg.len \in 1 .. 16 /\ Digest(alg, c) \in Seq(Octets) /\ Len(Digest(alg, c)) = alg.len
  /\ \A i \in 1 .. alg.len : Digest(alg, c)[i] \in 0 .. 255

\* That is what they are.
LEMMA DigestIs ==
  ASSUME NEW alg \in Algorithms, NEW c \in Nat
  PROVE  DigestOf(alg, c)
<1>1. alg.len \in 1 .. 16
  BY DEF Algorithms, sha512, sha384, sha512_256, sha512_224, sha256, sha224, sha1, md5
<1>2. \A i \in 1 .. alg.len : (16 * c + 7 * i) % 256 \in 0 .. 255  BY <1>1
<1>3. Digest(alg, c) \in [1 .. alg.len -> Octets]  BY <1>2 DEF Digest, Octets
<1>4. Digest(alg, c) \in Seq(Octets) /\ Len(Digest(alg, c)) = alg.len
  <2> DEFINE D == Digest(alg, c)
             n == alg.len
  <2>1. n \in Nat /\ D \in [1 .. n -> Octets]  BY <1>1, <1>3
  <2> HIDE DEF D, n
  <2>2. D \in Seq(Octets) /\ Len(D) = n  BY <2>1
  <2> QED  BY <2>2 DEF D, n
<1>5. \A i \in 1 .. alg.len : Digest(alg, c)[i] \in 0 .. 255  BY <1>2 DEF Digest
<1> QED  BY ONLY <1>1, <1>4, <1>5 DEF DigestOf

\* It is another one when the content is.
LEMMA DigestsDiffer ==
  ASSUME NEW alg \in Algorithms, NEW c \in Nat
  PROVE  Digest(alg, c)[1] # Digest(alg, c + 1)[1]
<1>1. alg.len \in 1 .. 16  BY DigestIs DEF DigestOf
<1>2. Digest(alg, c)[1] = (16 * c + 7) % 256 /\ Digest(alg, c + 1)[1] = (16 * (c + 1) + 7) % 256
  BY ONLY <1>1 DEF Digest
<1>3. (16 * c + 7) % 256 # (16 * (c + 1) + 7) % 256  OBVIOUS
<1> QED  BY ONLY <1>2, <1>3

\* A line that is printed of a file that is there is right as long as the digest is.
LEMMA PrintedLine ==
  ASSUME NEW alg \in Algorithms, NEW c \in Nat, NEW d \in {c, c + 1}, NEW n
  PROVE  mdcheckentry([digits |-> mdprint(Digest(alg, c), n).digits,
                       spaces |-> mdprint(Digest(alg, c), n).spaces,
                       md |-> Digest(alg, d), file |-> "there"]) = "OK" <=> d = c
<1> DEFINE D == Digest(alg, c)
           E == Digest(alg, d)
           l == alg.len
           ds == [k \in 1 .. 2 * l |-> IF k % 2 = 1 THEN D[(k + 1) \div 2] \div 16 ELSE D[k \div 2] % 16]
           line == [digits |-> ds, spaces |-> TRUE, md |-> E, file |-> "there"]
<1>1. d \in Nat /\ l \in 1 .. 16  BY DigestIs DEF DigestOf
<1>2. /\ Len(D) = l /\ \A i \in 1 .. l : D[i] \in 0 .. 255
      /\ E \in Seq(Octets) /\ Len(E) = l /\ \A i \in 1 .. l : E[i] \in 0 .. 255
      /\ d = c + 1 => D[1] # E[1]
  <2>1. Len(D) = l /\ \A i \in 1 .. l : D[i] \in 0 .. 255  BY DigestIs DEF DigestOf
  <2>2. E \in Seq(Octets) /\ Len(E) = l /\ \A i \in 1 .. l : E[i] \in 0 .. 255
    <3>1. d \in Nat  BY <1>1
    <3>2. DigestOf(alg, d)  BY ONLY <3>1, alg \in Algorithms, DigestIs
    <3> QED  BY ONLY <3>2 DEF DigestOf
  <2>3. Digest(alg, c)[1] # Digest(alg, c + 1)[1]  BY DigestsDiffer
  <2> QED  BY <2>1, <2>2, <2>3
<1>3. mdprint(D, n).digits = ds /\ mdprint(D, n).spaces = TRUE  BY <1>2 DEF mdprint
<1>4. d = c => E = D  OBVIOUS
<1> HIDE DEF D, E, l
<1>5. \A k \in 1 .. 2 * l : ds[k] \in -1 .. 15
  <2> SUFFICES ASSUME NEW k \in 1 .. 2 * l PROVE ds[k] \in -1 .. 15
    OBVIOUS
  <2>1. CASE k % 2 = 1
    <3>1. (k + 1) \div 2 \in 1 .. l  BY <1>1, <2>1
    <3>2. D[(k + 1) \div 2] \in 0 .. 255  BY <1>2, <3>1
    <3>3. D[(k + 1) \div 2] \div 16 \in 0 .. 15  BY <3>2
    <3> QED  BY <2>1, <3>3
  <2>2. CASE k % 2 # 1
    <3>1. k \div 2 \in 1 .. l  BY <1>1, <2>2
    <3>2. D[k \div 2] \in 0 .. 255  BY <1>2, <3>1
    <3>3. D[k \div 2] % 16 \in 0 .. 15  BY <3>2
    <3> QED  BY <2>2, <3>3
  <2> QED  BY <2>1, <2>2
<1>6. ds \in Seq(-1 .. 15) /\ Len(ds) = 2 * l
  <2>1. ds \in [1 .. 2 * l -> -1 .. 15]  BY <1>5
  <2>2. 2 * l \in Nat /\ DOMAIN ds = 1 .. 2 * l  BY <1>1
  <2> HIDE DEF ds
  <2> QED  BY <2>1, <2>2
<1>7. \A k \in 1 .. l : ds[2 * k - 1] = D[k] \div 16 /\ ds[2 * k] = D[k] % 16
  <2> SUFFICES ASSUME NEW k \in 1 .. l PROVE ds[2 * k - 1] = D[k] \div 16 /\ ds[2 * k] = D[k] % 16
    OBVIOUS
  <2>1. /\ 2 * k - 1 \in 1 .. 2 * l /\ (2 * k - 1) % 2 = 1 /\ (2 * k - 1 + 1) \div 2 = k
        /\ 2 * k \in 1 .. 2 * l /\ (2 * k) % 2 # 1 /\ (2 * k) \div 2 = k
    BY <1>1
  <2> QED  BY <2>1
<1> HIDE DEF ds
<1>8. line \in Lines  BY <1>2, <1>6 DEF Lines
<1>9. (2 * l) \div 2 = l /\ DOMAIN E = 1 .. l  BY <1>1, <1>2
<1>10. mdcheckentry(line) = "OK" <=>
         \A k \in 1 .. l : ds[2 * k - 1] = E[k] \div 16 /\ ds[2 * k] = E[k] % 16
  <2>1. /\ line.spaces = TRUE /\ line.file = "there" /\ line.md = E /\ line.digits = ds
    OBVIOUS
  <2> HIDE DEF line
  <2> QED  BY <1>6, <1>8, <1>9, <1>2, <2>1, LineIs
<1>11. d = c => mdcheckentry(line) = "OK"  BY <1>4, <1>7, <1>10
<1>12. d = c + 1 => mdcheckentry(line) # "OK"
  <2> SUFFICES ASSUME d = c + 1, mdcheckentry(line) = "OK" PROVE FALSE
    OBVIOUS
  <2>1. 1 \in 1 .. l  BY <1>1
  <2>2. D[1] \div 16 = E[1] \div 16 /\ D[1] % 16 = E[1] % 16  BY <1>7, <1>10, <2>1
  <2>3. D[1] \in 0 .. 255 /\ E[1] \in 0 .. 255  BY <1>2, <2>1
  <2> DEFINE a == D[1]
             b == E[1]
  <2> HIDE DEF a, b
  <2>5. a \in 0 .. 255 /\ b \in 0 .. 255 /\ a \div 16 = b \div 16 /\ a % 16 = b % 16
    BY <2>2, <2>3 DEF a, b
  <2>6. a = 16 * (a \div 16) + (a % 16) /\ b = 16 * (b \div 16) + (b % 16)  BY ONLY <2>5
  <2>4. D[1] = E[1]  BY <2>5, <2>6 DEF a, b
  <2> QED  BY <1>2, <2>4
<1> QED  BY <1>3, <1>11, <1>12 DEF D, E

\* One list is right when it is there and all of its lines are right.
LEMMA OneList ==
  ASSUME NEW list, list.there = TRUE
  PROVE  cryptcheck(<<list>>) =
           IF \E i \in DOMAIN list.lines : mdchecklist(list.lines)[i] # "OK" THEN 1 ELSE 0
<1> DEFINE lists == <<list>>
<1>1. DOMAIN lists = {1} /\ lists[1] = list  OBVIOUS
<1> HIDE DEF lists
<1>2. cryptcheck(lists) =
        IF \E i \in DOMAIN list.lines : mdchecklist(list.lines)[i] # "OK" THEN 1 ELSE 0
  BY <1>1 DEF cryptcheck
<1> QED  BY <1>2 DEF lists

\* A list of the files that are there, one that is printed.
LEMMA ProgramFits ==
  ASSUME NEW x, IsProgramCall(x), NEW alg \in Algorithms,
         x.options \subseteq {"b", "t"}, x.args # << >>,
         NEW told, told = main(x, alg)
  PROVE  /\ told.status = 0 <=>
              \A i \in DOMAIN x.args : x.args[i] = "-" \/ x.files[x.args[i]] = "there"
         /\ told.status = 0 /\ {"-", "two lines"} \cap Range(x.args) = {} =>
              /\ Len(told.lines) = Len(x.args)
              /\ cryptcheck(<<Listed(x, told.lines, alg, x.content)>>) = 0
              /\ cryptcheck(<<Listed(x, told.lines, alg, x.content + 1)>>) = 1
<1> DEFINE a == x.args
           n == Len(a)
           is(f) == IF f = "-" THEN "there" ELSE x.files[f]
           P == {i \in DOMAIN a : is(a[i]) = "there"}
           read == Keep(a, P)
           line(f) == mdprint(Digest(alg, x.content), IF f = "-" THEN "<stdin>" ELSE f)
           S == DOMAIN x.files \cup {"-"}
<1>1. /\ a \in Seq(S) /\ a # << >> /\ x.content \in Nat
      /\ x.files \in [DOMAIN x.files -> {"there", "absent", "unreadable"}]
  BY DEF IsProgramCall
<1>2. n \in Nat \ {0} /\ DOMAIN a = 1 .. n /\ \A i \in 1 .. n : a[i] \in S
  BY <1>1
<1>3. told = cryptmain(x, alg)
  <2>1. x.options \subseteq {"b", "t", "c"} /\ "c" \notin x.options  OBVIOUS
  <2> QED  BY <2>1 DEF main
<1>4. /\ told.status = IF Len(read) = n THEN 0 ELSE 1
      /\ told.lines = [i \in DOMAIN read |-> line(read[i])]
  BY <1>1, <1>3 DEF cryptmain
<1> HIDE DEF read, line
<1>5. /\ Len(read) = n <=> \A i \in 1 .. n : i \in P
      /\ Len(read) = n => read = a
  <2> HIDE DEF P, a, n
  <2> QED  BY <1>1, AllKept DEF read, n
<1>6. told.status = 0 <=> \A i \in DOMAIN a : a[i] = "-" \/ x.files[a[i]] = "there"
  BY <1>2, <1>4, <1>5
<1>7. ASSUME told.status = 0, {"-", "two lines"} \cap Range(a) = {}
      PROVE  /\ Len(told.lines) = n
             /\ cryptcheck(<<Listed(x, told.lines, alg, x.content)>>) = 0
             /\ cryptcheck(<<Listed(x, told.lines, alg, x.content + 1)>>) = 1
  <2>1. read = a
    <3>1. Len(read) = n
      <4>1. told.status = IF Len(read) = n THEN 0 ELSE 1  BY <1>4
      <4>2. told.status = 0  BY <1>7
      <4> QED  BY ONLY <4>1, <4>2
    <3> QED  BY <1>5, <3>1
  <2>2. \A i \in 1 .. n : a[i] \notin {"-", "two lines"}
    BY <1>2, <1>7 DEF Range
  <2>3. told.lines = [i \in 1 .. n |-> line(a[i])]
    BY <1>2, <1>4, <2>1
  <2>4. Len(told.lines) = n /\ DOMAIN told.lines = 1 .. n  BY <1>2, <2>3
  <2>5. \A i \in 1 .. n : /\ a[i] \in DOMAIN x.files \ {"two lines"} /\ x.files[a[i]] = "there"
                          /\ told.lines[i] = mdprint(Digest(alg, x.content), a[i])
                          /\ told.lines[i].name = a[i]
    <3> SUFFICES ASSUME NEW i \in 1 .. n
                 PROVE  /\ a[i] \in DOMAIN x.files \ {"two lines"} /\ x.files[a[i]] = "there"
                        /\ told.lines[i] = mdprint(Digest(alg, x.content), a[i])
                        /\ told.lines[i].name = a[i]
      OBVIOUS
    <3>1. a[i] \in DOMAIN x.files \ {"two lines"} /\ x.files[a[i]] = "there" /\ a[i] # "-"
      BY <1>2, <1>6, <1>7, <2>2
    <3>2. told.lines[i] = mdprint(Digest(alg, x.content), a[i])  BY <2>3, <3>1 DEF line
    <3>3. mdprint(Digest(alg, x.content), a[i]).name = a[i]  BY DEF mdprint
    <3> QED  BY <3>1, <3>2, <3>3
  <2>6. ASSUME NEW d \in {x.content, x.content + 1}
        PROVE  /\ DOMAIN Listed(x, told.lines, alg, d).lines = 1 .. n
               /\ \A i \in 1 .. n :
                    mdcheckentry(Listed(x, told.lines, alg, d).lines[i]) = "OK" <=> d = x.content
    <3> DEFINE L == Listed(x, told.lines, alg, d).lines
    <3>1. DOMAIN L = 1 .. n  BY <2>4 DEF Listed
    <3>2. ASSUME NEW i \in 1 .. n PROVE mdcheckentry(L[i]) = "OK" <=> d = x.content
      <4> DEFINE p == mdprint(Digest(alg, x.content), a[i])
      <4>1. L[i] = [digits |-> p.digits, spaces |-> p.spaces, md |-> Digest(alg, d), file |-> "there"]
        <5>4. p.spaces = TRUE  BY DEF mdprint
        <5>5. told.lines[i] = p  BY <2>5
        <5> HIDE DEF p
        <5>1. told.lines[i].spaces = p.spaces  BY <5>5
        <5>2. told.lines[i].digits = p.digits  BY <5>5
        <5>3. L[i] = [digits |-> told.lines[i].digits, spaces |-> told.lines[i].spaces,
                      md |-> Digest(alg, d), file |-> "there"]
          BY <2>4, <2>5 DEF Listed
        <5> QED  BY <5>1, <5>2, <5>3 DEF p
      <4>2. x.content \in Nat  BY <1>1
      <4> HIDE DEF L
      <4> QED  BY <4>1, <4>2, PrintedLine
    <3> QED  BY <3>1, <3>2
  <2>7. \A d \in {x.content, x.content + 1} :
          LET L == Listed(x, told.lines, alg, d).lines
          IN  \A i \in 1 .. n : mdchecklist(L)[i] = mdcheckentry(L[i])
    BY <2>6 DEF mdchecklist
  <2>8. 1 \in 1 .. n /\ x.content + 1 # x.content  BY <1>1, <1>2
  <2>9. cryptcheck(<<Listed(x, told.lines, alg, x.content)>>) = 0
    <3> DEFINE L == Listed(x, told.lines, alg, x.content)
    <3>1. L.there = TRUE  BY DEF Listed
    <3> HIDE DEF L
    <3>2. \A i \in DOMAIN L.lines : mdchecklist(L.lines)[i] = "OK"  BY <2>6, <2>7 DEF L
    <3> QED  BY <3>1, <3>2, OneList DEF L
  <2>10. cryptcheck(<<Listed(x, told.lines, alg, x.content + 1)>>) = 1
    <3> DEFINE L == Listed(x, told.lines, alg, x.content + 1)
    <3>1. L.there = TRUE  BY DEF Listed
    <3> HIDE DEF L
    <3>2. \E i \in DOMAIN L.lines : mdchecklist(L.lines)[i] # "OK"  BY <2>6, <2>7, <2>8 DEF L
    <3> QED  BY <3>1, <3>2, OneList DEF L
  <2> QED  BY <2>4, <2>9, <2>10
<1> QED  BY <1>6, <1>7

\* What the programs print is right as long as the files are what they were.
LEMMA ListOfProgram ==
  ASSUME NEW x, IsProgramCall(x)
  PROVE  ListIsChecked(x, SumProgram(x))
<1> SUFFICES ASSUME x.options \subseteq {"b", "t"}, x.args # << >>
             PROVE  ListIsChecked(x, SumProgram(x))
  BY DEF ListIsChecked
<1>1. x.program \in {"sha512sum", "sha384sum", "sha512-256sum", "sha512-224sum", "sha256sum",
                     "sha224sum", "sha1sum", "md5sum"}
  BY DEF IsProgramCall
<1> DEFINE alg == CASE x.program = "sha512sum" -> sha512 [] x.program = "sha384sum" -> sha384
                 [] x.program = "sha512-256sum" -> sha512_256 [] x.program = "sha512-224sum" -> sha512_224
                 [] x.program = "sha256sum" -> sha256 [] x.program = "sha224sum" -> sha224
                 [] x.program = "sha1sum" -> sha1 [] x.program = "md5sum" -> md5
<1>2. alg \in Algorithms /\ SumProgram(x) = main(x, alg)
  BY <1>1 DEF Algorithms, SumProgram, sha512sum, sha384sum, sha512_256sum, sha512_224sum, sha256sum,
       sha224sum, sha1sum, md5sum
<1> DEFINE done == SumProgram(x)
<1>3. /\ done.status = 0 <=>
              \A i \in DOMAIN x.args : x.args[i] = "-" \/ x.files[x.args[i]] = "there"
      /\ done.status = 0 /\ {"-", "two lines"} \cap Range(x.args) = {} =>
              /\ Len(done.lines) = Len(x.args)
              /\ cryptcheck(<<Listed(x, done.lines, alg, x.content)>>) = 0
              /\ cryptcheck(<<Listed(x, done.lines, alg, x.content + 1)>>) = 1
  <2> HIDE DEF alg, done
  <2> QED  BY <1>2, ProgramFits DEF done
<1> QED  BY <1>3 DEF ListIsChecked

----------------------------------------------------------------------------
(* Checksums: the blocks that are mixed are those of the padded message.   *)

Contexts == [h : Seq(Blocks), buf : Blocks, len : Nat]

\* The blocks h are the first ones of M.
BlocksOf(h, M) == \A j \in 1 .. Len(h), i \in 1 .. 16 : h[j][i] = M[16 * (j - 1) + i]

\* s has taken in the first s.len bytes of M: whole blocks are mixed, and the buffer
\* begins with the rest.
Taken(s, M) ==
    /\ s \in Contexts
    /\ Len(s.h) = s.len \div 16 /\ BlocksOf(s.h, M)
    /\ \A i \in 1 .. s.len % 16 : s.buf[i] = M[16 * (s.len \div 16) + i]

\* A block whose places a .. a + l - 1 were copied has them from the part.
LEMMA CopiedIs ==
  ASSUME NEW b \in Blocks, NEW r \in 0 .. 16, NEW p \in Seq(Octets), Len(p) <= 16 - r
  PROVE  /\ Copied(b, r, p) \in Blocks
         /\ \A i \in 1 .. 16 : Copied(b, r, p)[i] = IF r < i /\ i <= r + Len(p) THEN p[i - r] ELSE b[i]
<1> DEFINE l == Len(p)
<1>1. l \in Nat /\ \A i \in 1 .. l : p[i] \in Octets  BY LenProperties, ElementOfSeq
<1>2. \A i \in 1 .. 16 : Copied(b, r, p)[i] = IF i \in r + 1 .. r + l THEN p[i - r] ELSE b[i]
  BY DEF Copied, Block
<1>3. DOMAIN Copied(b, r, p) = 1 .. 16  BY DEF Copied, Block
<1>4. \A i \in 1 .. 16 : b[i] \in Octets  BY DEF Blocks, Block
<1> HIDE DEF l
<1>5. \A i \in 1 .. 16 : i \in r + 1 .. r + l <=> r < i /\ i <= r + l  BY <1>1
<1>6. \A i \in 1 .. 16 : r < i /\ i <= r + l => i - r \in 1 .. l  BY <1>1
<1>7. \A i \in 1 .. 16 : Copied(b, r, p)[i] \in Octets
  <2> SUFFICES ASSUME NEW i \in 1 .. 16 PROVE Copied(b, r, p)[i] \in Octets
    OBVIOUS
  <2>1. CASE r < i /\ i <= r + l
    <3>1. p[i - r] \in Octets  BY <1>1, <1>6, <2>1
    <3> QED  BY <1>2, <1>5, <2>1, <3>1
  <2>2. CASE ~(r < i /\ i <= r + l)  BY <1>2, <1>4, <1>5, <2>2
  <2> QED  BY <2>1, <2>2
<1>8. Copied(b, r, p) \in Blocks
  <2>1. Copied(b, r, p) = [i \in 1 .. 16 |-> Copied(b, r, p)[i]]  BY DEF Copied, Block
  <2> DEFINE c == Copied(b, r, p)
  <2> HIDE DEF c
  <2>2. c = [i \in 1 .. 16 |-> c[i]] /\ \A i \in 1 .. 16 : c[i] \in Octets
    BY <1>7, <2>1 DEF c
  <2>3. c \in [1 .. 16 -> Octets]  BY <2>2
  <2> QED  BY <2>3 DEF c, Blocks, Block
<1>9. \A i \in 1 .. 16 : Copied(b, r, p)[i] = IF r < i /\ i <= r + l THEN p[i - r] ELSE b[i]
  BY <1>2, <1>5
<1> QED  BY <1>8, <1>9 DEF l

\* One more block that is of M.
LEMMA MoreBlocks ==
  ASSUME NEW h \in Seq(Blocks), NEW b \in Blocks, NEW M, BlocksOf(h, M),
         \A i \in 1 .. 16 : b[i] = M[16 * Len(h) + i]
  PROVE  /\ Append(h, b) \in Seq(Blocks) /\ Len(Append(h, b)) = Len(h) + 1
         /\ BlocksOf(Append(h, b), M)
<1> DEFINE n == Len(h)
           g == Append(h, b)
<1>1. /\ n \in Nat /\ g \in Seq(Blocks) /\ Len(g) = n + 1
      /\ g[n + 1] = b /\ \A j \in 1 .. n : g[j] = h[j]
  <2>1. n \in Nat  BY LenProperties
  <2>2. /\ g \in Seq(Blocks) /\ Len(g) = n + 1
        /\ g[n + 1] = b /\ \A j \in 1 .. n : g[j] = h[j]
    BY AppendProperties
  <2> QED  BY <2>1, <2>2
<1> HIDE DEF g, n
<1>2. ASSUME NEW j \in 1 .. n + 1, NEW i \in 1 .. 16 PROVE g[j][i] = M[16 * (j - 1) + i]
  <2>1. CASE j = n + 1
    <3>1. 16 * (j - 1) + i = 16 * n + i  BY <1>1, <2>1
    <3> QED  BY <1>1, <2>1, <3>1 DEF n
  <2>2. CASE j # n + 1
    <3>1. j \in 1 .. n  BY <1>1, <2>2
    <3> QED  BY <1>1, <3>1 DEF n, BlocksOf
  <2> QED  BY <2>1, <2>2
<1>3. BlocksOf(g, M)  BY <1>1, <1>2 DEF BlocksOf
<1> QED  BY <1>1, <1>3 DEF g, n

\* A part of a sequence, place by place.
LEMMA PartIs ==
  ASSUME NEW S, NEW p \in Seq(S), NEW a \in Nat, NEW b \in 0 .. Len(p), a <= b
  PROVE  /\ SubSeq(p, a + 1, b) \in Seq(S) /\ Len(SubSeq(p, a + 1, b)) = b - a
         /\ \A i \in 1 .. b - a : SubSeq(p, a + 1, b)[i] = p[a + i]
<1> DEFINE t == SubSeq(p, a + 1, b)
           l == Len(p)
<1>1. l \in Nat /\ b \in Nat /\ a + 1 \in 1 .. l + 1  BY LenProperties
<1>2. \A k \in a + 1 .. b : p[k] \in S
  <2>1. \A k \in a + 1 .. b : k \in 1 .. l  BY <1>1
  <2> QED  BY <2>1, ElementOfSeq
<1>3. /\ t \in Seq(S) /\ Len(t) = (IF a + 1 <= b THEN b - (a + 1) + 1 ELSE 0)
      /\ \A i \in 1 .. b - (a + 1) + 1 : t[i] = p[a + 1 + i - 1]
  BY <1>1, <1>2, SubSeqProperties
<1> HIDE DEF t
<1>4. b - (a + 1) + 1 = b - a /\ \A i \in 1 .. b - a : a + 1 + i - 1 = a + i  BY <1>1
<1>5. Len(t) = b - a  BY <1>1, <1>3
<1>6. \A i \in 1 .. b - a : t[i] = p[a + i]  BY <1>3, <1>4
<1> QED  BY <1>3, <1>5, <1>6 DEF t

\* Bytes after whole blocks, counted in blocks.
LEMMA BlockNumbers ==
  ASSUME NEW l \in Nat, NEW k \in Nat
  PROVE  /\ l \div 16 \in Nat /\ l % 16 \in 0 .. 15 /\ l = 16 * (l \div 16) + (l % 16)
         /\ (16 * k + l) \div 16 = k + l \div 16 /\ (16 * k + l) % 16 = l % 16
<1> DEFINE n == l \div 16
           d == l % 16
<1>1. n \in Nat /\ d \in 0 .. 15 /\ l = 16 * n + d  OBVIOUS
<1> HIDE DEF n, d
<1>2. 16 * k + l = 16 * (k + n) + d /\ k + n \in Nat  BY <1>1
<1>3. (16 * (k + n) + d) \div 16 = k + n  BY <1>1
<1>4. (16 * (k + n) + d) % 16 = d  BY <1>1
<1>5. (16 * k + l) \div 16 = k + n /\ (16 * k + l) % 16 = d  BY <1>2, <1>3, <1>4
<1> QED  BY <1>1, <1>5 DEF n, d

\* A block of p.
LEMMA BlockOfPart ==
  ASSUME NEW p \in Seq(Octets), NEW l \in Nat, l = Len(p), NEW n \in Nat, 16 * n <= l, NEW i \in 1 .. n
  PROVE  /\ SubSeq(p, 16 * (i - 1) + 1, 16 * i) \in Blocks
         /\ \A x \in 1 .. 16 : SubSeq(p, 16 * (i - 1) + 1, 16 * i)[x] = p[16 * (i - 1) + x]
<1> DEFINE a == 16 * (i - 1)
           b == 16 * i
           t == SubSeq(p, a + 1, b)
<1>1. a \in Nat /\ b \in 0 .. l /\ a <= b /\ b - a = 16  OBVIOUS
<1> HIDE DEF a, b
<1>2. b \in 0 .. Len(p)  BY <1>1
<1>3. t \in Seq(Octets) /\ Len(t) = b - a /\ \A x \in 1 .. b - a : t[x] = p[a + x]
  BY ONLY <1>1, <1>2, p \in Seq(Octets), PartIs
<1> HIDE DEF t
<1>4. t \in [1 .. 16 -> Octets]  BY <1>1, <1>3, LenProperties
<1>5. \A x \in 1 .. 16 : t[x] = p[a + x]  BY <1>1, <1>3
<1> QED  BY <1>4, <1>5 DEF Blocks, Block, a, b, t

\* p is what M has after its first n bytes.
PartOf(p, M, n) == \A i \in 1 .. Len(p) : p[i] = M[n + i]

\* Whole blocks were mixed, and p comes next.
Whole16(s, M, p) ==
    /\ s \in Contexts /\ p \in Seq(Octets) /\ s.len = 16 * Len(s.h) + Len(p)
    /\ BlocksOf(s.h, M) /\ PartOf(p, M, 16 * Len(s.h))

\* Whole blocks of p, and the rest in the buffer, when there was none.
LEMMA WholeTakes ==
  ASSUME NEW s, NEW M, NEW p, Whole16(s, M, p)
  PROVE  Taken(Whole(s, p), M) /\ Whole(s, p).len = s.len
<1> DEFINE l == Len(p)
           k == Len(s.h)
<1>s. s \in Contexts /\ s.h \in Seq(Blocks) /\ p \in Seq(Octets) /\ BlocksOf(s.h, M)
  BY ONLY Whole16(s, M, p) DEF Whole16, Contexts
<1>l. l \in Nat  BY ONLY <1>s, LenProperties
<1>k. k \in Nat  BY ONLY <1>s, LenProperties
<1>01. s.len = 16 * k + l /\ PartOf(p, M, 16 * k)  BY ONLY Whole16(s, M, p) DEF Whole16
<1>ll. l = Len(p) /\ k = Len(s.h)  OBVIOUS
<1>0. \A i \in 1 .. l : p[i] = M[16 * k + i]  BY ONLY <1>01 DEF PartOf, k, l
<1> HIDE DEF l, k
<1> DEFINE n == l \div 16
           d == l % 16
           new == [i \in 1 .. n |-> SubSeq(p, 16 * (i - 1) + 1, 16 * i)]
           rest == SubSeq(p, 16 * n + 1, l)
           g == s.h \o new
           c == Copied(s.buf, 0, rest)
<1>1. s.h \in Seq(Blocks) /\ s.buf \in Blocks /\ s.len \in Nat  BY ONLY <1>s DEF Contexts
<1>2. /\ n \in Nat /\ d \in 0 .. 15 /\ l = 16 * n + d
      /\ s.len \div 16 = k + n /\ s.len % 16 = d
  BY ONLY <1>k, <1>l, <1>01, BlockNumbers
<1>3. Whole(s, p) = [s EXCEPT !.h = g, !.buf = c]  BY ONLY TRUE DEF Whole, Block, l, n, new, rest, g, c
<1>4. \A i \in 1 .. n : new[i] = SubSeq(p, 16 * (i - 1) + 1, 16 * i)  OBVIOUS
<1>5. new = [i \in 1 .. n |-> new[i]]  OBVIOUS
<1> HIDE DEF n, d, new
<1>6. 16 * n <= l  BY ONLY <1>2, <1>l
<1>7. \A i \in 1 .. n : new[i] \in Blocks /\ \A x \in 1 .. 16 : new[i][x] = p[16 * (i - 1) + x]
  <2> TAKE i \in 1 .. n
  <2>1. /\ SubSeq(p, 16 * (i - 1) + 1, 16 * i) \in Blocks
        /\ \A x \in 1 .. 16 : SubSeq(p, 16 * (i - 1) + 1, 16 * i)[x] = p[16 * (i - 1) + x]
    BY ONLY <1>2, <1>6, <1>s, <1>l, <1>ll, BlockOfPart
  <2> QED  BY ONLY <1>4, <2>1
<1>8. new \in Seq(Blocks) /\ Len(new) = n
  <2>1. new \in [1 .. n -> Blocks]  BY ONLY <1>5, <1>7
  <2> QED  BY ONLY <1>2, <2>1
<1>9. rest \in Seq(Octets) /\ Len(rest) = d /\ \A i \in 1 .. d : rest[i] = p[16 * n + i]
  <2> DEFINE e == 16 * n
  <2>1. e \in Nat /\ l \in 0 .. Len(p) /\ e <= l /\ l - e = d  BY ONLY <1>2, <1>l, <1>ll
  <2> HIDE DEF e
  <2>2. /\ SubSeq(p, e + 1, l) \in Seq(Octets) /\ Len(SubSeq(p, e + 1, l)) = l - e
        /\ \A i \in 1 .. l - e : SubSeq(p, e + 1, l)[i] = p[e + i]
    BY ONLY <2>1, <1>s, PartIs
  <2> QED  BY ONLY <2>1, <2>2 DEF e, rest
<1> HIDE DEF rest
<1>10. /\ g \in Seq(Blocks) /\ Len(g) = k + n
       /\ \A j \in 1 .. k + n : g[j] = IF j <= k THEN s.h[j] ELSE new[j - k]
  <2> DEFINE f == s.h
  <2>1. f \in Seq(Blocks)  BY ONLY <1>1
  <2> HIDE DEF f
  <2>2. /\ f \o new \in Seq(Blocks) /\ Len(f \o new) = Len(f) + Len(new)
        /\ \A j \in 1 .. Len(f) + Len(new) : (f \o new)[j] = IF j <= Len(f) THEN f[j] ELSE new[j - Len(f)]
    BY ONLY <1>8, <2>1, ConcatProperties
  <2>3. Len(f) = k /\ g = f \o new  BY ONLY <1>ll DEF f, g
  <2> QED  BY ONLY <1>8, <2>2, <2>3 DEF f
<1>11. c \in Blocks /\ \A i \in 1 .. d : c[i] = rest[i]
  <2>1. 0 \in 0 .. 16 /\ Len(rest) <= 16 - 0  BY ONLY <1>2, <1>9
  <2>2. /\ c \in Blocks
        /\ \A i \in 1 .. 16 : c[i] = IF 0 < i /\ i <= 0 + Len(rest) THEN rest[i - 0] ELSE s.buf[i]
    BY ONLY <1>1, <1>9, <2>1, CopiedIs DEF c
  <2> HIDE DEF c
  <2>3. \A i \in 1 .. d : i \in 1 .. 16 /\ 0 < i /\ i <= 0 + d /\ i - 0 = i  BY ONLY <1>2
  <2>4. \A i \in 1 .. d : c[i] = rest[i]  BY ONLY <1>9, <2>2, <2>3
  <2> QED  BY ONLY <2>2, <2>4
<1> HIDE DEF g, c
<1>12. BlocksOf(g, M)
  <2>0. Len(g) = k + n  BY ONLY <1>10
  <2> SUFFICES ASSUME NEW j \in 1 .. k + n, NEW i \in 1 .. 16 PROVE g[j][i] = M[16 * (j - 1) + i]
    BY <2>0 DEF BlocksOf
  <2>1. CASE j <= k
    <3>1. j \in 1 .. k  BY ONLY <1>k, <1>2, <2>1, j \in 1 .. k + n
    <3>2. g[j] = s.h[j]  BY ONLY <1>10, <2>1, j \in 1 .. k + n
    <3>3. s.h[j][i] = M[16 * (j - 1) + i]  BY ONLY <1>s, <1>ll, <3>1 DEF BlocksOf
    <3> QED  BY ONLY <3>2, <3>3
  <2>2. CASE ~(j <= k)
    <3> DEFINE e == j - k
               y == 16 * (e - 1) + i
    <3>1. e \in 1 .. n /\ y \in 1 .. l /\ 16 * k + y = 16 * (j - 1) + i
      BY ONLY <1>k, <1>l, <1>2, <2>2, j \in 1 .. k + n, i \in 1 .. 16
    <3>2. g[j] = new[e]  BY ONLY <1>10, <2>2, j \in 1 .. k + n
    <3>3. new[e][i] = p[y]  BY ONLY <1>7, <3>1, i \in 1 .. 16
    <3> HIDE DEF e, y
    <3>4. p[y] = M[16 * k + y]  BY ONLY <1>0, <3>1
    <3> QED  BY ONLY <3>1, <3>2, <3>3, <3>4
  <2> QED  BY <2>1, <2>2
<1>13. \A i \in 1 .. d : c[i] = M[16 * (s.len \div 16) + i]
  <2> SUFFICES ASSUME NEW i \in 1 .. d PROVE c[i] = M[16 * (s.len \div 16) + i]
    OBVIOUS
  <2> DEFINE y == 16 * n + i
  <2>1. y \in 1 .. l /\ 16 * k + y = 16 * (s.len \div 16) + i
    BY ONLY <1>k, <1>l, <1>2, i \in 1 .. d
  <2>2. c[i] = p[y]  BY ONLY <1>9, <1>11, i \in 1 .. d
  <2> HIDE DEF y
  <2>3. p[y] = M[16 * k + y]  BY ONLY <1>0, <2>1
  <2> QED  BY ONLY <2>1, <2>2, <2>3
<1> DEFINE w == [s EXCEPT !.h = g, !.buf = c]
<1>14. w \in Contexts /\ w.h = g /\ w.buf = c /\ w.len = s.len
  BY ONLY <1>s, <1>1, <1>10, <1>11 DEF Contexts, w
<1> HIDE DEF w
<1>15. Taken(w, M)
  BY ONLY <1>2, <1>10, <1>12, <1>13, <1>14 DEF Taken
<1> QED  BY ONLY <1>3, <1>14, <1>15 DEF w

\* After some bytes, of which r are in the buffer, l more.
AfterBytes(q, r, l) ==
  /\ (16 * q + r) \div 16 = q /\ (16 * q + r) % 16 = r
  /\ l < 16 - r => (16 * q + r + l) \div 16 = q /\ (16 * q + r + l) % 16 = r + l

\* As numbers.
LEMMA MoreNumbers ==
  ASSUME NEW q \in Nat, NEW r \in 0 .. 15, NEW l \in Nat
  PROVE  AfterBytes(q, r, l)
<1>1. (16 * q + r) \div 16 = q /\ (16 * q + r) % 16 = r  OBVIOUS
<1>2. ASSUME l < 16 - r PROVE (16 * q + r + l) \div 16 = q /\ (16 * q + r + l) % 16 = r + l
  <2> DEFINE d == r + l
  <2>1. d \in 0 .. 15 /\ 16 * q + r + l = 16 * q + d  BY <1>2
  <2> HIDE DEF d
  <2>2. (16 * q + d) \div 16 = q /\ (16 * q + d) % 16 = d  BY <2>1
  <2> QED  BY <2>1, <2>2 DEF d
<1> QED  BY <1>1, <1>2 DEF AfterBytes

\* What is in a context that has taken in some bytes.
LEMMA TakenParts ==
  ASSUME NEW s, NEW M, Taken(s, M)
  PROVE  \E q \in Nat, r \in 0 .. 15 :
           /\ s.h \in Seq(Blocks) /\ s.buf \in Blocks /\ s.len \in Nat /\ s \in Contexts
           /\ s.len = 16 * q + r /\ s.len \div 16 = q /\ s.len % 16 = r /\ Len(s.h) = q
           /\ BlocksOf(s.h, M) /\ \A i \in 1 .. r : s.buf[i] = M[16 * q + i]
<1> DEFINE z == s.len
           q == z \div 16
           r == z % 16
<1>1. s \in Contexts  BY DEF Taken
<1>2. s.h \in Seq(Blocks) /\ s.buf \in Blocks /\ z \in Nat  BY ONLY <1>1 DEF Contexts
<1> HIDE DEF z
<1>3. q \in Nat /\ r \in 0 .. 15 /\ z = 16 * q + r  BY ONLY <1>2
<1>4. Len(s.h) = q /\ BlocksOf(s.h, M) /\ \A i \in 1 .. r : s.buf[i] = M[16 * q + i]
  BY ONLY Taken(s, M) DEF Taken, z
<1>5. s.len \div 16 = q /\ s.len % 16 = r /\ s.len = z  BY DEF z
<1> HIDE DEF q, r
<1> QED  BY <1>1, <1>2, <1>3, <1>4, <1>5

\* A chunk of the message is taken in, whatever its length.
LEMMA UpdateTakes ==
  ASSUME NEW s, NEW M, Taken(s, M), NEW p \in Seq(Octets), NEW l \in Nat, l = Len(p),
         PartOf(p, M, s.len)
  PROVE  Taken(update(s, p), M) /\ update(s, p).len = s.len + l
<1>0. \A i \in 1 .. l : p[i] = M[s.len + i]  BY ONLY PartOf(p, M, s.len), l = Len(p) DEF PartOf
<1>1. PICK q \in Nat, r \in 0 .. 15 :
        /\ s.h \in Seq(Blocks) /\ s.buf \in Blocks /\ s.len \in Nat /\ s \in Contexts
        /\ s.len = 16 * q + r /\ s.len \div 16 = q /\ s.len % 16 = r /\ Len(s.h) = q
        /\ BlocksOf(s.h, M) /\ \A i \in 1 .. r : s.buf[i] = M[16 * q + i]
  BY ONLY Taken(s, M), TakenParts
<1> DEFINE t == [s EXCEPT !.len = @ + Len(p)]
           first == [t EXCEPT !.buf = Copied(@, r, SubSeq(p, 1, 16 - r))]
<1>2. update(s, p) = IF r = 0 THEN Whole(t, p)
                     ELSE IF l < 16 - r THEN [t EXCEPT !.buf = Copied(@, r, p)]
                     ELSE Whole(processblock(first), SubSeq(p, 16 - r + 1, l))
  <2> DEFINE U(x, y) == IF x = 0 THEN Whole(t, p)
                        ELSE IF y < 16 - x THEN [t EXCEPT !.buf = Copied(@, x, p)]
                        ELSE Whole(processblock([t EXCEPT !.buf = Copied(@, x, SubSeq(p, 1, 16 - x))]),
                                   SubSeq(p, 16 - x + 1, y))
  <2>1. update(s, p) = U(s.len % 16, Len(p))  BY ONLY TRUE DEF update, Block
  <2>2. U(r, l) = IF r = 0 THEN Whole(t, p)
                  ELSE IF l < 16 - r THEN [t EXCEPT !.buf = Copied(@, r, p)]
                  ELSE Whole(processblock(first), SubSeq(p, 16 - r + 1, l))
    BY ONLY TRUE
  <2> HIDE DEF U, t, first
  <2> QED  BY ONLY <1>1, <2>1, <2>2, l = Len(p)
<1>3. t = [h |-> s.h, buf |-> s.buf, len |-> s.len + l]
  <2>1. s = [h |-> s.h, buf |-> s.buf, len |-> s.len]  BY ONLY <1>1 DEF Contexts
  <2>2. t = [h |-> s.h, buf |-> s.buf, len |-> s.len + Len(p)]  BY ONLY <2>1
  <2> QED  BY ONLY <2>2, l = Len(p)
<1> HIDE DEF t
<1>4. t \in Contexts /\ t.h = s.h /\ t.buf = s.buf /\ t.len = s.len + l
  <2>1. s.len + l \in Nat  BY ONLY <1>1, l \in Nat
  <2> QED  BY ONLY <1>1, <1>3, <2>1 DEF Contexts
<1>41. first = [h |-> t.h, buf |-> Copied(t.buf, r, SubSeq(p, 1, 16 - r)), len |-> t.len]
  BY ONLY <1>3 DEF first
<1> HIDE DEF first
<1>5. CASE r = 0
  <2>0. s.len = 16 * q  BY ONLY <1>1, <1>5, q \in Nat
  <2>1. Len(t.h) = q /\ t.len = 16 * q + Len(p)  BY ONLY <1>1, <1>4, <2>0, l = Len(p)
  <2>2. Whole16(t, M, p)
    BY ONLY <1>1, <1>4, <2>0, <2>1, PartOf(p, M, s.len), p \in Seq(Octets) DEF Whole16
  <2>3. Taken(Whole(t, p), M) /\ Whole(t, p).len = t.len  BY ONLY <2>2, WholeTakes
  <2> QED  BY ONLY <1>2, <1>4, <1>5, <2>3
<1>6. CASE r # 0 /\ l < 16 - r
  <2> DEFINE c == Copied(t.buf, r, p)
             u == [t EXCEPT !.buf = c]
  <2> DEFINE b == t.buf
  <2>1. r \in 0 .. 16 /\ Len(p) <= 16 - r /\ b \in Blocks
    BY ONLY <1>1, <1>4, <1>6, l = Len(p), l \in Nat, r \in 0 .. 15
  <2> HIDE DEF b
  <2>11. /\ Copied(b, r, p) \in Blocks
         /\ \A i \in 1 .. 16 : Copied(b, r, p)[i] = IF r < i /\ i <= r + Len(p) THEN p[i - r] ELSE b[i]
    BY ONLY <2>1, p \in Seq(Octets), CopiedIs
  <2>12. c = Copied(b, r, p)  BY DEF b
  <2> HIDE DEF c
  <2>2. c \in Blocks /\ \A i \in 1 .. 16 : c[i] = IF r < i /\ i <= r + l THEN p[i - r] ELSE t.buf[i]
    BY ONLY <2>11, <2>12, l = Len(p) DEF b
  <2>21. t = [h |-> s.h, buf |-> t.buf, len |-> s.len + l]  BY ONLY <1>3
  <2>22. u = [h |-> s.h, buf |-> c, len |-> s.len + l]  BY ONLY <2>21
  <2>23. s.len + l = 16 * q + r + l /\ s.len + l \in Nat
    BY ONLY <1>1, l \in Nat, r \in 0 .. 15, q \in Nat
  <2>24. u = [t EXCEPT !.buf = Copied(@, r, p)]  BY DEF c
  <2> HIDE DEF u
  <2>3. u \in Contexts /\ u.h = s.h /\ u.buf = c /\ u.len = 16 * q + r + l
    BY ONLY <1>1, <2>2, <2>22, <2>23 DEF Contexts
  <2>4. u.len \div 16 = q /\ u.len % 16 = r + l
    <3>1. AfterBytes(q, r, l)  BY ONLY MoreNumbers, q \in Nat, r \in 0 .. 15, l \in Nat
    <3> QED  BY ONLY <1>6, <2>3, <3>1 DEF AfterBytes
  <2>5. \A i \in 1 .. r + l : c[i] = M[16 * q + i]
    <3> SUFFICES ASSUME NEW i \in 1 .. r + l PROVE c[i] = M[16 * q + i]
      OBVIOUS
    <3>1. i \in 1 .. 16 /\ i <= r + l
      BY ONLY <1>6, r \in 0 .. 15, l \in Nat, i \in 1 .. r + l
    <3>2. CASE r < i
      <4>1. i - r \in 1 .. l /\ s.len + (i - r) = 16 * q + i
        BY ONLY <1>1, <3>1, <3>2, r \in 0 .. 15, l \in Nat, q \in Nat
      <4>2. c[i] = p[i - r]  BY ONLY <2>2, <3>1, <3>2
      <4>3. p[i - r] = M[s.len + (i - r)]  BY ONLY <4>1, <1>0
      <4> QED  BY ONLY <4>1, <4>2, <4>3
    <3>3. CASE ~(r < i)
      <4>1. i \in 1 .. r  BY ONLY <3>1, <3>3, r \in 0 .. 15
      <4> QED  BY ONLY <1>1, <1>4, <2>2, <3>1, <3>3, <4>1
    <3> QED  BY <3>2, <3>3
  <2>7. Taken(u, M)  BY ONLY <1>1, <2>3, <2>4, <2>5 DEF Taken
  <2> QED  BY ONLY <1>1, <1>2, <1>6, <2>3, <2>24, <2>7
<1>7. CASE r # 0 /\ ~(l < 16 - r)
  <2> DEFINE m == 16 - r
             p1 == SubSeq(p, 1, m)
             p2 == SubSeq(p, m + 1, l)
             c == Copied(t.buf, r, p1)
             k == q + 1
             w == l - m
  <2>1. m \in Nat /\ m \in 0 .. Len(p) /\ 0 <= m /\ l \in 0 .. Len(p) /\ m <= l /\ w \in Nat /\ k \in Nat
    BY ONLY <1>7, l = Len(p), l \in Nat, r \in 0 .. 15, q \in Nat
  <2>2. r + m = 16 /\ 16 * q + r + m = 16 * k /\ m = 16 - r
    BY ONLY q \in Nat, r \in 0 .. 15
  <2> HIDE DEF m
  <2>3. p1 \in Seq(Octets) /\ Len(p1) = m /\ \A i \in 1 .. m : p1[i] = p[i]
    <3>1. /\ SubSeq(p, 0 + 1, m) \in Seq(Octets) /\ Len(SubSeq(p, 0 + 1, m)) = m - 0
          /\ \A i \in 1 .. m - 0 : SubSeq(p, 0 + 1, m)[i] = p[0 + i]
      BY ONLY <2>1, p \in Seq(Octets), PartIs
    <3>2. 0 + 1 = 1 /\ m - 0 = m /\ \A i \in 1 .. m : 0 + i = i  BY ONLY <2>1
    <3> QED  BY ONLY <3>1, <3>2
  <2>4. p2 \in Seq(Octets) /\ Len(p2) = w /\ \A i \in 1 .. w : p2[i] = p[m + i]
    BY ONLY <2>1, p \in Seq(Octets), PartIs
  <2> HIDE DEF p1, p2
  <2>5. c \in Blocks /\ \A i \in 1 .. 16 : c[i] = IF r < i /\ i <= r + m THEN p1[i - r] ELSE t.buf[i]
    <3> DEFINE b == t.buf
    <3>0. b \in Blocks  BY ONLY <1>1, <1>4
    <3>01. r \in 0 .. 16 /\ m <= 16 - r  BY ONLY <2>2, r \in 0 .. 15
    <3>1. r \in 0 .. 16 /\ Len(p1) <= 16 - r /\ b \in Blocks
      BY ONLY <2>3, <3>0, <3>01
    <3> HIDE DEF b
    <3>2. /\ Copied(b, r, p1) \in Blocks
          /\ \A i \in 1 .. 16 : Copied(b, r, p1)[i] = IF r < i /\ i <= r + Len(p1) THEN p1[i - r] ELSE b[i]
      BY ONLY <2>3, <3>1, CopiedIs
    <3> QED  BY ONLY <2>3, <3>2 DEF b, c
  <2>6. first = [h |-> t.h, buf |-> c, len |-> t.len]  BY ONLY <1>41, <2>2 DEF c, p1
  <2> HIDE DEF c
  <2>7. \A i \in 1 .. 16 : c[i] = M[16 * Len(s.h) + i]
    <3> SUFFICES ASSUME NEW i \in 1 .. 16 PROVE c[i] = M[16 * q + i]
      <4> DEFINE n == Len(s.h)
      <4>1. n = q  BY ONLY <1>1
      <4> HIDE DEF n
      <4>2. \A i \in 1 .. 16 : M[16 * n + i] = M[16 * q + i]  BY ONLY <4>1
      <4> QED  BY <4>2 DEF n
    <3>2. CASE r < i
      <4>1. i - r \in 1 .. m /\ i - r \in 1 .. l /\ s.len + (i - r) = 16 * q + i /\ i <= r + m
        BY ONLY <1>1, <2>1, <2>2, <3>2, r \in 0 .. 15, l \in Nat, q \in Nat, i \in 1 .. 16
      <4>2. c[i] = p1[i - r]  BY ONLY <2>5, <3>2, <4>1, i \in 1 .. 16
      <4>3. p1[i - r] = p[i - r]  BY ONLY <2>3, <4>1
      <4>4. p[i - r] = M[s.len + (i - r)]  BY ONLY <4>1, <1>0
      <4> QED  BY ONLY <4>1, <4>2, <4>3, <4>4
    <3>3. CASE ~(r < i)
      <4>1. i \in 1 .. r  BY ONLY <3>3, r \in 0 .. 15, i \in 1 .. 16
      <4> QED  BY ONLY <1>1, <1>4, <2>5, <3>3, <4>1, i \in 1 .. 16
    <3> QED  BY <3>2, <3>3
  <2>61. t.h = s.h  BY ONLY <1>4
  <2> DEFINE g == Append(s.h, c)
             f == s.h
  <2>8. g \in Seq(Blocks) /\ Len(g) = k /\ BlocksOf(g, M)
    <3>1. f \in Seq(Blocks) /\ Len(f) = q /\ BlocksOf(f, M) /\ \A i \in 1 .. 16 : c[i] = M[16 * Len(f) + i]
      BY ONLY <1>1, <2>7 DEF f
    <3> HIDE DEF f
    <3>2. /\ Append(f, c) \in Seq(Blocks) /\ Len(Append(f, c)) = Len(f) + 1
          /\ BlocksOf(Append(f, c), M)
      BY ONLY <2>5, <3>1, MoreBlocks
    <3> QED  BY ONLY <3>1, <3>2 DEF f, g, k
  <2> DEFINE u == processblock(first)
  <2>9. u = [h |-> g, buf |-> c, len |-> t.len]  
    <3>1. first.h = t.h /\ first.buf = c  BY ONLY <2>6
    <3> DEFINE a == Append(first.h, first.buf)
    <3>2. [first EXCEPT !.h = a] = [h |-> a, buf |-> c, len |-> t.len]
      <4> HIDE DEF a
      <4> QED  BY ONLY <2>6
    <3> QED  BY ONLY <2>61, <3>1, <3>2 DEF processblock, g, u
  <2> HIDE DEF g, u
  <2>10. u \in Contexts /\ u.h = g /\ u.len = 16 * k + w /\ t.len = u.len
    <3>1. t.len = 16 * q + r + l  BY ONLY <1>1, <1>4
    <3>2. 16 * q + r + l = 16 * k + w /\ 16 * k + w \in Nat
      BY ONLY <2>1, <2>2, r \in 0 .. 15, q \in Nat, l \in Nat
    <3> QED  BY ONLY <2>5, <2>8, <2>9, <3>1, <3>2 DEF Contexts
  <2>11. \A i \in 1 .. w : p2[i] = M[16 * k + i]
    <3> SUFFICES ASSUME NEW i \in 1 .. w PROVE p2[i] = M[16 * k + i]
      OBVIOUS
    <3>1. m + i \in 1 .. l /\ s.len + (m + i) = 16 * k + i
      <4>1. s.len = 16 * q + r /\ s.len \in Nat  BY ONLY <1>1
      <4> DEFINE z == s.len
      <4>2. z + m = 16 * k /\ z \in Nat  BY ONLY <2>2, <4>1
      <4>3. m + i \in 1 .. l /\ i \in Nat  BY ONLY <2>1, i \in 1 .. w, l \in Nat
      <4> HIDE DEF z, k, w
      <4>4. z + (m + i) = 16 * k + i  BY ONLY <2>1, <4>2, <4>3
      <4> QED  BY ONLY <4>3, <4>4 DEF z
    <3>2. p2[i] = p[m + i]  BY ONLY <2>4, i \in 1 .. w
    <3>3. p[m + i] = M[s.len + (m + i)]  BY ONLY <3>1, <1>0
    <3> QED  BY ONLY <3>1, <3>2, <3>3
  <2> HIDE DEF k, w
  <2>111. PartOf(p2, M, 16 * k)  BY ONLY <2>4, <2>11 DEF PartOf
  <2>112. k = Len(u.h) /\ BlocksOf(u.h, M)  BY ONLY <2>8, <2>10
  <2>12. Taken(Whole(u, p2), M) /\ Whole(u, p2).len = u.len
    <3>1. Whole16(u, M, p2)  BY ONLY <2>4, <2>10, <2>111, <2>112 DEF Whole16
    <3> QED  BY ONLY <3>1, WholeTakes
  <2>13. update(s, p) = Whole(u, p2)  BY ONLY <1>2, <1>7, <2>2 DEF u, p2
  <2> QED  BY ONLY <1>4, <2>10, <2>12, <2>13
<1> QED  BY <1>5, <1>6, <1>7

\* What steps come to, one after the other.
Going(f, m, V, base, g) ==
    f \in [0 .. m -> V] /\ f[0] = base /\ \A k \in 1 .. m : f[k] = g[k][f[k - 1]]

\* Steps that stay in V can be taken one after the other.
LEMMA GoesOn ==
  ASSUME NEW V, NEW base \in V, NEW m \in Nat, NEW g, AreSteps(g, m, V)
  PROVE  \E f : Going(f, m, V, base, g)
<1>1. PICK w : Folding(w, m, V, base, g)  BY FoldExists
<1> DEFINE f == [k \in 0 .. m |-> w[1 .. k]]
<1>2. f \in [0 .. m -> V]
  <2>1. \A k \in 0 .. m : 1 .. k \in SUBSET (1 .. m)  OBVIOUS
  <2>2. \A x \in SUBSET (1 .. m) : w[x] \in V  BY <1>1 DEF Folding
  <2>3. \A k \in 0 .. m : w[1 .. k] \in V  BY <2>1, <2>2
  <2> QED  BY <2>3
<1>3. f[0] = base
  <2>1. 1 .. 0 = {} /\ 0 \in 0 .. m  OBVIOUS
  <2> QED  BY <1>1, <2>1 DEF Folding
<1>4. ASSUME NEW k \in 1 .. m PROVE f[k] = g[k][f[k - 1]]
  <2>1. k \in Nat /\ 1 .. k \in SUBSET (1 .. m) /\ k \in 1 .. k /\ 1 .. k # {}  OBVIOUS
  <2>2. Max(1 .. k) = k  BY <2>1, MaxIs
  <2>3. (1 .. k) \ {k} = 1 .. k - 1  BY <2>1
  <2>4. w[1 .. k] = g[k][w[1 .. k - 1]]  BY <1>1, <2>1, <2>2, <2>3 DEF Folding
  <2>5. k \in 0 .. m /\ k - 1 \in 0 .. m  OBVIOUS
  <2> QED  BY <2>4, <2>5
<1> QED  BY <1>2, <1>3, <1>4 DEF Going

\* What there is after each of the parts that are put together.
Joined(f, S, seqs) ==
    /\ f \in [0 .. Len(seqs) -> Seq(S)] /\ f[0] = << >>
    /\ \A k \in 1 .. Len(seqs) : f[k] = f[k - 1] \o seqs[k]
    /\ FlattenSeq(seqs) = f[Len(seqs)]

\* Sequences are joined one after the other.
LEMMA FlattenIs ==
  ASSUME NEW S, NEW seqs \in Seq(Seq(S))
  PROVE  \E f : Joined(f, S, seqs)
<1> DEFINE n == Len(seqs)
           V == Seq(S)
           g == [k \in 1 .. n |-> [c \in V |-> c \o seqs[k]]]
<1>1. n \in Nat  BY LenProperties
<1>2. \A k \in 1 .. n : seqs[k] \in V  BY ElementOfSeq
<1>3. << >> \in V  OBVIOUS
<1>4. \A k \in 1 .. n, c \in V : c \o seqs[k] \in V  BY <1>2, ConcatProperties
<1>s. \A x \in V : << >> \o x = x  BY ConcatEmptySeq
<1> HIDE DEF n, V
<1>5. AreSteps(g, n, V)  BY <1>4 DEF AreSteps
<1>6. \A k \in 1 .. n, c \in V : g[k][c] = c \o seqs[k]  OBVIOUS
<1> HIDE DEF g
<1>7. PICK e : Going(e, n, V, << >>, g)  BY <1>1, <1>3, <1>5, GoesOn
<1>8. /\ e \in [0 .. n -> V] /\ e[0] = << >>
      /\ \A k \in 1 .. n : e[k] = e[k - 1] \o seqs[k]
  <2>1. e \in [0 .. n -> V] /\ e[0] = << >> /\ \A k \in 1 .. n : e[k] = g[k][e[k - 1]]
    BY ONLY <1>7 DEF Going
  <2>2. \A k \in 1 .. n : k - 1 \in 0 .. n /\ e[k - 1] \in V  BY ONLY <2>1, <1>1
  <2> QED  BY ONLY <2>1, <2>2, <1>6
<1>9. CASE n = 0
  <2>1. seqs = << >>  BY <1>9, EmptySeq DEF n
  <2>2. FlattenSeq(seqs) = seqs  BY <1>9 DEF FlattenSeq, n
  <2>3. Joined(e, S, seqs)  BY ONLY <1>8, <1>9, <2>1, <2>2 DEF Joined, n, V
  <2> QED  BY <2>3
<1>10. CASE n # 0
  <2> DEFINE F == CHOOSE u : u = [i \in 1 .. n |-> IF i = 1 THEN seqs[i] ELSE u[i - 1] \o seqs[i]]
             d == [i \in 1 .. n |-> e[i]]
  <2>1. d = [i \in 1 .. n |-> IF i = 1 THEN seqs[i] ELSE d[i - 1] \o seqs[i]]
    <3> SUFFICES ASSUME NEW i \in 1 .. n PROVE e[i] = IF i = 1 THEN seqs[i] ELSE d[i - 1] \o seqs[i]
      OBVIOUS
    <3>1. CASE i = 1
      <4>1. e[1] = e[0] \o seqs[1]
        <5>1. 1 \in 1 .. n /\ 1 - 1 = 0  BY <3>1
        <5>2. e[1] = e[1 - 1] \o seqs[1]  BY <1>8, <5>1
        <5> QED  BY <5>1, <5>2
      <4>2. e[1] = seqs[1]  BY <1>2, <1>8, <1>s, <3>1, <4>1
      <4> QED  BY <3>1, <4>2
    <3>2. CASE i # 1
      <4>1. i - 1 \in 1 .. n  BY <1>1, <3>2
      <4>2. d[i - 1] = e[i - 1]  BY <4>1
      <4>3. e[i] = e[i - 1] \o seqs[i]  BY ONLY <1>8, i \in 1 .. n
      <4> QED  BY ONLY <3>2, <4>2, <4>3
    <3> QED  BY <3>1, <3>2
  <2> HIDE DEF d
  <2>2. F = [i \in 1 .. n |-> IF i = 1 THEN seqs[i] ELSE F[i - 1] \o seqs[i]]  BY <2>1
  <2>3. FlattenSeq(seqs) = F[n]  BY <1>10 DEF FlattenSeq, n
  <2> HIDE DEF F
  <2> DEFINE f == [i \in 0 .. n |-> IF i = 0 THEN << >> ELSE F[i]]
  <2>4. f[0] = << >> /\ f[n] = F[n]  BY <1>1, <1>10
  <2>5. ASSUME NEW k \in 1 .. n, f[k - 1] \in V PROVE f[k] = f[k - 1] \o seqs[k] /\ f[k] \in V
    <3>1. f[k] = F[k]  BY <1>1
    <3>2. CASE k = 1
      <4>1. F[1] = seqs[1]  BY <2>2, <3>2
      <4>2. f[k - 1] = << >>  BY <2>4, <3>2
      <4>3. << >> \o seqs[1] = seqs[1] /\ seqs[1] \in V  BY <1>2, <1>s, <3>2
      <4> QED  BY <3>1, <3>2, <4>1, <4>2, <4>3
    <3>3. CASE k # 1
      <4>1. k - 1 \in 1 .. n /\ f[k - 1] = F[k - 1]  BY <1>1, <3>3
      <4>2. F[k] = F[k - 1] \o seqs[k]  BY <2>2, <3>3
      <4>3. f[k - 1] \o seqs[k] \in V  BY <1>4, <2>5
      <4> QED  BY <3>1, <4>1, <4>2, <4>3
    <3> QED  BY <3>2, <3>3
  <2> DEFINE T == {k \in 0 .. n : f[k] \in V}
  <2>d. f = [i \in 0 .. n |-> f[i]]  OBVIOUS
  <2> HIDE DEF f
  <2>6. \A k \in 0 .. n : k \in T
    <3>1. 0 \in T  BY <1>1, <1>3, <2>4
    <3>2. ASSUME NEW k \in 0 .. n - 1, k \in T PROVE k + 1 \in T
      <4> DEFINE j == k + 1
      <4>1. j \in 1 .. n /\ j - 1 = k /\ j \in 0 .. n  BY <1>1
      <4>2. f[k] \in V  BY <3>2
      <4> HIDE DEF j, T
      <4>3. f[j - 1] \in V  BY <4>1, <4>2
      <4>4. f[j] \in V  BY <2>5, <4>1, <4>3
      <4> QED  BY <4>1, <4>4 DEF j, T
    <3> HIDE DEF T
    <3> QED  BY <1>1, <3>1, <3>2, UpTo
  <2>7. f \in [0 .. n -> V]  BY <2>6, <2>d
  <2>8. \A k \in 1 .. n : f[k] = f[k - 1] \o seqs[k]
    <3> TAKE k \in 1 .. n
    <3>1. k - 1 \in 0 .. n  BY <1>1
    <3>2. f[k - 1] \in V  BY <2>7, <3>1
    <3> QED  BY <2>5, <3>2
  <2>9. Joined(f, S, seqs)  BY ONLY <2>3, <2>4, <2>7, <2>8 DEF Joined, n, V
  <2> QED  BY <2>9
<1> QED  BY <1>9, <1>10

Begins(a, b) == Len(a) <= Len(b) /\ \A i \in 1 .. Len(a) : b[i] = a[i]

\* c has the l elements of a, and then the m of b.
AfterOther(c, a, b, l, m) ==
    /\ Len(c) = l + m
    /\ \A i \in 1 .. l : c[i] = a[i]
    /\ \A i \in 1 .. m : c[l + i] = b[i]

\* One sequence, and another after it.
LEMMA ConcatBegins ==
  ASSUME NEW S, NEW a \in Seq(S), NEW b \in Seq(S)
  PROVE  a \o b \in Seq(S) /\ Begins(a, a \o b) /\ AfterOther(a \o b, a, b, Len(a), Len(b))
<1> DEFINE c == a \o b
           l == Len(a)
           m == Len(b)
<1>1. l \in Nat /\ m \in Nat  BY LenProperties
<1>2. /\ c \in Seq(S) /\ Len(c) = l + m
      /\ \A i \in 1 .. l + m : c[i] = IF i <= l THEN a[i] ELSE b[i - l]
  BY ConcatProperties
<1> HIDE DEF c, l, m
<1>3. \A i \in 1 .. l : i \in 1 .. l + m /\ i <= l  BY <1>1
<1>4. l <= l + m  BY <1>1
<1>5. l <= Len(c) /\ \A i \in 1 .. l : c[i] = a[i]  BY <1>2, <1>3, <1>4
<1>7. \A i \in 1 .. m : c[l + i] = b[i]
  <2> TAKE i \in 1 .. m
  <2> DEFINE j == l + i
  <2>1. j \in 1 .. l + m /\ ~(j <= l) /\ j - l = i  BY ONLY <1>1, i \in 1 .. m
  <2> HIDE DEF j
  <2>2. c[j] = b[i]  BY ONLY <1>2, <2>1
  <2> QED  BY <2>2 DEF j
<1>8. AfterOther(c, a, b, l, m)  BY ONLY <1>2, <1>5, <1>7 DEF AfterOther
<1>9. Begins(a, c)  BY ONLY <1>5 DEF Begins, l
<1> QED  BY ONLY <1>2, <1>8, <1>9 DEF c, l, m

\* What begins a beginning begins the whole.
LEMMA BeginsOn ==
  ASSUME NEW S, NEW a \in Seq(S), NEW b \in Seq(S), NEW c, Begins(a, b), Begins(b, c), Len(c) \in Nat
  PROVE  Begins(a, c)
<1> DEFINE l == Len(a)
           m == Len(b)
           n == Len(c)
<1>1. l \in Nat /\ m \in Nat /\ n \in Nat  BY LenProperties
<1>2. l <= m /\ m <= n /\ (\A i \in 1 .. l : b[i] = a[i]) /\ \A i \in 1 .. m : c[i] = b[i]
  BY DEF Begins
<1> HIDE DEF l, m, n
<1>3. l <= n /\ \A i \in 1 .. l : i \in 1 .. m  BY <1>1, <1>2
<1>4. \A i \in 1 .. l : c[i] = a[i]  BY <1>2, <1>3
<1> QED  BY <1>3, <1>4 DEF Begins, l, n

\* Each part is found in the whole after those before it.
LEMMA PartsOfWhole ==
  ASSUME NEW S, NEW seqs \in Seq(Seq(S)), NEW f, Joined(f, S, seqs), NEW k \in 1 .. Len(seqs)
  PROVE  /\ f[k] \in Seq(S) /\ f[k - 1] \in Seq(S) /\ seqs[k] \in Seq(S)
         /\ Len(f[k]) = Len(f[k - 1]) + Len(seqs[k])
         /\ PartOf(seqs[k], FlattenSeq(seqs), Len(f[k - 1]))
<1> DEFINE n == Len(seqs)
<1>1. n \in Nat  BY LenProperties
<1>2. \A j \in 1 .. n : seqs[j] \in Seq(S)  BY ElementOfSeq
<1>3. /\ \A j \in 0 .. n : f[j] \in Seq(S)
      /\ \A j \in 1 .. n : f[j] = f[j - 1] \o seqs[j]
      /\ FlattenSeq(seqs) = f[n]
  BY DEF Joined
<1>n. k \in 1 .. n  OBVIOUS
<1> HIDE DEF n
<1>4. ASSUME NEW j \in 1 .. n
      PROVE  /\ f[j] \in Seq(S) /\ f[j - 1] \in Seq(S) /\ seqs[j] \in Seq(S)
             /\ Len(f[j]) = Len(f[j - 1]) + Len(seqs[j]) /\ Begins(f[j - 1], f[j])
             /\ \A i \in 1 .. Len(seqs[j]) : f[j][Len(f[j - 1]) + i] = seqs[j][i]
  <2> DEFINE a == f[j - 1]
             b == seqs[j]
  <2>1. j - 1 \in 0 .. n /\ j \in 0 .. n  BY <1>1
  <2>2. a \in Seq(S) /\ b \in Seq(S) /\ f[j] = a \o b /\ f[j] \in Seq(S)
    BY <1>2, <1>3, <2>1
  <2> HIDE DEF a, b
  <2>3. Begins(a, a \o b) /\ AfterOther(a \o b, a, b, Len(a), Len(b))
    BY ONLY <2>2, ConcatBegins
  <2>4. /\ Len(a \o b) = Len(a) + Len(b)
        /\ \A i \in 1 .. Len(b) : (a \o b)[Len(a) + i] = b[i]
    BY ONLY <2>3 DEF AfterOther
  <2> QED  BY ONLY <2>2, <2>3, <2>4 DEF a, b
<1> DEFINE T == {j \in 0 .. n : \A m \in 0 .. j : Begins(f[m], f[j])}
<1>5. \A j \in 0 .. n : j \in T
  <2>1. 0 \in T
    <3>1. Begins(f[0], f[0])
      <4>1. f[0] \in Seq(S)  BY <1>1, <1>3
      <4>2. Len(f[0]) \in Nat  BY <4>1, LenProperties
      <4> QED  BY ONLY <4>2 DEF Begins
    <3>2. 0 \in 0 .. n /\ \A m \in 0 .. 0 : m = 0  BY <1>1
    <3> QED  BY <3>1, <3>2
  <2>2. ASSUME NEW j \in 0 .. n - 1, j \in T PROVE j + 1 \in T
    <3> DEFINE h == j + 1
    <3>1. h \in 1 .. n /\ h \in 0 .. n /\ h - 1 = j /\ j \in 0 .. n /\ \A m \in 0 .. h : m = h \/ m \in 0 .. j
      BY <1>1
    <3>2. \A m \in 0 .. j : Begins(f[m], f[j]) /\ m \in 0 .. n  BY <1>1, <2>2
    <3> HIDE DEF h, T
    <3>3. Begins(f[h - 1], f[h])  BY <1>4, <3>1
    <3>4. Begins(f[j], f[h])  BY ONLY <3>1, <3>3
    <3>5. f[h] \in Seq(S) /\ f[j] \in Seq(S)  BY ONLY <1>3, <3>1
    <3>6. Len(f[h]) \in Nat  BY ONLY <3>5, LenProperties
    <3>7. ASSUME NEW m \in 0 .. h PROVE Begins(f[m], f[h])
      <4>1. CASE m = h
        <5>1. Begins(f[h], f[h])  BY ONLY <3>6 DEF Begins
        <5> QED  BY <4>1, <5>1
      <4>2. CASE m # h
        <5>1. m \in 0 .. j  BY <3>1, <4>2
        <5>2. f[m] \in Seq(S) /\ Begins(f[m], f[j])  BY <1>3, <3>2, <5>1
        <5> QED  BY ONLY <3>4, <3>5, <3>6, <5>2, BeginsOn
      <4> QED  BY <4>1, <4>2
    <3>8. h \in T  BY ONLY <3>1, <3>7 DEF T
    <3> QED  BY <3>8 DEF h
  <2> HIDE DEF T
  <2> QED  BY <1>1, <2>1, <2>2, UpTo
<1>6. Begins(f[k], f[n])
  <2>1. n \in 0 .. n /\ k \in 0 .. n  BY <1>1, <1>n
  <2>2. n \in T  BY <1>5, <2>1
  <2> QED  BY <2>1, <2>2
<1>7. /\ f[k] \in Seq(S) /\ f[k - 1] \in Seq(S) /\ seqs[k] \in Seq(S)
      /\ Len(f[k]) = Len(f[k - 1]) + Len(seqs[k])
      /\ \A i \in 1 .. Len(seqs[k]) : f[k][Len(f[k - 1]) + i] = seqs[k][i]
  BY ONLY <1>4, <1>n
<1> DEFINE a == Len(f[k - 1])
           b == Len(seqs[k])
<1>8. a \in Nat /\ b \in Nat  BY ONLY <1>7, LenProperties
<1>9. Len(f[k]) = a + b /\ \A i \in 1 .. b : f[k][a + i] = seqs[k][i]  BY ONLY <1>7 DEF a, b
<1>10. \A i \in 1 .. Len(f[k]) : f[n][i] = f[k][i]  BY ONLY <1>6 DEF Begins
<1> HIDE DEF a, b
<1>11. \A i \in 1 .. b : a + i \in 1 .. Len(f[k])  BY ONLY <1>8, <1>9
<1>12. \A i \in 1 .. b : f[n][a + i] = seqs[k][i]  BY ONLY <1>9, <1>10, <1>11
<1>13. PartOf(seqs[k], f[n], a)  BY ONLY <1>12 DEF PartOf, b
<1> QED  BY ONLY <1>3, <1>7, <1>13 DEF a

\* Contexts that have taken in something.
Used == {s \in Contexts : \E M : Taken(s, M)}

\* The blocks of two messages that begin in the same way.
LEMMA SameBlocks ==
  ASSUME NEW s, NEW M, NEW N, Taken(s, M), \A i \in 1 .. s.len : N[i] = M[i]
  PROVE  Taken(s, N)
<1>1. PICK q \in Nat, r \in 0 .. 15 :
        /\ s.h \in Seq(Blocks) /\ s.buf \in Blocks /\ s.len \in Nat /\ s \in Contexts
        /\ s.len = 16 * q + r /\ s.len \div 16 = q /\ s.len % 16 = r /\ Len(s.h) = q
        /\ BlocksOf(s.h, M) /\ \A i \in 1 .. r : s.buf[i] = M[16 * q + i]
  BY ONLY Taken(s, M), TakenParts
<1>2. BlocksOf(s.h, N)
  <2> SUFFICES ASSUME NEW j \in 1 .. Len(s.h), NEW i \in 1 .. 16 PROVE s.h[j][i] = N[16 * (j - 1) + i]
    BY DEF BlocksOf
  <2> DEFINE y == 16 * (j - 1) + i
  <2>1. s.h[j][i] = M[y]  BY ONLY <1>1, j \in 1 .. Len(s.h), i \in 1 .. 16 DEF BlocksOf
  <2>2. j \in 1 .. q  BY ONLY <1>1, j \in 1 .. Len(s.h)
  <2>3. y \in 1 .. 16 * q + r  BY ONLY <2>2, q \in Nat, r \in 0 .. 15, i \in 1 .. 16
  <2>4. y \in 1 .. s.len  BY ONLY <1>1, <2>3
  <2> HIDE DEF y
  <2>5. N[y] = M[y]  BY <2>4
  <2> QED  BY ONLY <2>1, <2>5 DEF y
<1>3. ASSUME NEW i \in 1 .. r PROVE s.buf[i] = N[16 * q + i]
  <2> DEFINE y == 16 * q + i
  <2>1. y \in 1 .. 16 * q + r  BY ONLY q \in Nat, r \in 0 .. 15, i \in 1 .. r
  <2>2. y \in 1 .. s.len /\ s.buf[i] = M[y]  BY ONLY <1>1, <2>1, i \in 1 .. r
  <2> HIDE DEF y
  <2>3. N[y] = M[y]  BY <2>2
  <2> QED  BY ONLY <2>2, <2>3 DEF y
<1> QED  BY ONLY <1>1, <1>2, <1>3 DEF Taken

\* A context that was used is one still after it is updated.
LEMMA UpdateType ==
  ASSUME NEW s \in Used, NEW p \in Seq(Octets)
  PROVE  update(s, p) \in Used
<1>1. PICK M : Taken(s, M)  BY DEF Used
<1> DEFINE a == s.len
           l == Len(p)
           N == [i \in 1 .. a + l |-> IF i <= a THEN M[i] ELSE p[i - a]]
<1>2. a \in Nat /\ l \in Nat /\ l = Len(p)
  <2>1. a \in Nat  BY <1>1 DEF Taken, Contexts
  <2>2. l \in Nat  BY LenProperties
  <2> QED  BY <2>1, <2>2
<1>3. \A i \in 1 .. a + l : N[i] = IF i <= a THEN M[i] ELSE p[i - a]  OBVIOUS
<1>4. a = s.len  OBVIOUS
<1> HIDE DEF a, l, N
<1>5. \A i \in 1 .. a : i \in 1 .. a + l /\ i <= a  BY ONLY <1>2
<1>6. \A i \in 1 .. s.len : N[i] = M[i]  BY ONLY <1>3, <1>4, <1>5
<1>7. ASSUME NEW i \in 1 .. l PROVE p[i] = N[a + i]
  <2> DEFINE y == a + i
  <2>1. y \in 1 .. a + l /\ ~(y <= a) /\ y - a = i  BY ONLY <1>2, i \in 1 .. l
  <2> HIDE DEF y
  <2>2. N[y] = p[i]  BY ONLY <1>3, <2>1
  <2> QED  BY <2>2 DEF y
<1>8. PartOf(p, N, s.len)  BY ONLY <1>2, <1>4, <1>7 DEF PartOf
<1>9. Taken(s, N)  BY ONLY <1>1, <1>6, SameBlocks
<1>10. Taken(update(s, p), N)  BY ONLY <1>2, <1>8, <1>9, p \in Seq(Octets), UpdateTakes
<1>11. update(s, p) \in Contexts  BY ONLY <1>10 DEF Taken
<1> QED  BY ONLY <1>10, <1>11 DEF Used

\* The contexts on the way.
UpdatedUpTo(f, base, chunks, n) ==
    /\ f \in [0 .. n -> Used]
    /\ f[0] = base
    /\ \A k \in 1 .. n : f[k] = update(f[k - 1], chunks[k])
    /\ FoldLeft(update, base, chunks) = f[n]

\* The parts are taken one after the other.
LEMMA UpdateFold ==
  ASSUME NEW base \in Used, NEW chunks \in Seq(Seq(Octets))
  PROVE  \E f : UpdatedUpTo(f, base, chunks, Len(chunks))
<1> DEFINE n == Len(chunks)
           g == [k \in 1 .. n |-> [c \in Used |-> update(c, chunks[k])]]
<1>0. n \in Nat /\ DOMAIN chunks = 1 .. n  BY LenProperties
<1>e. \A k \in 1 .. n : chunks[k] \in Seq(Octets)  BY ElementOfSeq
<1> HIDE DEF n
<1>1. \A k \in 1 .. n, c \in Used : update(c, chunks[k]) \in Used  BY <1>e, UpdateType
<1>2. g \in [1 .. n -> [Used -> Used]]  BY <1>1
<1>3. PICK w : Folding(w, n, Used, base, g)
  <2>1. AreSteps(g, n, Used)  BY <1>2 DEF AreSteps
  <2> HIDE DEF g
  <2> QED  BY <1>0, <2>1, FoldExists
<1> DEFINE I == CHOOSE u : u = [s \in SUBSET (1 .. n) |->
                  IF s = {} THEN base ELSE update(u[s \ {Max(s)}], chunks[Max(s)])]
<1>4. w = [s \in SUBSET (1 .. n) |->
             IF s = {} THEN base ELSE update(w[s \ {Max(s)}], chunks[Max(s)])]
  <2>1. ASSUME NEW s \in SUBSET (1 .. n), s # {}
        PROVE  g[Max(s)][w[s \ {Max(s)}]] = update(w[s \ {Max(s)}], chunks[Max(s)])
    <3>1. Max(s) \in 1 .. n  BY <1>3, <2>1 DEF Folding
    <3> DEFINE r == s \ {Max(s)}
    <3>2. r \in SUBSET (1 .. n)  OBVIOUS
    <3> HIDE DEF r
    <3>3. w[r] \in Used  BY <3>2, <1>3 DEF Folding
    <3> QED  BY <3>1, <3>3 DEF r
  <2> HIDE DEF g
  <2> QED  BY <2>1, <1>3 DEF Folding
<1>5. I = [s \in SUBSET (1 .. n) |->
             IF s = {} THEN base ELSE update(I[s \ {Max(s)}], chunks[Max(s)])]
  BY <1>4
<1>6. FoldLeft(update, base, chunks) = I[1 .. n]
  BY <1>0 DEF FoldLeft, MapThenFoldSet
<1> DEFINE f == [k \in 0 .. n |-> I[1 .. k]]
           T == {k \in 0 .. n : f[k] \in Used}
<1> HIDE DEF I
<1>7. f[0] = base /\ f[n] = I[1 .. n]
  <2>1. 1 .. 0 = {} /\ {} \in SUBSET (1 .. n)  OBVIOUS
  <2>2. I[{}] = base  BY <2>1, <1>5
  <2> QED  BY <1>0, <2>1, <2>2
<1>8. \A k \in 1 .. n : f[k] = update(f[k - 1], chunks[k])
  <2> SUFFICES ASSUME NEW k \in 1 .. n PROVE f[k] = update(f[k - 1], chunks[k])
    OBVIOUS
  <2>1. k \in Nat /\ 1 .. k \in SUBSET (1 .. n) /\ k \in 1 .. k  BY <1>0
  <2>2. Max(1 .. k) = k  BY <2>1, MaxIs
  <2>3. (1 .. k) \ {k} = 1 .. k - 1  BY <2>1
  <2>4. I[1 .. k] = update(I[1 .. k - 1], chunks[k])  BY <2>1, <2>2, <2>3, <1>5
  <2>5. k \in 0 .. n /\ k - 1 \in 0 .. n  BY <1>0
  <2> QED  BY <2>4, <2>5
<1> HIDE DEF f
<1>9. \A k \in 0 .. n : k \in T
  <2>1. 0 \in T  BY <1>0, <1>7
  <2>2. \A k \in 0 .. n - 1 : k \in T => k + 1 \in T
    <3> SUFFICES ASSUME NEW k \in 0 .. n - 1, f[k] \in Used PROVE f[k + 1] \in Used
      BY <1>0
    <3>1. k + 1 \in 1 .. n /\ k + 1 - 1 = k  BY <1>0
    <3>2. f[k + 1] = update(f[k], chunks[k + 1])  BY <3>1, <1>8
    <3> QED  BY ONLY <1>1, <3>1, <3>2, f[k] \in Used
  <2> HIDE DEF T
  <2> QED  BY <1>0, <2>1, <2>2, UpTo
<1>10. f \in [0 .. n -> Used]  BY <1>9 DEF f
<1> QED  BY <1>6, <1>7, <1>8, <1>10 DEF UpdatedUpTo, n

\* A message is taken in whole, whatever its chunks.
LEMMA ChunksTaken ==
  ASSUME NEW chunks \in Seq(Seq(Octets)), NEW stale \in Blocks
  PROVE  LET s == FoldLeft(update, [h |-> << >>, buf |-> stale, len |-> 0], chunks)
             M == FlattenSeq(chunks)
         IN  M \in Seq(Octets) /\ Taken(s, M) /\ s.len = Len(M)
<1> DEFINE n == Len(chunks)
           base == [h |-> << >>, buf |-> stale, len |-> 0]
           M == FlattenSeq(chunks)
<1>1. PICK e : Joined(e, Octets, chunks)  BY FlattenIs
<1>2. n \in Nat  BY LenProperties
<1>3. Taken(base, M)
  <2>1. << >> \in Seq(Blocks) /\ Len(<< >>) = 0  BY EmptySeq
  <2>2. base \in Contexts /\ base.h = << >> /\ base.len = 0  BY <2>1 DEF Contexts
  <2>3. BlocksOf(<< >>, M)  BY <2>1 DEF BlocksOf
  <2>4. 0 \div 16 = 0 /\ 0 % 16 = 0  OBVIOUS
  <2> HIDE DEF base
  <2>5. Len(base.h) = base.len \div 16 /\ BlocksOf(base.h, M) /\ base.len % 16 = 0
    BY ONLY <2>1, <2>2, <2>3, <2>4
  <2>6. \A i \in 1 .. base.len % 16 : base.buf[i] = M[16 * (base.len \div 16) + i]  BY ONLY <2>5
  <2> QED  BY ONLY <2>2, <2>5, <2>6 DEF Taken
<1>4. base \in Used
  <2>1. base \in Contexts  BY ONLY <1>3 DEF Taken
  <2> HIDE DEF base
  <2> QED  BY ONLY <1>3, <2>1 DEF Used
<1>b. base.len = 0  OBVIOUS
<1> HIDE DEF base, M
<1>5. PICK f : UpdatedUpTo(f, base, chunks, n)  BY <1>4, UpdateFold
<1>6. /\ e[0] = << >> /\ M = e[n] /\ f[0] = base /\ FoldLeft(update, base, chunks) = f[n]
      /\ e \in [0 .. n -> Seq(Octets)]
      /\ \A k \in 1 .. n : f[k] = update(f[k - 1], chunks[k])
  BY <1>1, <1>5 DEF Joined, UpdatedUpTo, M
<1> DEFINE T == {k \in 0 .. n : Taken(f[k], M) /\ f[k].len = Len(e[k])}
<1>7. 0 \in T
  <2>1. Len(<< >>) = 0  BY EmptySeq
  <2> QED  BY <1>2, <1>3, <1>6, <1>b, <2>1
<1>8. ASSUME NEW j \in 0 .. n - 1, j \in T PROVE j + 1 \in T
  <2> DEFINE k == j + 1
  <2>1. k \in 1 .. n /\ k - 1 = j /\ k \in 0 .. n  BY <1>2
  <2>2. Taken(f[j], M) /\ f[j].len = Len(e[j])  BY <1>8
  <2> HIDE DEF k, T, n
  <2>3. /\ e[k] \in Seq(Octets) /\ e[k - 1] \in Seq(Octets) /\ chunks[k] \in Seq(Octets)
        /\ Len(e[k]) = Len(e[k - 1]) + Len(chunks[k])
        /\ PartOf(chunks[k], FlattenSeq(chunks), Len(e[k - 1]))
    BY ONLY <1>1, <2>1, chunks \in Seq(Seq(Octets)), PartsOfWhole DEF n
  <2> DEFINE s == f[j]
             p == chunks[k]
             l == Len(p)
  <2>4. PartOf(p, M, s.len)  BY ONLY <2>1, <2>2, <2>3 DEF M
  <2>5. l \in Nat /\ l = Len(p) /\ p \in Seq(Octets)  BY ONLY <2>3, LenProperties
  <2>6. Taken(s, M)  BY ONLY <2>2
  <2>7. f[k] = update(s, p)  BY ONLY <1>6, <2>1
  <2>8. s.len = Len(e[j]) /\ Len(e[k]) = s.len + l  BY ONLY <2>1, <2>2, <2>3
  <2> HIDE DEF s, p, l
  <2>9. Taken(update(s, p), M) /\ update(s, p).len = s.len + l
    BY ONLY <2>4, <2>5, <2>6, UpdateTakes
  <2>10. Taken(f[k], M) /\ f[k].len = Len(e[k])  BY ONLY <2>7, <2>8, <2>9
  <2> QED  BY <2>1, <2>10 DEF T, k
<1>9. \A k \in 0 .. n : k \in T
  <2> HIDE DEF T
  <2> QED  BY <1>2, <1>7, <1>8, UpTo
<1>10. n \in 0 .. n  BY <1>2
<1>11. Taken(f[n], M) /\ f[n].len = Len(M)
  <2>1. n \in T  BY ONLY <1>9, <1>10
  <2> QED  BY ONLY <1>6, <2>1 DEF T
<1>12. M \in Seq(Octets)  BY ONLY <1>6, <1>10
<1> QED  BY ONLY <1>6, <1>11, <1>12 DEF base, M

\* The length field has its bytes.
LEMMA FieldIs ==
  ASSUME NEW alg \in Algorithms, NEW n \in Nat
  PROVE  Field(alg, n) \in Seq(Octets) /\ Len(Field(alg, n)) = 2
<1>1. n % 256 \in Octets /\ (n \div 256) % 256 \in Octets /\ 0 \in Octets  BY DEF Octets
<1>2. alg.field \in {"second", "big", "little"}
  BY DEF Algorithms, sha512, sha384, sha512_256, sha512_224, sha256, sha224, sha1, md5
<1>3. \A x, y \in Octets : <<x, y>> \in Seq(Octets) /\ Len(<<x, y>>) = 2  OBVIOUS
<1> DEFINE a == n % 256
           b == (n \div 256) % 256
<1>4. Field(alg, n) \in {<<0, a>>, <<b, a>>, <<a, b>>}  BY ONLY <1>2 DEF Field
<1>5. a \in Octets /\ b \in Octets  BY <1>1
<1> HIDE DEF a, b
<1>6. /\ <<0, a>> \in Seq(Octets) /\ Len(<<0, a>>) = 2
      /\ <<b, a>> \in Seq(Octets) /\ Len(<<b, a>>) = 2
      /\ <<a, b>> \in Seq(Octets) /\ Len(<<a, b>>) = 2
  BY ONLY <1>1, <1>3, <1>5
<1> DEFINE c == Field(alg, n)
<1>7. c \in {<<0, a>>, <<b, a>>, <<a, b>>}  BY <1>4
<1> HIDE DEF c
<1>8. CASE c = <<0, a>>  BY <1>6, <1>8 DEF c
<1>9. CASE c = <<b, a>>  BY <1>6, <1>9 DEF c
<1>10. CASE c = <<a, b>>  BY <1>6, <1>10 DEF c
<1> QED  BY <1>7, <1>8, <1>9, <1>10

\* Nothing but zeroes.
LEMMA ZeroesIs ==
  ASSUME NEW n \in Nat
  PROVE  Zeroes(n) \in Seq(Octets) /\ Len(Zeroes(n)) = n /\ \A i \in 1 .. n : Zeroes(n)[i] = 0
<1>1. 0 \in Octets  BY DEF Octets
<1>2. Zeroes(n) \in [1 .. n -> Octets]  BY <1>1 DEF Zeroes
<1>3. \A i \in 1 .. n : Zeroes(n)[i] = 0  BY DEF Zeroes
<1> DEFINE z == Zeroes(n)
<1> HIDE DEF z
<1>4. z \in [1 .. n -> Octets]  BY <1>2 DEF z
<1>5. z \in Seq(Octets) /\ Len(z) = n  BY <1>4
<1> QED  BY <1>3, <1>5 DEF z

\* The mark after the message.
LEMMA MarkIs == << 128 >> \in Seq(Octets) /\ Len(<< 128 >>) = 1 /\ << 128 >>[1] = 128
<1>1. 128 \in Octets  BY DEF Octets
<1> QED  BY <1>1

\* The blocks that are mixed at the end.
PaddedBlocks(h, s, alg, r) ==
    LET m == Copied(s.buf, r, <<128>>)
        b == Copied(m, r + 1, Zeroes(15 - r))
        F == Field(alg, 8 * s.len)
    IN  h = IF r > 13
            THEN Append(Append(s.h, b), Copied(Copied(b, 0, Zeroes(14)), 14, F))
            ELSE Append(s.h, Copied(Copied(m, r + 1, Zeroes(13 - r)), 14, F))

\* The padding, whether a block more is needed or not.
LEMMA PadIs ==
  ASSUME NEW s \in Contexts, NEW alg \in Algorithms, NEW r, r \in 0 .. 15, s.len % 16 = r
  PROVE  PaddedBlocks(pad(s, alg).h, s, alg, r)
<1> DEFINE F == Field(alg, 8 * s.len)
           ma(x) == [s EXCEPT !.buf = Copied(@, (x + 1) - 1, <<128>>)]
           sp(x) == processblock([ma(x) EXCEPT !.buf = Copied(@, x + 1, Zeroes(16 - (x + 1)))])
           W(t, at) == processblock([t EXCEPT !.buf = Copied(Copied(t.buf, at, Zeroes(16 - 2 - at)), 16 - 2, F)])
           U(x) == IF x + 1 > 16 - 2 THEN W(sp(x), 0) ELSE W(ma(x), x + 1)
<1>1. pad(s, alg) = U(s.len % 16)  BY ONLY TRUE DEF pad, Block, overflows
<1>2. pad(s, alg) = U(r)
  <2> HIDE DEF U
  <2> QED  BY <1>1
<1> DEFINE m == Copied(s.buf, r, <<128>>)
           b == Copied(m, r + 1, Zeroes(15 - r))
           marked == [s EXCEPT !.buf = m]
           spilt == processblock([marked EXCEPT !.buf = b])
<1>3. /\ (r + 1) - 1 = r /\ 16 - (r + 1) = 15 - r /\ 16 - 2 = 14 /\ 14 - (r + 1) = 13 - r /\ 14 - 0 = 14
      /\ r + 1 > 14 <=> r > 13
  OBVIOUS
<1>4. s = [h |-> s.h, buf |-> s.buf, len |-> s.len]  BY DEF Contexts
<1>5. marked = [h |-> s.h, buf |-> m, len |-> s.len]
  <2> HIDE DEF m
  <2> QED  BY ONLY <1>4
<1> DEFINE more == [marked EXCEPT !.buf = b]
<1>6. more = [h |-> s.h, buf |-> b, len |-> s.len]
  <2> HIDE DEF b, marked
  <2> QED  BY ONLY <1>5
<1>7. spilt = [h |-> Append(s.h, b), buf |-> b, len |-> s.len]
  <2>1. spilt = processblock(more)  OBVIOUS
  <2> HIDE DEF more, b, spilt
  <2>2. processblock(more) = [more EXCEPT !.h = Append(more.h, more.buf)]  BY ONLY TRUE DEF processblock
  <2>3. more.h = s.h /\ more.buf = b  BY ONLY <1>6
  <2> DEFINE a == Append(s.h, b)
  <2>4. [more EXCEPT !.h = a] = [h |-> a, buf |-> b, len |-> s.len]
    <3> HIDE DEF a
    <3> QED  BY ONLY <1>6
  <2> QED  BY ONLY <2>1, <2>2, <2>3, <2>4
<1> DEFINE Last2(t, z) == processblock([t EXCEPT !.buf = Copied(z, 14, F)])
<1>8. ASSUME NEW t, NEW h, NEW buf, NEW len, t = [h |-> h, buf |-> buf, len |-> len], NEW z
      PROVE  Last2(t, z).h = Append(h, Copied(z, 14, F))
  <2> DEFINE c == Copied(z, 14, F)
             u == [t EXCEPT !.buf = c]
  <2>1. u = [h |-> h, buf |-> c, len |-> len]
    <3> HIDE DEF c
    <3> QED  BY ONLY <1>8
  <2>2. Last2(t, z) = [u EXCEPT !.h = Append(u.h, u.buf)]  BY ONLY TRUE DEF processblock
  <2> HIDE DEF c, u, Last2
  <2>3. [u EXCEPT !.h = Append(u.h, u.buf)].h = Append(u.h, u.buf)  BY ONLY <2>1
  <2>4. u.h = h /\ u.buf = c  BY ONLY <2>1
  <2> QED  BY ONLY <2>2, <2>3, <2>4 DEF c
<1>9. U(r) = IF r > 13 THEN Last2(spilt, Copied(spilt.buf, 0, Zeroes(14)))
             ELSE Last2(marked, Copied(marked.buf, r + 1, Zeroes(13 - r)))
  <2>1. ma(r) = marked /\ sp(r) = spilt
    <3> DEFINE X(a, c, d) == processblock([[s EXCEPT !.buf = Copied(@, a, <<128>>)] EXCEPT !.buf = Copied(@, c, Zeroes(d))])
               Y(a) == [s EXCEPT !.buf = Copied(@, a, <<128>>)]
    <3>1. ma(r) = Y((r + 1) - 1) /\ sp(r) = X((r + 1) - 1, r + 1, 16 - (r + 1))  OBVIOUS
    <3>2. marked = Y(r)  OBVIOUS
    <3>3. X(r, r + 1, 15 - r) = processblock([marked EXCEPT !.buf = Copied(marked.buf, r + 1, Zeroes(15 - r))])
      OBVIOUS
    <3>4. marked.buf = m  BY ONLY <1>5
    <3>5. spilt = processblock([marked EXCEPT !.buf = Copied(m, r + 1, Zeroes(15 - r))])  OBVIOUS
    <3> HIDE DEF X, Y, ma, sp, marked, m, spilt
    <3> QED  BY ONLY <1>3, <3>1, <3>2, <3>3, <3>4, <3>5
  <2>2. ASSUME NEW t, NEW at PROVE W(t, at) = Last2(t, Copied(t.buf, at, Zeroes(14 - at)))
    <3> DEFINE V(x) == processblock([t EXCEPT !.buf = Copied(Copied(t.buf, at, Zeroes(x - at)), x, F)])
    <3>1. W(t, at) = V(16 - 2)  OBVIOUS
    <3>2. V(14) = Last2(t, Copied(t.buf, at, Zeroes(14 - at)))  OBVIOUS
    <3> HIDE DEF V, W, Last2
    <3> QED  BY ONLY <1>3, <3>1, <3>2
  <2> HIDE DEF W, Last2, ma, sp, marked, spilt
  <2>3. CASE r > 13
    <3>1. U(r) = W(spilt, 0)  BY ONLY <1>3, <2>1, <2>3
    <3> QED  BY ONLY <1>3, <2>2, <2>3, <3>1
  <2>4. CASE ~(r > 13)
    <3>1. U(r) = W(marked, r + 1)  BY ONLY <1>3, <2>1, <2>4
    <3> QED  BY ONLY <1>3, <2>2, <2>4, <3>1
  <2> QED  BY ONLY <2>3, <2>4
<1> HIDE DEF U, Last2, marked, spilt
<1>10. marked.buf = m /\ spilt.buf = b  BY ONLY <1>5, <1>7
<1>11. \A z : Last2(marked, z).h = Append(s.h, Copied(z, 14, F))  BY ONLY <1>5, <1>8
<1>12. \A z : Last2(spilt, z).h = Append(Append(s.h, b), Copied(z, 14, F))
  <2> DEFINE g == Append(s.h, b)
  <2>1. spilt = [h |-> g, buf |-> b, len |-> s.len]  BY ONLY <1>7
  <2> HIDE DEF g
  <2>2. \A z : Last2(spilt, z).h = Append(g, Copied(z, 14, F))  BY ONLY <2>1, <1>8
  <2> QED  BY ONLY <2>2 DEF g
<1> HIDE DEF m, b
<1>13. pad(s, alg).h = IF r > 13
               THEN Append(Append(s.h, b), Copied(Copied(b, 0, Zeroes(14)), 14, F))
               ELSE Append(s.h, Copied(Copied(m, r + 1, Zeroes(13 - r)), 14, F))
  BY ONLY <1>2, <1>9, <1>10, <1>11, <1>12
<1> QED  BY ONLY <1>13 DEF m, b, PaddedBlocks

\* The padded message, byte by byte.
PaddedBytes(W, M, z, F) ==
    /\ W \in Seq(Octets) /\ Len(W) = Len(M) + z + 3
    /\ \A i \in 1 .. Len(M) : W[i] = M[i]
    /\ W[Len(M) + 1] = 128
    /\ \A i \in 1 .. z : W[Len(M) + 1 + i] = 0
    /\ W[Len(M) + z + 2] = F[1] /\ W[Len(M) + z + 3] = F[2]

\* The bytes of a padded message, by how many blocks it has.
LEMMA PaddedIs ==
  ASSUME NEW M \in Seq(Octets), NEW alg \in Algorithms
  PROVE  PaddedBytes(Padded(M, alg), M, (13 - Len(M)) % 16, Field(alg, 8 * Len(M)))
<1> DEFINE l == Len(M)
           z == (13 - l) % 16
           F == Field(alg, 8 * l)
           Z == Zeroes(z)
           B == << 128 >>
           a == M \o B
           b == a \o Z
           c == b \o F
<1>1. l \in Nat  BY LenProperties
<1>2. z \in Nat /\ 8 * l \in Nat
  <2> HIDE DEF l
  <2> QED  BY <1>1
<1>3. F \in Seq(Octets) /\ Len(F) = 2
  <2> HIDE DEF l
  <2> QED  BY <1>2, FieldIs
<1>4. Z \in Seq(Octets) /\ Len(Z) = z /\ \A i \in 1 .. z : Z[i] = 0
  <2> HIDE DEF z
  <2> QED  BY <1>2, ZeroesIs
<1>5. B \in Seq(Octets) /\ Len(B) = 1 /\ B[1] = 128  BY MarkIs
<1>6. Padded(M, alg) = c  BY DEF Padded, Block
<1>7. l = Len(M)  OBVIOUS
<1> HIDE DEF l, z, F, Z, B
<1>8. /\ a \in Seq(Octets) /\ Len(a) = l + 1
      /\ (\A i \in 1 .. l : a[i] = M[i]) /\ a[l + 1] = 128
  <2>0. a \in Seq(Octets) /\ AfterOther(a, M, B, Len(M), Len(B))
    <3>1. B \in Seq(Octets)  BY ONLY <1>5
    <3> QED  BY ONLY M \in Seq(Octets), <3>1, ConcatBegins, Zenon
  <2> HIDE DEF a
  <2>00. AfterOther(a, M, B, l, 1)  BY ONLY <1>5, <1>7, <2>0
  <2>1. /\ a \in Seq(Octets) /\ Len(a) = l + 1
        /\ (\A i \in 1 .. l : a[i] = M[i]) /\ \A i \in 1 .. 1 : a[l + i] = B[i]
    BY ONLY <2>0, <2>00 DEF AfterOther
  <2>2. 1 \in 1 .. 1  OBVIOUS
  <2>3. a[l + 1] = 128  BY ONLY <1>5, <2>1, <2>2
  <2> QED  BY ONLY <2>1, <2>3
<1> HIDE DEF a
<1>9. /\ b \in Seq(Octets) /\ Len(b) = l + 1 + z
      /\ (\A i \in 1 .. l + 1 : b[i] = a[i]) /\ \A i \in 1 .. z : b[l + 1 + i] = 0
  <2> DEFINE n == l + 1
  <2>0. Len(a) = n  BY ONLY <1>8
  <2> HIDE DEF n
  <2>00. b \in Seq(Octets) /\ AfterOther(b, a, Z, Len(a), Len(Z))
    BY ONLY <1>4, <1>8, ConcatBegins
  <2> HIDE DEF b
  <2>01. AfterOther(b, a, Z, n, z)  BY ONLY <1>4, <2>0, <2>00
  <2>1. /\ b \in Seq(Octets) /\ Len(b) = n + z
        /\ (\A i \in 1 .. n : b[i] = a[i]) /\ \A i \in 1 .. z : b[n + i] = Z[i]
    BY ONLY <2>00, <2>01 DEF AfterOther
  <2>2. \A i \in 1 .. z : b[n + i] = 0  BY ONLY <1>4, <2>1
  <2> QED  BY ONLY <2>1, <2>2 DEF n
<1> HIDE DEF b
<1>10. /\ c \in Seq(Octets) /\ Len(c) = l + 1 + z + 2
       /\ (\A i \in 1 .. l + 1 + z : c[i] = b[i])
       /\ c[l + 1 + z + 1] = F[1] /\ c[l + 1 + z + 2] = F[2]
  <2> DEFINE n == l + 1 + z
  <2>0. Len(b) = n  BY ONLY <1>9
  <2> HIDE DEF n
  <2>00. c \in Seq(Octets) /\ AfterOther(c, b, F, Len(b), Len(F))
    BY ONLY <1>3, <1>9, ConcatBegins
  <2> HIDE DEF c
  <2>01. AfterOther(c, b, F, n, 2)  BY ONLY <1>3, <2>0, <2>00
  <2>1. /\ c \in Seq(Octets) /\ Len(c) = n + 2
        /\ (\A i \in 1 .. n : c[i] = b[i]) /\ \A i \in 1 .. 2 : c[n + i] = F[i]
    BY ONLY <2>00, <2>01 DEF AfterOther
  <2>2. 1 \in 1 .. 2 /\ 2 \in 1 .. 2  OBVIOUS
  <2>3. c[n + 1] = F[1] /\ c[n + 2] = F[2]  BY ONLY <2>1, <2>2
  <2> QED  BY ONLY <2>1, <2>3 DEF n
<1> HIDE DEF c
<1>11. /\ l + 1 + z + 2 = l + z + 3 /\ l + 1 + z + 1 = l + z + 2
       /\ l + 1 \in 1 .. l + 1 /\ l + 1 \in 1 .. l + 1 + z
       /\ \A i \in 1 .. l : i \in 1 .. l + 1 /\ i \in 1 .. l + 1 + z
       /\ \A i \in 1 .. z : l + 1 + i \in 1 .. l + 1 + z
  BY ONLY <1>1, <1>2
<1>12. \A i \in 1 .. l : c[i] = M[i]  BY ONLY <1>8, <1>9, <1>10, <1>11
<1>13. c[l + 1] = 128  BY ONLY <1>8, <1>9, <1>10, <1>11
<1>14. \A i \in 1 .. z : c[l + 1 + i] = 0
  <2> TAKE i \in 1 .. z
  <2> DEFINE y == l + 1 + i
  <2>1. y \in 1 .. l + 1 + z  BY ONLY <1>1, <1>2, i \in 1 .. z
  <2>2. b[y] = 0  BY ONLY <1>9, i \in 1 .. z
  <2> HIDE DEF y
  <2>3. c[y] = 0  BY ONLY <1>10, <2>1, <2>2
  <2> QED  BY ONLY <2>3 DEF y
<1>15. Len(c) = l + z + 3 /\ c[l + z + 2] = F[1] /\ c[l + z + 3] = F[2]  BY ONLY <1>10, <1>11
<1>16. PaddedBytes(c, M, z, F)  BY ONLY <1>7, <1>10, <1>12, <1>13, <1>14, <1>15 DEF PaddedBytes
<1> QED  BY ONLY <1>6, <1>16 DEF z, F, l

\* How many zeroes there are.
LEMMA PadNumbers ==
  ASSUME NEW q \in Nat, NEW r \in 0 .. 15
  PROVE  (13 - (16 * q + r)) % 16 = IF r > 13 THEN 29 - r ELSE 13 - r
<1>1. CASE r > 13
  <2> DEFINE d == 29 - r
             k == -1 - q
  <2>1. d \in 0 .. 15 /\ 13 - (16 * q + r) = 16 * k + d /\ k \in Int  BY <1>1
  <2> HIDE DEF d, k
  <2>2. (16 * k + d) % 16 = d  BY <2>1
  <2> QED  BY <1>1, <2>1, <2>2 DEF d
<1>2. CASE ~(r > 13)
  <2> DEFINE d == 13 - r
             k == -q
  <2>1. d \in 0 .. 15 /\ 13 - (16 * q + r) = 16 * k + d /\ k \in Int  BY <1>2
  <2> HIDE DEF d, k
  <2>2. (16 * k + d) % 16 = d  BY <2>1
  <2> QED  BY <1>2, <2>1, <2>2 DEF d
<1> QED  BY <1>1, <1>2

\* c is b with p from after its first r bytes.
Changed(c, b, r, p, n) ==
    /\ c \in Blocks
    /\ \A i \in 1 .. 16 : c[i] = IF r < i /\ i <= r + n THEN p[i - r] ELSE b[i]

\* A copy changes its places, and no others.
LEMMA CopyChanges ==
  ASSUME NEW b \in Blocks, NEW r \in 0 .. 16, NEW p \in Seq(Octets), NEW n, n = Len(p), n <= 16 - r
  PROVE  Changed(Copied(b, r, p), b, r, p, n)
<1>1. /\ Copied(b, r, p) \in Blocks
      /\ \A i \in 1 .. 16 : Copied(b, r, p)[i] = IF r < i /\ i <= r + Len(p) THEN p[i - r] ELSE b[i]
  BY CopiedIs
<1> QED  BY <1>1 DEF Changed

\* The last block ends with the length, after zeroes.
LEMMA LastBlock ==
  ASSUME NEW b \in Blocks, NEW r \in 0 .. 14, NEW F \in Seq(Octets), Len(F) = 2
  PROVE  LET c == Copied(Copied(b, r, Zeroes(14 - r)), 14, F)
         IN  /\ c \in Blocks
             /\ \A i \in 1 .. 14 : c[i] = IF r < i THEN 0 ELSE b[i]
             /\ c[15] = F[1] /\ c[16] = F[2]
<1> DEFINE n == 14 - r
           z == Zeroes(n)
           d == Copied(b, r, z)
           c == Copied(d, 14, F)
<1>1. n \in Nat /\ n <= 16 - r /\ r \in 0 .. 16 /\ r + n = 14  OBVIOUS
<1> HIDE DEF n
<1>2. z \in Seq(Octets) /\ Len(z) = n /\ \A i \in 1 .. n : z[i] = 0  BY ONLY <1>1, ZeroesIs
<1> HIDE DEF z
<1>3. Changed(d, b, r, z, n)  BY ONLY <1>1, <1>2, b \in Blocks, CopyChanges
<1> HIDE DEF d
<1>4. d \in Blocks /\ \A i \in 1 .. 16 : d[i] = IF r < i /\ i <= r + n THEN z[i - r] ELSE b[i]
  BY ONLY <1>3 DEF Changed
<1>5. Changed(c, d, 14, F, 2)
  <2>1. 14 \in 0 .. 16 /\ 2 <= 16 - 14  OBVIOUS
  <2> QED  BY ONLY <1>4, <2>1, F \in Seq(Octets), Len(F) = 2, CopyChanges
<1> HIDE DEF c
<1>6. c \in Blocks /\ \A i \in 1 .. 16 : c[i] = IF 14 < i /\ i <= 14 + 2 THEN F[i - 14] ELSE d[i]
  BY ONLY <1>5 DEF Changed
<1>7. c[15] = F[1] /\ c[16] = F[2]
  <2>1. 15 \in 1 .. 16 /\ 14 < 15 /\ 15 <= 14 + 2 /\ 15 - 14 = 1  OBVIOUS
  <2>2. 16 \in 1 .. 16 /\ 14 < 16 /\ 16 <= 14 + 2 /\ 16 - 14 = 2  OBVIOUS
  <2>3. c[15] = F[15 - 14] /\ c[16] = F[16 - 14]  BY ONLY <1>6, <2>1, <2>2
  <2> QED  BY ONLY <2>1, <2>2, <2>3
<1>8. ASSUME NEW i \in 1 .. 14 PROVE c[i] = IF r < i THEN 0 ELSE b[i]
  <2>1. i \in 1 .. 16 /\ ~(14 < i) /\ i <= r + n  BY ONLY <1>1, i \in 1 .. 14
  <2>2. c[i] = d[i]  BY ONLY <1>6, <2>1
  <2>3. CASE r < i
    <3>1. i - r \in 1 .. n  BY ONLY <1>1, <2>1, <2>3, r \in 0 .. 14
    <3>2. d[i] = z[i - r] /\ z[i - r] = 0  BY ONLY <1>2, <1>4, <2>1, <2>3, <3>1
    <3> QED  BY ONLY <2>2, <2>3, <3>2
  <2>4. CASE ~(r < i)
    <3>1. d[i] = b[i]  BY ONLY <1>4, <2>1, <2>4
    <3> QED  BY ONLY <2>2, <2>4, <3>1
  <2> QED  BY ONLY <2>3, <2>4
<1>9. /\ c \in Blocks
      /\ \A i \in 1 .. 14 : c[i] = IF r < i THEN 0 ELSE b[i]
      /\ c[15] = F[1] /\ c[16] = F[2]
  BY ONLY <1>6, <1>7, <1>8
<1> QED  BY ONLY <1>9 DEF c, d, z, n

\* What follows the message in the padded one, of which q blocks were mixed and r
\* bytes were not.
Follows(W, M, q, r, z, F) ==
    /\ Len(W) = 16 * q + r + z + 3
    /\ \A i \in 1 .. r : W[16 * q + i] = M[16 * q + i]
    /\ W[16 * q + r + 1] = 128
    /\ \A i \in 1 .. z : W[16 * q + r + 1 + i] = 0
    /\ W[16 * q + r + z + 2] = F[1] /\ W[16 * q + r + z + 3] = F[2]

\* What the last blocks hold follows the message.
LEMMA AfterMessage ==
  ASSUME NEW q \in Nat, NEW r \in 0 .. 15, NEW z, NEW M, Len(M) = 16 * q + r,
         NEW W, NEW F, PaddedBytes(W, M, z, F)
  PROVE  Follows(W, M, q, r, z, F)
<1> DEFINE l == 16 * q + r
<1>1. l \in Nat  OBVIOUS
<1>2. \A i \in 1 .. r : 16 * q + i \in 1 .. l  OBVIOUS
<1>3. Len(M) = l  OBVIOUS
<1> HIDE DEF l
<1>4. /\ Len(W) = l + z + 3
      /\ \A i \in 1 .. l : W[i] = M[i]
      /\ W[l + 1] = 128
      /\ \A i \in 1 .. z : W[l + 1 + i] = 0
      /\ W[l + z + 2] = F[1] /\ W[l + z + 3] = F[2]
  BY ONLY <1>3, PaddedBytes(W, M, z, F) DEF PaddedBytes
<1>5. \A i \in 1 .. r : W[16 * q + i] = M[16 * q + i]  BY ONLY <1>2, <1>4
<1> QED  BY ONLY <1>4, <1>5 DEF l, Follows

\* The blocks are W, whole.
WholeOf(h, W) == h \in Seq(Blocks) /\ BlocksOf(h, W) /\ Len(W) = 16 * Len(h)

\* A block more.
LEMMA OneMore ==
  ASSUME NEW h \in Seq(Blocks), NEW k \in Nat, k = Len(h), NEW W, BlocksOf(h, W), NEW b \in Blocks,
         \A i \in 1 .. 16 : b[i] = W[16 * k + i]
  PROVE  Append(h, b) \in Seq(Blocks) /\ Len(Append(h, b)) = k + 1 /\ BlocksOf(Append(h, b), W)
<1>1. \A i \in 1 .. 16 : b[i] = W[16 * Len(h) + i]  BY k = Len(h)
<1>2. /\ Append(h, b) \in Seq(Blocks) /\ Len(Append(h, b)) = Len(h) + 1
      /\ BlocksOf(Append(h, b), W)
  BY <1>1, MoreBlocks
<1> QED  BY ONLY <1>2, k = Len(h)

\* The message that was taken in is padded.
LEMMA PadTakes ==
  ASSUME NEW s, NEW M \in Seq(Octets), Taken(s, M), s.len = Len(M), NEW alg \in Algorithms
  PROVE  WholeOf(pad(s, alg).h, Padded(M, alg)) /\ Padded(M, alg) \in Seq(Octets)
<1> DEFINE W == Padded(M, alg)
           F == Field(alg, 8 * s.len)
<1>1. PICK q \in Nat, r \in 0 .. 15 :
        /\ s.h \in Seq(Blocks) /\ s.buf \in Blocks /\ s.len \in Nat /\ s \in Contexts
        /\ s.len = 16 * q + r /\ s.len \div 16 = q /\ s.len % 16 = r /\ Len(s.h) = q
        /\ BlocksOf(s.h, M) /\ \A i \in 1 .. r : s.buf[i] = M[16 * q + i]
  BY ONLY Taken(s, M), TakenParts
<1> DEFINE z == IF r > 13 THEN 29 - r ELSE 13 - r
           m == Copied(s.buf, r, <<128>>)
           b == Copied(m, r + 1, Zeroes(15 - r))
           f == s.h
           x == 16 * q
<1>2. Len(M) = 16 * q + r /\ (13 - Len(M)) % 16 = z
  <2>1. Len(M) = 16 * q + r  BY ONLY <1>1, s.len = Len(M)
  <2> QED  BY ONLY <2>1, PadNumbers, q \in Nat, r \in 0 .. 15
<1>3. PaddedBytes(W, M, z, F)
  <2>1. PaddedBytes(Padded(M, alg), M, (13 - Len(M)) % 16, Field(alg, 8 * Len(M)))
    BY ONLY M \in Seq(Octets), alg \in Algorithms, PaddedIs
  <2> HIDE DEF z
  <2> QED  BY ONLY <1>2, <2>1, s.len = Len(M)
<1>F. F \in Seq(Octets) /\ Len(F) = 2
  <2>1. 8 * s.len \in Nat  BY <1>1
  <2> QED  BY ONLY <2>1, alg \in Algorithms, FieldIs
<1>z. z \in Nat /\ (r > 13 => z = 29 - r) /\ (~(r > 13) => z = 13 - r)  OBVIOUS
<1>4. pad(s, alg).h =
        IF r > 13
        THEN Append(Append(f, b), Copied(Copied(b, 0, Zeroes(14)), 14, F))
        ELSE Append(f, Copied(Copied(m, r + 1, Zeroes(13 - r)), 14, F))
  <2>1. s \in Contexts /\ s.len % 16 = r  BY ONLY <1>1
  <2>2. PaddedBlocks(pad(s, alg).h, s, alg, r)
    BY ONLY <2>1, r \in 0 .. 15, alg \in Algorithms, PadIs
  <2> QED  BY ONLY <2>2 DEF PaddedBlocks
<1>5. W \in Seq(Octets)  BY ONLY <1>3 DEF PaddedBytes
<1> HIDE DEF W, F, z
<1>6. /\ Len(W) = 16 * q + r + z + 3
      /\ \A i \in 1 .. r : W[16 * q + i] = M[16 * q + i]
      /\ W[16 * q + r + 1] = 128
      /\ \A i \in 1 .. z : W[16 * q + r + 1 + i] = 0
      /\ W[16 * q + r + z + 2] = F[1] /\ W[16 * q + r + z + 3] = F[2]
  <2>1. Len(M) = 16 * q + r  BY ONLY <1>2
  <2>2. Follows(W, M, q, r, z, F)  BY ONLY <2>1, <1>3, AfterMessage, q \in Nat, r \in 0 .. 15
  <2> QED  BY ONLY <2>2 DEF Follows
<1>7. m \in Blocks /\ \A i \in 1 .. r + 1 : m[i] = W[x + i]
  <2> DEFINE p == << 128 >>
             d == s.buf
  <2>1. p \in Seq(Octets) /\ Len(p) = 1 /\ p[1] = 128  BY MarkIs
  <2> HIDE DEF p
  <2>2. r \in 0 .. 16 /\ 1 <= 16 - r  BY ONLY r \in 0 .. 15
  <2>3. d \in Blocks  BY ONLY <1>1
  <2> HIDE DEF d
  <2>p. p \in Seq(Octets) /\ 1 = Len(p)  BY ONLY <2>1
  <2>4. Changed(Copied(d, r, p), d, r, p, 1)  BY ONLY <2>p, <2>2, <2>3, CopyChanges
  <2>5. m = Copied(d, r, p)  BY DEF d, p
  <2> HIDE DEF m
  <2>6. m \in Blocks /\ \A i \in 1 .. 16 : m[i] = IF r < i /\ i <= r + 1 THEN p[i - r] ELSE d[i]
    BY ONLY <2>4, <2>5 DEF Changed
  <2>7. ASSUME NEW i \in 1 .. r + 1 PROVE m[i] = W[x + i]
    <3>1. i \in 1 .. 16  BY ONLY i \in 1 .. r + 1, r \in 0 .. 15
    <3>2. CASE i = r + 1
      <4>1. r < i /\ i <= r + 1 /\ i - r = 1 /\ x + i = 16 * q + r + 1
        BY ONLY <3>2, r \in 0 .. 15, q \in Nat
      <4>2. m[i] = p[i - r]  BY ONLY <2>6, <3>1, <4>1
      <4>3. W[x + i] = 128  BY ONLY <1>6, <4>1
      <4> QED  BY ONLY <2>1, <4>1, <4>2, <4>3
    <3>3. CASE i # r + 1
      <4>1. i \in 1 .. r /\ ~(r < i)  BY ONLY <3>3, i \in 1 .. r + 1, r \in 0 .. 15
      <4>2. m[i] = d[i]  BY ONLY <2>6, <3>1, <4>1
      <4>3. d[i] = M[16 * q + i]  BY ONLY <1>1, <4>1 DEF d
      <4>4. W[16 * q + i] = M[16 * q + i]  BY ONLY <1>6, <4>1
      <4> QED  BY ONLY <4>2, <4>3, <4>4
    <3> QED  BY ONLY <3>2, <3>3
  <2> QED  BY ONLY <2>6, <2>7
<1>8. f \in Seq(Blocks) /\ Len(f) = q /\ BlocksOf(f, W)
  <2>0. f \in Seq(Blocks) /\ Len(f) = q /\ BlocksOf(f, M)  BY ONLY <1>1
  <2>1. \A i \in 1 .. Len(M) : W[i] = M[i]  BY ONLY <1>3 DEF PaddedBytes
  <2>2. \A i \in 1 .. s.len : W[i] = M[i]  BY ONLY <2>1, s.len = Len(M)
  <2>3. Taken(s, W)  BY ONLY <2>2, Taken(s, M), SameBlocks
  <2>4. BlocksOf(f, W)  BY ONLY <2>3 DEF Taken
  <2> QED  BY ONLY <2>0, <2>4
<1> HIDE DEF m, f
<1>9. CASE r > 13
  <2>0. z = 29 - r /\ r \in 14 .. 15  BY ONLY <1>9, <1>z, r \in 0 .. 15
  <2>1. b \in Blocks /\ \A i \in 1 .. 16 : b[i] = IF r + 1 < i THEN 0 ELSE m[i]
    <3> DEFINE n == 15 - r
               p == Zeroes(n)
    <3>1. n \in Nat /\ r + 1 \in 0 .. 16 /\ n <= 16 - (r + 1) /\ r + 1 + n = 16  BY ONLY r \in 0 .. 15
    <3> HIDE DEF n
    <3>2. p \in Seq(Octets) /\ Len(p) = n /\ \A i \in 1 .. n : p[i] = 0  BY ONLY <3>1, ZeroesIs
    <3>3. b = Copied(m, r + 1, p)  BY DEF n
    <3> HIDE DEF p, b
    <3> DEFINE e == r + 1
    <3>4. e \in 0 .. 16 /\ n <= 16 - e /\ e + n = 16  BY ONLY <3>1
    <3>5. b = Copied(m, e, p)  BY ONLY <3>3
    <3>6. e = r + 1  OBVIOUS
    <3> HIDE DEF e
    <3>7. Changed(Copied(m, e, p), m, e, p, n)  BY ONLY <1>7, <3>2, <3>4, CopyChanges
    <3>8. b \in Blocks /\ \A i \in 1 .. 16 : b[i] = IF e < i /\ i <= e + n THEN p[i - e] ELSE m[i]
      BY ONLY <3>5, <3>7 DEF Changed
    <3>9. ASSUME NEW i \in 1 .. 16 PROVE b[i] = IF e < i THEN 0 ELSE m[i]
      <4>1. i <= e + n  BY ONLY <3>4, i \in 1 .. 16
      <4>2. CASE e < i
        <5>1. i - e \in 1 .. n  BY ONLY <3>1, <3>4, <4>1, <4>2, i \in 1 .. 16
        <5> QED  BY ONLY <3>2, <3>8, <4>1, <4>2, <5>1, i \in 1 .. 16
      <4>3. CASE ~(e < i)  BY ONLY <3>8, <4>3, i \in 1 .. 16
      <4> QED  BY ONLY <4>2, <4>3
    <3> QED  BY ONLY <3>6, <3>8, <3>9
  <2>2. ASSUME NEW i \in 1 .. 16 PROVE b[i] = W[x + i]
    <3>1. CASE r + 1 < i
      <4> DEFINE y == i - (r + 1)
      <4>1. y \in 1 .. z /\ 16 * q + r + 1 + y = x + i
        BY ONLY <2>0, <3>1, i \in 1 .. 16, r \in 0 .. 15, q \in Nat
      <4> HIDE DEF y
      <4>2. W[16 * q + r + 1 + y] = 0  BY ONLY <1>6, <4>1
      <4> QED  BY ONLY <2>1, <3>1, <4>1, <4>2, i \in 1 .. 16
    <3>2. CASE ~(r + 1 < i)
      <4>1. i \in 1 .. r + 1  BY ONLY <3>2, i \in 1 .. 16, r \in 0 .. 15
      <4> QED  BY ONLY <1>7, <2>1, <3>2, <4>1, i \in 1 .. 16
    <3> QED  BY ONLY <3>1, <3>2
  <2> DEFINE g == Append(f, b)
             c == Copied(Copied(b, 0, Zeroes(14)), 14, F)
  <2>3. g \in Seq(Blocks) /\ Len(g) = q + 1 /\ BlocksOf(g, W)
    <3> HIDE DEF b
    <3>1. q = Len(f)  BY ONLY <1>8
    <3> QED  BY ONLY <1>8, <2>1, <2>2, <3>1, q \in Nat, OneMore
  <2>4. /\ c \in Blocks
        /\ \A i \in 1 .. 14 : c[i] = 0
        /\ c[15] = F[1] /\ c[16] = F[2]
    <3> HIDE DEF b
    <3> DEFINE e == Copied(Copied(b, 0, Zeroes(14 - 0)), 14, F)
    <3>1. 0 \in 0 .. 14 /\ 14 - 0 = 14 /\ \A i \in 1 .. 14 : 0 < i  OBVIOUS
    <3>2. /\ e \in Blocks
          /\ \A i \in 1 .. 14 : e[i] = IF 0 < i THEN 0 ELSE b[i]
          /\ e[15] = F[1] /\ e[16] = F[2]
      BY ONLY <1>F, <2>1, <3>1, LastBlock
    <3>3. c = e  BY ONLY <3>1
    <3> HIDE DEF c, e
    <3> QED  BY ONLY <3>1, <3>2, <3>3
  <2> HIDE DEF b, g, c
  <2> DEFINE k == q + 1
  <2>5. k \in Nat /\ k = Len(g) /\ 16 * k = x + 16  BY ONLY <2>3, q \in Nat
  <2> HIDE DEF k
  <2>6. ASSUME NEW i \in 1 .. 16 PROVE c[i] = W[16 * k + i]
    <3>1. CASE i \in 1 .. 14
      <4> DEFINE y == 15 - r + i
      <4>1. y \in 1 .. z /\ 16 * q + r + 1 + y = 16 * k + i
        BY ONLY <2>0, <2>5, <3>1, r \in 0 .. 15, q \in Nat
      <4> HIDE DEF y
      <4>2. W[16 * q + r + 1 + y] = 0  BY ONLY <1>6, <4>1
      <4> QED  BY ONLY <2>4, <3>1, <4>1, <4>2
    <3>2. CASE i = 15
      <4>1. 16 * q + r + z + 2 = 16 * k + 15  BY ONLY <2>0, <2>5, q \in Nat
      <4> QED  BY ONLY <1>6, <2>4, <3>2, <4>1
    <3>3. CASE i = 16
      <4>1. 16 * q + r + z + 3 = 16 * k + 16  BY ONLY <2>0, <2>5, q \in Nat
      <4> QED  BY ONLY <1>6, <2>4, <3>3, <4>1
    <3> QED  BY ONLY <3>1, <3>2, <3>3, i \in 1 .. 16
  <2> DEFINE h == Append(g, c)
  <2>7. h \in Seq(Blocks) /\ Len(h) = k + 1 /\ BlocksOf(h, W)
    BY ONLY <2>3, <2>4, <2>5, <2>6, OneMore
  <2>8. Len(W) = 16 * (k + 1)  BY ONLY <1>6, <2>0, <2>5, q \in Nat
  <2>9. pad(s, alg).h = h  BY ONLY <1>4, <1>9 DEF g, c
  <2> HIDE DEF h
  <2> QED  BY ONLY <1>5, <2>7, <2>8, <2>9 DEF WholeOf, W
<1>10. CASE ~(r > 13)
  <2>0. z = 13 - r /\ r \in 0 .. 13  BY ONLY <1>10, <1>z, r \in 0 .. 15
  <2> DEFINE c == Copied(Copied(m, r + 1, Zeroes(13 - r)), 14, F)
  <2>1. /\ c \in Blocks
        /\ \A i \in 1 .. 14 : c[i] = IF r + 1 < i THEN 0 ELSE m[i]
        /\ c[15] = F[1] /\ c[16] = F[2]
    <3> DEFINE e == r + 1
               d == Copied(Copied(m, e, Zeroes(14 - e)), 14, F)
    <3>1. e \in 0 .. 14 /\ 14 - e = 13 - r /\ e = r + 1  BY ONLY <2>0
    <3> HIDE DEF e
    <3>2. /\ d \in Blocks
          /\ \A i \in 1 .. 14 : d[i] = IF e < i THEN 0 ELSE m[i]
          /\ d[15] = F[1] /\ d[16] = F[2]
      BY ONLY <1>F, <1>7, <3>1, LastBlock
    <3>3. c = d  BY ONLY <3>1
    <3> HIDE DEF c, d
    <3> QED  BY ONLY <3>1, <3>2, <3>3
  <2> HIDE DEF c
  <2>2. ASSUME NEW i \in 1 .. 16 PROVE c[i] = W[x + i]
    <3>1. CASE i \in 1 .. 14 /\ r + 1 < i
      <4> DEFINE y == i - (r + 1)
      <4>1. y \in 1 .. z /\ 16 * q + r + 1 + y = x + i
        BY ONLY <2>0, <3>1, q \in Nat
      <4> HIDE DEF y
      <4>2. W[16 * q + r + 1 + y] = 0  BY ONLY <1>6, <4>1
      <4> QED  BY ONLY <2>1, <3>1, <4>1, <4>2
    <3>2. CASE i \in 1 .. 14 /\ ~(r + 1 < i)
      <4>1. i \in 1 .. r + 1  BY ONLY <2>0, <3>2
      <4> QED  BY ONLY <1>7, <2>1, <3>2, <4>1
    <3>3. CASE i = 15
      <4>1. 16 * q + r + z + 2 = x + 15  BY ONLY <2>0, q \in Nat
      <4> QED  BY ONLY <1>6, <2>1, <3>3, <4>1
    <3>4. CASE i = 16
      <4>1. 16 * q + r + z + 3 = x + 16  BY ONLY <2>0, q \in Nat
      <4> QED  BY ONLY <1>6, <2>1, <3>4, <4>1
    <3> QED  BY ONLY <3>1, <3>2, <3>3, <3>4, i \in 1 .. 16
  <2> DEFINE h == Append(f, c)
  <2>3. h \in Seq(Blocks) /\ Len(h) = q + 1 /\ BlocksOf(h, W)
    <3>1. q = Len(f)  BY ONLY <1>8
    <3> QED  BY ONLY <1>8, <2>1, <2>2, <3>1, q \in Nat, OneMore
  <2>4. Len(W) = 16 * (q + 1)  BY ONLY <1>6, <2>0, q \in Nat
  <2>5. pad(s, alg).h = h  BY ONLY <1>4, <1>10 DEF c
  <2> HIDE DEF h
  <2> QED  BY ONLY <1>5, <2>3, <2>4, <2>5 DEF WholeOf, W
<1> QED  BY <1>9, <1>10

\* Whole blocks are put together to what they are of.
LEMMA FlattenBlocks ==
  ASSUME NEW h, NEW W \in Seq(Octets), WholeOf(h, W)
  PROVE  FlattenSeq(h) = W
<1> DEFINE n == Len(h)
           v == FlattenSeq(h)
<1>1. h \in Seq(Blocks) /\ BlocksOf(h, W) /\ Len(W) = 16 * n  BY DEF WholeOf
<1>2. n \in Nat  BY <1>1, LenProperties
<1>3. \A j \in 1 .. n : h[j] \in Blocks  BY <1>1, ElementOfSeq
<1>4. \A b \in Blocks : b \in Seq(Octets) /\ Len(b) = 16
  <2> TAKE b \in Blocks
  <2>1. b \in [1 .. 16 -> Octets]  BY DEF Blocks, Block
  <2> DEFINE m == 16
  <2>2. m \in Nat /\ b \in [1 .. m -> Octets]  BY <2>1
  <2>m. m = 16  OBVIOUS
  <2> HIDE DEF m
  <2>3. b \in Seq(Octets) /\ Len(b) = m  BY ONLY <2>2
  <2> QED  BY ONLY <2>3, <2>m
<1>5. h \in Seq(Seq(Octets))
  <2> DEFINE S == Seq(Octets)
  <2>1. h \in [1 .. n -> Blocks]  BY ONLY <1>1, LenProperties DEF n
  <2>2. \A b \in Blocks : b \in S  BY <1>4
  <2> HIDE DEF S, n
  <2>3. h \in [1 .. n -> S]  BY ONLY <2>1, <2>2
  <2>4. h \in Seq(S)  BY ONLY <1>2, <2>3
  <2> QED  BY <2>4 DEF S
<1>6. PICK e : Joined(e, Octets, h)  BY ONLY <1>5, FlattenIs
<1>7. e[0] = << >> /\ v = e[n] /\ e \in [0 .. n -> Seq(Octets)]  BY ONLY <1>6 DEF Joined
<1>8. ASSUME NEW k \in 1 .. n
      PROVE  /\ e[k] \in Seq(Octets) /\ e[k - 1] \in Seq(Octets) /\ h[k] \in Seq(Octets)
             /\ Len(e[k]) = Len(e[k - 1]) + 16
             /\ \A i \in 1 .. 16 : h[k][i] = v[Len(e[k - 1]) + i]
  <2>1. /\ e[k] \in Seq(Octets) /\ e[k - 1] \in Seq(Octets) /\ h[k] \in Seq(Octets)
        /\ Len(e[k]) = Len(e[k - 1]) + Len(h[k])
        /\ PartOf(h[k], v, Len(e[k - 1]))
    BY ONLY <1>5, <1>6, k \in 1 .. n, PartsOfWhole
  <2>2. Len(h[k]) = 16  BY ONLY <1>3, <1>4, k \in 1 .. n
  <2>3. \A i \in 1 .. 16 : h[k][i] = v[Len(e[k - 1]) + i]  BY ONLY <2>1, <2>2 DEF PartOf
  <2> QED  BY ONLY <2>1, <2>2, <2>3
<1> HIDE DEF n, v
<1> DEFINE T == {k \in 0 .. n : Len(e[k]) = 16 * k}
<1>9. \A k \in 0 .. n : k \in T
  <2>1. 0 \in T
    <3>1. Len(<< >>) = 0 /\ 16 * 0 = 0 /\ 0 \in 0 .. n  BY <1>2, EmptySeq
    <3> QED  BY <1>7, <3>1
  <2>2. ASSUME NEW k \in 0 .. n - 1, k \in T PROVE k + 1 \in T
    <3> DEFINE j == k + 1
    <3>1. j \in 1 .. n /\ j - 1 = k /\ j \in 0 .. n /\ 16 * j = 16 * k + 16  BY <1>2
    <3>2. Len(e[k]) = 16 * k  BY <2>2
    <3> HIDE DEF j, T
    <3>3. Len(e[j]) = Len(e[j - 1]) + 16  BY ONLY <1>8, <3>1
    <3>4. Len(e[j]) = 16 * j  BY ONLY <3>1, <3>2, <3>3
    <3> QED  BY <3>1, <3>4 DEF j, T
  <2> HIDE DEF T
  <2> QED  BY <1>2, <2>1, <2>2, UpTo
<1>10. \A k \in 0 .. n : Len(e[k]) = 16 * k  BY ONLY <1>9 DEF T
<1>11. n \in 0 .. n  BY <1>2
<1>12. v \in Seq(Octets) /\ Len(v) = 16 * n  BY ONLY <1>7, <1>10, <1>11
<1>13. ASSUME NEW y \in 1 .. 16 * n PROVE v[y] = W[y]
  <2> DEFINE k == (y - 1) \div 16 + 1
             i == ((y - 1) % 16) + 1
  <2>1. k \in 1 .. n /\ i \in 1 .. 16 /\ y = 16 * (k - 1) + i /\ k - 1 \in 0 .. n
    <3> DEFINE x == y - 1
               a == x \div 16
               b == x % 16
    <3>1. x \in Nat /\ x < 16 * n /\ y = x + 1  BY ONLY <1>2, y \in 1 .. 16 * n
    <3> HIDE DEF x
    <3>2. a \in Nat /\ b \in 0 .. 15 /\ x = 16 * a + b  BY ONLY <3>1
    <3>3. k = a + 1 /\ i = b + 1  BY DEF x
    <3> HIDE DEF a, b, k, i
    <3> QED  BY ONLY <1>2, <3>1, <3>2, <3>3
  <2> HIDE DEF k, i
  <2>2. Len(e[k - 1]) = 16 * (k - 1)  BY ONLY <1>10, <2>1
  <2>3. h[k][i] = v[Len(e[k - 1]) + i]  BY ONLY <1>8, <2>1
  <2>4. h[k][i] = W[16 * (k - 1) + i]  BY ONLY <1>1, <2>1 DEF BlocksOf, n
  <2> QED  BY ONLY <2>1, <2>2, <2>3, <2>4
<1>14. Len(W) = 16 * n  BY ONLY <1>1
<1>15. \A y \in 1 .. Len(v) : v[y] = W[y]  BY ONLY <1>12, <1>13
<1>16. v = W  BY ONLY <1>12, <1>14, <1>15, W \in Seq(Octets), SeqEqual
<1> QED  BY <1>16 DEF v

\* A sum is made of the whole message, however it came and whatever was there before.
LEMMA SumIs ==
  ASSUME NEW c \in SumCalls
  PROVE  SumOfMessage(c, cryptsum(c.chunks, c.alg, c.stale))
<1>1. c.chunks \in Seq(Seq(Octets)) /\ c.alg \in Algorithms /\ c.stale \in Blocks  BY DEF SumCalls
<1> DEFINE M == FlattenSeq(c.chunks)
           t == FoldLeft(update, [h |-> << >>, buf |-> c.stale, len |-> 0], c.chunks)
           s == pad(t, c.alg)
           v == cryptsum(c.chunks, c.alg, c.stale)
           W == Padded(M, c.alg)
           B == v.blocks
<1>2. M \in Seq(Octets) /\ Taken(t, M) /\ t.len = Len(M)
  <2>1. LET ss == FoldLeft(update, [h |-> << >>, buf |-> c.stale, len |-> 0], c.chunks)
            MM == FlattenSeq(c.chunks)
        IN  MM \in Seq(Octets) /\ Taken(ss, MM) /\ ss.len = Len(MM)
    BY ONLY <1>1, ChunksTaken
  <2> QED  BY ONLY <2>1
<1>3. v = [init |-> c.alg.init, blocks |-> s.h, words |-> 1 .. c.alg.words]  BY DEF cryptsum
<1> HIDE DEF M, t, v
<1>4. WholeOf(s.h, W) /\ W \in Seq(Octets)  BY ONLY <1>1, <1>2, PadTakes
<1>5. B = s.h /\ v.init = c.alg.init
  <2> HIDE DEF s
  <2> QED  BY ONLY <1>3
<1> HIDE DEF s, W, B
<1>6. FlattenSeq(B) = W  BY ONLY <1>4, <1>5, FlattenBlocks
<1>7. \A i \in DOMAIN B : Len(B[i]) = Block
  <2>1. B \in Seq(Blocks)  BY ONLY <1>4, <1>5 DEF WholeOf
  <2> TAKE i \in DOMAIN B
  <2>2. B[i] \in Blocks  BY ONLY <2>1, i \in DOMAIN B, LenProperties, ElementOfSeq
  <2>3. B[i] \in [1 .. 16 -> Octets]  BY ONLY <2>2 DEF Blocks, Block
  <2> DEFINE b == B[i]
  <2> HIDE DEF b
  <2>4. b \in [1 .. 16 -> Octets]  BY ONLY <2>3 DEF b
  <2>5. Len(b) = 16  BY <2>4
  <2> QED  BY ONLY <2>5 DEF b, Block
<1> QED  BY ONLY <1>5, <1>6, <1>7 DEF SumOfMessage, B, W, M, v

----------------------------------------------------------------------------
(* MAC addresses (lib/num.c, lib/command.c): the bits of their digits.     *)

\* The powers of two in a word.
LEMMA Powers ==
  /\ 2 ^ 0 = 1 /\ 2 ^ 1 = 2 /\ 2 ^ 2 = 4 /\ 2 ^ 3 = 8 /\ 2 ^ 4 = 16 /\ 2 ^ 5 = 32 /\ 2 ^ 6 = 64 /\ 2 ^ 7 = 128
  /\ 2 ^ 8 = 256 /\ 2 ^ 9 = 512 /\ 2 ^ 10 = 1024 /\ 2 ^ 11 = 2048 /\ 2 ^ 12 = 4096 /\ 2 ^ 13 = 8192
  /\ 2 ^ 14 = 16384 /\ 2 ^ 15 = 32768 /\ 2 ^ 16 = 65536
OBVIOUS

\* They are not zero.
LEMMA PowersNat == \A k \in 0 .. 15 : 2 ^ k \in Nat \ {0}
<1> SUFFICES ASSUME NEW k \in 0 .. 15 PROVE 2 ^ k \in Nat \ {0}
  OBVIOUS
<1>1. k = 0 \/ k = 1 \/ k = 2 \/ k = 3 \/ k = 4 \/ k = 5 \/ k = 6 \/ k = 7
      \/ k = 8 \/ k = 9 \/ k = 10 \/ k = 11 \/ k = 12 \/ k = 13 \/ k = 14 \/ k = 15  OBVIOUS
<1>2. CASE k = 0  BY <1>2, Powers
<1>3. CASE k = 1  BY <1>3, Powers
<1>4. CASE k = 2  BY <1>4, Powers
<1>5. CASE k = 3  BY <1>5, Powers
<1>6. CASE k = 4  BY <1>6, Powers
<1>7. CASE k = 5  BY <1>7, Powers
<1>8. CASE k = 6  BY <1>8, Powers
<1>9. CASE k = 7  BY <1>9, Powers
<1>10. CASE k = 8  BY <1>10, Powers
<1>11. CASE k = 9  BY <1>11, Powers
<1>12. CASE k = 10  BY <1>12, Powers
<1>13. CASE k = 11  BY <1>13, Powers
<1>14. CASE k = 12  BY <1>14, Powers
<1>15. CASE k = 13  BY <1>15, Powers
<1>16. CASE k = 14  BY <1>16, Powers
<1>17. CASE k = 15  BY <1>17, Powers
<1> QED  BY <1>1, <1>2, <1>3, <1>4, <1>5, <1>6, <1>7, <1>8, <1>9, <1>10, <1>11, <1>12, <1>13, <1>14, <1>15, <1>16, <1>17

\* The bits of two numbers, one after the other.
Anded(f, n, x, y) ==
    /\ f \in [0 .. n -> Int] /\ f[0] = 0
    /\ \A k \in 1 .. n : f[k] = f[k - 1] + 2 ^ (k - 1) * Bit(x, k - 1) * Bit(y, k - 1)
    /\ And(n, x, y) = f[n]

\* A bit is 0 or 1.
LEMMA BitType ==
  ASSUME NEW x \in Nat, NEW i \in 0 .. 15
  PROVE  Bit(x, i) \in 0 .. 1
<1> DEFINE p == 2 ^ i
<1>1. p \in Nat \ {0}  BY PowersNat
<1> HIDE DEF p
<1>2. x \div p \in Nat  BY <1>1
<1>3. (x \div p) % 2 \in 0 .. 1  BY <1>2
<1> QED  BY <1>3 DEF Bit, p

\* The bits are summed one after the other.
LEMMA AndIs ==
  ASSUME NEW n \in 0 .. 16, NEW x \in Nat, NEW y \in Nat
  PROVE  \E f : Anded(f, n, x, y)
<1> DEFINE a(k) == 2 ^ (k - 1) * Bit(x, k - 1) * Bit(y, k - 1)
           g == [k \in 1 .. n |-> [c \in Int |-> c + a(k)]]
<1>1. \A k \in 1 .. n : a(k) \in Int
  <2> TAKE k \in 1 .. n
  <2> DEFINE p == 2 ^ (k - 1)
             b == Bit(x, k - 1)
             d == Bit(y, k - 1)
  <2>1. k - 1 \in 0 .. 15  OBVIOUS
  <2>2. p \in Nat /\ b \in 0 .. 1 /\ d \in 0 .. 1  BY <2>1, PowersNat, BitType
  <2> HIDE DEF p, b, d
  <2>3. p * b * d \in Int
    <3>1. p * b \in Int  BY <2>2
    <3> DEFINE e == p * b
    <3> HIDE DEF e
    <3>2. e * d \in Int  BY <2>2, <3>1 DEF e
    <3> QED  BY <3>2 DEF e
  <2> QED  BY <2>3 DEF p, b, d
<1> HIDE DEF a
<1>2. AreSteps(g, n, Int)  BY <1>1 DEF AreSteps
<1>3. \A k \in 1 .. n, c \in Int : g[k][c] = c + a(k)  OBVIOUS
<1> HIDE DEF g
<1>4. PICK f : Going(f, n, Int, 0, g)
  <2>1. n \in Nat /\ 0 \in Int  OBVIOUS
  <2> QED  BY <1>2, <2>1, GoesOn
<1>5. f \in [0 .. n -> Int] /\ f[0] = 0 /\ \A k \in 1 .. n : f[k] = f[k - 1] + a(k)
  <2>1. f \in [0 .. n -> Int] /\ f[0] = 0 /\ \A k \in 1 .. n : f[k] = g[k][f[k - 1]]
    BY <1>4 DEF Going
  <2>2. \A k \in 1 .. n : f[k - 1] \in Int
    <3>1. \A k \in 1 .. n : k - 1 \in 0 .. n  OBVIOUS
    <3> QED  BY <2>1, <3>1
  <2> QED  BY <2>1, <2>2, <1>3
<1> DEFINE F == CHOOSE u : u = [k \in 0 .. n |-> IF k = 0 THEN 0 ELSE u[k - 1] + a(k)]
<1>6. f = [k \in 0 .. n |-> IF k = 0 THEN 0 ELSE f[k - 1] + a(k)]
  <2>1. \A k \in 0 .. n : f[k] = IF k = 0 THEN 0 ELSE f[k - 1] + a(k)
    <3>1. \A k \in 0 .. n : k # 0 => k \in 1 .. n  OBVIOUS
    <3> QED  BY <1>5, <3>1
  <2> QED  BY <1>5, <2>1
<1>7. F = [k \in 0 .. n |-> IF k = 0 THEN 0 ELSE F[k - 1] + a(k)]  BY <1>6
<1>8. And(n, x, y) = F[n]  BY DEF And, a
<1> HIDE DEF F
<1> DEFINE T == {k \in 0 .. n : F[k] = f[k]}
<1>9. \A k \in 0 .. n : k \in T
  <2>1. 0 \in T
    <3>1. 0 \in 0 .. n  OBVIOUS
    <3> QED  BY <1>5, <1>7, <3>1
  <2>2. ASSUME NEW k \in 0 .. n - 1, k \in T PROVE k + 1 \in T
    <3> DEFINE j == k + 1
    <3>1. j \in 1 .. n /\ j - 1 = k /\ j \in 0 .. n /\ j # 0  OBVIOUS
    <3>2. F[k] = f[k]  BY <2>2
    <3> HIDE DEF j, T
    <3>3. F[j] = F[j - 1] + a(j)  BY ONLY <1>7, <3>1
    <3>4. f[j] = f[j - 1] + a(j)  BY ONLY <1>5, <3>1
    <3>5. F[j] = f[j]  BY ONLY <3>1, <3>2, <3>3, <3>4
    <3> QED  BY <3>1, <3>5 DEF j, T
  <2>3. n \in Nat  OBVIOUS
  <2> HIDE DEF T
  <2> QED  BY <2>1, <2>2, <2>3, UpTo
<1>10. And(n, x, y) = f[n]
  <2>1. n \in 0 .. n  OBVIOUS
  <2>2. n \in T  BY <1>9, <2>1
  <2> QED  BY <1>8, <2>2
<1>11. Anded(f, n, x, y)  BY ONLY <1>5, <1>10 DEF Anded, a
<1> QED  BY <1>11

\* Two numbers that have no bit in common.
LEMMA Disjoint ==
  ASSUME NEW n \in 0 .. 16, NEW x \in Nat, NEW y \in Nat,
         \A j \in 0 .. n - 1 : Bit(x, j) = 0 \/ Bit(y, j) = 0
  PROVE  And(n, x, y) = 0
<1>1. PICK f : Anded(f, n, x, y)  BY AndIs
<1> DEFINE T == {k \in 0 .. n : f[k] = 0}
<1>2. \A k \in 0 .. n : k \in T
  <2>1. 0 \in T  BY <1>1 DEF Anded
  <2>2. ASSUME NEW k \in 0 .. n - 1, k \in T PROVE k + 1 \in T
    <3> DEFINE j == k + 1
               p == 2 ^ k
               b == Bit(x, k)
               d == Bit(y, k)
    <3>1. j \in 1 .. n /\ j - 1 = k /\ k \in 0 .. 15 /\ j \in 0 .. n  OBVIOUS
    <3>2. f[k] = 0  BY <2>2
    <3>3. f[j] = f[j - 1] + 2 ^ (j - 1) * Bit(x, j - 1) * Bit(y, j - 1)
      <4> HIDE DEF j
      <4> QED  BY ONLY <1>1, <3>1 DEF Anded
    <3>4. f[j] = f[k] + p * b * d
      <4> HIDE DEF j, T
      <4> QED  BY <3>1, <3>3
    <3>5. p \in Nat /\ b \in 0 .. 1 /\ d \in 0 .. 1 /\ (b = 0 \/ d = 0)
      <4>1. p \in Nat  BY <3>1, PowersNat
      <4>2. b \in 0 .. 1 /\ d \in 0 .. 1  BY <3>1, BitType
      <4> QED  BY <4>1, <4>2
    <3> HIDE DEF p, b, d, j, T
    <3>6. p * b * d = 0
      <4>1. CASE b = 0
        <5>1. p * b = 0  BY <3>5, <4>1
        <5> QED  BY <5>1, <3>5
      <4>2. CASE d = 0
        <5>1. p * b \in Int  BY <3>5
        <5> DEFINE e == p * b
        <5> HIDE DEF e
        <5>2. e * d = 0  BY <5>1, <4>2 DEF e
        <5> QED  BY <5>2 DEF e
      <4> QED  BY <4>1, <4>2, <3>5
    <3>7. f[j] = 0  BY ONLY <3>2, <3>4, <3>6
    <3> QED  BY <3>1, <3>7 DEF T, j
  <2>3. n \in Nat  OBVIOUS
  <2> HIDE DEF T
  <2> QED  BY <2>1, <2>2, <2>3, UpTo
<1>3. n \in T
  <2>1. n \in 0 .. n  OBVIOUS
  <2> HIDE DEF T
  <2> QED  BY <1>2, <2>1
<1> QED  BY <1>1, <1>3 DEF Anded

\* A letter is lower case when this bit is set.
LEMMA LowerIs ==
  ASSUME NEW ch \in 0 .. 255
  PROVE  Lower(ch) = ch + 32 - 32 * ((ch \div 32) % 2)
<1>0. ch \in Nat /\ 32 \in Nat /\ 8 \in 0 .. 16  OBVIOUS
<1>1. PICK f : Anded(f, 8, ch, 32)
  <2> DEFINE y == 32
             n == 8
  <2>1. ch \in Nat /\ y \in Nat /\ n \in 0 .. 16  OBVIOUS
  <2> HIDE DEF y, n
  <2>2. \E f : Anded(f, n, ch, y)  BY <2>1, AndIs
  <2> QED  BY <2>2 DEF y, n
<1>2. \A k \in 1 .. 8 : f[k] = f[k - 1] + 2 ^ (k - 1) * Bit(ch, k - 1) * Bit(32, k - 1)
  BY <1>1 DEF Anded
<1>3. \A k \in 0 .. 8 : f[k] \in Int  BY <1>1 DEF Anded
<1>4. \A k \in 0 .. 7 : Bit(ch, k) \in 0 .. 1
  BY <1>0, BitType
<1>5. /\ Bit(32, 0) = 0 /\ Bit(32, 1) = 0 /\ Bit(32, 2) = 0 /\ Bit(32, 3) = 0 /\ Bit(32, 4) = 0
      /\ Bit(32, 5) = 1 /\ Bit(32, 6) = 0 /\ Bit(32, 7) = 0
  BY Powers DEF Bit
<1>6. f[5] = 0
  <2>1. f[1] = f[0] + 2 ^ 0 * Bit(ch, 0) * Bit(32, 0)  BY <1>2
  <2>2. f[2] = f[1] + 2 ^ 1 * Bit(ch, 1) * Bit(32, 1)  BY <1>2
  <2>3. f[3] = f[2] + 2 ^ 2 * Bit(ch, 2) * Bit(32, 2)  BY <1>2
  <2>4. f[4] = f[3] + 2 ^ 3 * Bit(ch, 3) * Bit(32, 3)  BY <1>2
  <2>5. f[5] = f[4] + 2 ^ 4 * Bit(ch, 4) * Bit(32, 4)  BY <1>2
  <2>6. f[0] = 0  BY <1>1 DEF Anded
  <2>7. Bit(ch, 0) \in Int /\ Bit(ch, 1) \in Int /\ Bit(ch, 2) \in Int /\ Bit(ch, 3) \in Int /\ Bit(ch, 4) \in Int
    BY <1>4
  <2> QED  BY ONLY <2>1, <2>2, <2>3, <2>4, <2>5, <2>6, <2>7, <1>5, Powers
<1>7. f[8] = 32 * Bit(ch, 5)
  <2>1. f[6] = f[5] + 2 ^ 5 * Bit(ch, 5) * Bit(32, 5)  BY <1>2
  <2>2. f[7] = f[6] + 2 ^ 6 * Bit(ch, 6) * Bit(32, 6)  BY <1>2
  <2>3. f[8] = f[7] + 2 ^ 7 * Bit(ch, 7) * Bit(32, 7)  BY <1>2
  <2>4. Bit(ch, 5) \in Int /\ Bit(ch, 6) \in Int /\ Bit(ch, 7) \in Int  BY <1>4
  <2> QED  BY ONLY <2>1, <2>2, <2>3, <2>4, <1>5, <1>6, Powers
<1>8. Bit(ch, 5) = (ch \div 32) % 2  BY Powers DEF Bit
<1>9. And(8, ch, 32) = 32 * ((ch \div 32) % 2)  BY <1>1, <1>7, <1>8 DEF Anded
<1> QED  BY <1>9 DEF Lower, Or

\* The only codes that a set bit makes a question mark or an x.
IsAsked(ch) ==
    /\ Lower(ch) = 63 <=> ch \in {31, 63}
    /\ Lower(ch) = 120 <=> ch \in {88, 120}
    /\ Lower(ch) \in 97 .. 102 <=> ch \in (65 .. 70) \cup (97 .. 102)
    /\ ch \in 65 .. 70 => Lower(ch) = ch + 32
    /\ ch \in 97 .. 102 => Lower(ch) = ch
    /\ Lower(ch) \in 0 .. 255

\* A set bit makes no other codes the same.
LEMMA Asked == ASSUME NEW ch \in 0 .. 255 PROVE IsAsked(ch)
<1> DEFINE q == ch \div 32
<1>1. q \in 0 .. 7 /\ 32 * q <= ch /\ ch < 32 * q + 32  OBVIOUS
<1>2. Lower(ch) = ch + 32 - 32 * (q % 2)  BY LowerIs
<1> HIDE DEF q
<1>3. q % 2 = 0 \/ q % 2 = 1  BY <1>1
<1>4. q = 0 \/ q = 1 \/ q = 2 \/ q = 3 \/ q = 4 \/ q = 5 \/ q = 6 \/ q = 7  BY <1>1
<1>5. \A k \in {0, 2, 4, 6} : q = k => Lower(ch) = ch + 32  BY <1>2
<1>6. \A k \in {1, 3, 5, 7} : q = k => Lower(ch) = ch  BY <1>2
<1> QED  BY <1>1, <1>4, <1>5, <1>6 DEF IsAsked

\* A digit, and a letter that is one, by the difference from the first of them.
LEMMA MinusIs ==
  ASSUME NEW a \in 0 .. 255
  PROVE  /\ Minus(a, 48) <= 9 <=> a \in 48 .. 57
         /\ Minus(a, 97) <= 5 <=> a \in 97 .. 102
<1> DEFINE m == 65536
<1>1. Minus(a, 48) = (a - 48) % m /\ Minus(a, 97) = (a - 97) % m  BY Powers DEF Minus
<1>2. /\ a >= 48 => (a - 48) % m = a - 48
      /\ a < 48 => (a - 48) % m = a - 48 + m
      /\ a >= 97 => (a - 97) % m = a - 97
      /\ a < 97 => (a - 97) % m = a - 97 + m
  OBVIOUS
<1>3. Minus(a, 48) <= 9 <=> a \in 48 .. 57  BY <1>1, <1>2
<1>4. Minus(a, 97) <= 5 <=> a \in 97 .. 102  BY <1>1, <1>2
<1> QED  BY <1>3, <1>4

\* The values of the digits, of the characters left to chance, and of no others.
HexFits(ch, r) ==
    /\ ch \in DOMAIN Digits => hextonum(ch, r) = Digits[ch] /\ Digits[ch] \in 0 .. 15
    /\ ch \in Random \cup {31} => hextonum(ch, r) = r
    /\ ch \notin DOMAIN Digits \cup Random \cup {31} => hextonum(ch, r) = 16
    /\ hextonum(ch, r) \in 0 .. 16

\* A character that is a digit, or left to chance, has a value, and no other.
LEMMA HexIs ==
  ASSUME NEW ch \in 0 .. 255, NEW r \in 0 .. 15
  PROVE  HexFits(ch, r)
<1>0. IsAsked(ch)  BY Asked
<1>1. Minus(ch, 48) <= 9 <=> ch \in 48 .. 57  BY MinusIs
<1>2. Minus(Lower(ch), 97) <= 5 <=> ch \in (65 .. 70) \cup (97 .. 102)
  <2> DEFINE l == Lower(ch)
  <2>1. l \in 0 .. 255  BY <1>0 DEF IsAsked
  <2>2. l \in 97 .. 102 <=> ch \in (65 .. 70) \cup (97 .. 102)  BY <1>0 DEF IsAsked
  <2> HIDE DEF l
  <2>3. Minus(l, 97) <= 5 <=> l \in 97 .. 102  BY <2>1, MinusIs
  <2> QED  BY <2>1, <2>2, <2>3 DEF l
<1>3. Lower(ch) \in {63, 120} <=> ch \in Random \cup {31}
  BY <1>0 DEF Random, IsAsked
<1>4. /\ ch \in 65 .. 70 => Lower(ch) = ch + 32
      /\ ch \in 97 .. 102 => Lower(ch) = ch
  BY <1>0 DEF IsAsked
<1>5. DOMAIN Digits = (48 .. 57) \cup (65 .. 70) \cup (97 .. 102)  BY DEF Digits
<1>6. /\ ch \in 48 .. 57 => Digits[ch] = ch - 48
      /\ ch \in 65 .. 70 => Digits[ch] = ch - 55
      /\ ch \in 97 .. 102 => Digits[ch] = ch - 87
  BY DEF Digits
<1>7. /\ ch \in 48 .. 57 => hextonum(ch, r) = ch - 48
      /\ ch \in (65 .. 70) \cup (97 .. 102) => hextonum(ch, r) = Lower(ch) - 97 + 10
      /\ ch \in Random \cup {31} => hextonum(ch, r) = r
      /\ ch \notin (48 .. 57) \cup (65 .. 70) \cup (97 .. 102) \cup Random \cup {31} => hextonum(ch, r) = 16
  <2>1. ch \in Random \cup {31} => ch \notin (48 .. 57) \cup (65 .. 70) \cup (97 .. 102)  BY DEF Random
  <2>2. ch \in (65 .. 70) \cup (97 .. 102) => ch \notin 48 .. 57  OBVIOUS
  <2> QED  BY <1>1, <1>2, <1>3, <2>1, <2>2 DEF hextonum
<1>8. ch \in DOMAIN Digits => hextonum(ch, r) = Digits[ch] /\ Digits[ch] \in 0 .. 15
  BY <1>4, <1>5, <1>6, <1>7
<1>9. ch \in Random \cup {31} => hextonum(ch, r) = r  BY <1>7
<1>10. ch \notin DOMAIN Digits \cup Random \cup {31} => hextonum(ch, r) = 16  BY <1>5, <1>7
<1>11. hextonum(ch, r) \in 0 .. 16
  <2>1. CASE ch \in DOMAIN Digits
    <3> DEFINE h == hextonum(ch, r)
    <3>1. h \in 0 .. 15  BY ONLY <1>8, <2>1
    <3> HIDE DEF h
    <3>2. h \in 0 .. 16  BY ONLY <3>1
    <3> QED  BY <3>2 DEF h
  <2>2. CASE ch \in Random \cup {31}
    <3> DEFINE h == hextonum(ch, r)
    <3>1. h = r  BY ONLY <1>9, <2>2
    <3> HIDE DEF h
    <3>2. h \in 0 .. 16  BY <3>1
    <3> QED  BY <3>2 DEF h
  <2>3. CASE ch \notin DOMAIN Digits \cup Random \cup {31}
    <3> DEFINE h == hextonum(ch, r)
    <3>1. h = 16  BY ONLY <1>10, <2>3
    <3> HIDE DEF h
    <3>2. h \in 0 .. 16  BY ONLY <3>1
    <3> QED  BY <3>2 DEF h
  <2> QED  BY ONLY <2>1, <2>2, <2>3
<1> QED  BY ONLY <1>8, <1>9, <1>10, <1>11 DEF HexFits

\* The second digit of a first byte that is left to chance: the address is of
\* one machine, and local.
LEMMA ChanceIs ==
  ASSUME NEW h \in 0 .. 15
  PROVE  LET v == Or(4, And(4, h, 14), 2)
         IN  v \in 0 .. 15 /\ v % 2 = 0 /\ (v \div 2) % 2 = 1
<1>0. PICK f : Anded(f, 4, h, 14)
  <2> DEFINE y == 14
             n == 4
  <2>1. h \in Nat /\ y \in Nat /\ n \in 0 .. 16  OBVIOUS
  <2> HIDE DEF y, n
  <2>2. \E f : Anded(f, n, h, y)  BY <2>1, AndIs
  <2> QED  BY <2>2 DEF y, n
<1> DEFINE z == And(4, h, 14)
<1>1. z = 2 * ((h \div 2) % 2) + 4 * ((h \div 4) % 2) + 8 * ((h \div 8) % 2)
  <2>1. \A k \in 1 .. 4 : f[k] = f[k - 1] + 2 ^ (k - 1) * Bit(h, k - 1) * Bit(14, k - 1)
    BY <1>0 DEF Anded
  <2>2. /\ f[1] = f[0] + 2 ^ 0 * Bit(h, 0) * Bit(14, 0)
        /\ f[2] = f[1] + 2 ^ 1 * Bit(h, 1) * Bit(14, 1)
        /\ f[3] = f[2] + 2 ^ 2 * Bit(h, 2) * Bit(14, 2)
        /\ f[4] = f[3] + 2 ^ 3 * Bit(h, 3) * Bit(14, 3)
    BY <2>1
  <2>3. Bit(14, 0) = 0 /\ Bit(14, 1) = 1 /\ Bit(14, 2) = 1 /\ Bit(14, 3) = 1  BY Powers DEF Bit
  <2>4. Bit(h, 0) \in Int /\ Bit(h, 1) \in Int /\ Bit(h, 2) \in Int /\ Bit(h, 3) \in Int
    BY BitType
  <2>5. Bit(h, 1) = (h \div 2) % 2 /\ Bit(h, 2) = (h \div 4) % 2 /\ Bit(h, 3) = (h \div 8) % 2
    BY Powers DEF Bit
  <2>6. f[0] = 0 /\ z = f[4]  BY <1>0 DEF Anded
  <2>7. z = 2 * Bit(h, 1) + 4 * Bit(h, 2) + 8 * Bit(h, 3)
    BY ONLY <2>2, <2>3, <2>4, <2>6, Powers
  <2> QED  BY <2>5, <2>7
<1>2. z \in 0 .. 15 /\ z % 2 = 0
  <2> HIDE DEF z
  <2> QED  BY <1>1
<1> HIDE DEF z
<1>3. PICK e : Anded(e, 4, z, 2)
  <2> DEFINE y == 2
             n == 4
  <2>1. z \in Nat /\ y \in Nat /\ n \in 0 .. 16  BY <1>2
  <2> HIDE DEF y, n
  <2>2. \E g : Anded(g, n, z, y)  BY <2>1, AndIs
  <2> QED  BY <2>2 DEF y, n
<1>4. And(4, z, 2) = 2 * ((z \div 2) % 2)
  <2>1. \A k \in 1 .. 4 : e[k] = e[k - 1] + 2 ^ (k - 1) * Bit(z, k - 1) * Bit(2, k - 1)
    BY <1>3 DEF Anded
  <2>2. /\ e[1] = e[0] + 2 ^ 0 * Bit(z, 0) * Bit(2, 0)
        /\ e[2] = e[1] + 2 ^ 1 * Bit(z, 1) * Bit(2, 1)
        /\ e[3] = e[2] + 2 ^ 2 * Bit(z, 2) * Bit(2, 2)
        /\ e[4] = e[3] + 2 ^ 3 * Bit(z, 3) * Bit(2, 3)
    BY <2>1
  <2>3. Bit(2, 0) = 0 /\ Bit(2, 1) = 1 /\ Bit(2, 2) = 0 /\ Bit(2, 3) = 0  BY Powers DEF Bit
  <2>4. Bit(z, 0) \in Int /\ Bit(z, 1) \in Int /\ Bit(z, 2) \in Int /\ Bit(z, 3) \in Int
    BY <1>2, BitType
  <2>5. Bit(z, 1) = (z \div 2) % 2  BY Powers DEF Bit
  <2>6. e[0] = 0 /\ And(4, z, 2) = e[4]  BY <1>3 DEF Anded
  <2>7. And(4, z, 2) = 2 * Bit(z, 1)
    BY ONLY <2>2, <2>3, <2>4, <2>6, Powers
  <2> QED  BY <2>5, <2>7
<1> DEFINE v == Or(4, z, 2)
<1>5. v = z + 2 - 2 * ((z \div 2) % 2)  BY <1>4 DEF Or
<1> HIDE DEF v
<1>6. v \in 0 .. 15 /\ v % 2 = 0 /\ (v \div 2) % 2 = 1  BY <1>2, <1>5
<1> QED  BY <1>6 DEF v, z

\* The lowest bit.
LEMMA OddIs ==
  ASSUME NEW x \in Nat
  PROVE  And(1, x, 1) = x % 2
<1>1. PICK f : Anded(f, 1, x, 1)
  <2> DEFINE y == 1
  <2>1. y \in Nat /\ y \in 0 .. 16  OBVIOUS
  <2> HIDE DEF y
  <2>2. \E f : Anded(f, y, x, y)  BY <2>1, AndIs
  <2> QED  BY <2>2 DEF y
<1>2. f[1] = f[0] + 2 ^ 0 * Bit(x, 0) * Bit(1, 0)  BY <1>1 DEF Anded
<1>3. Bit(1, 0) = 1 /\ Bit(x, 0) = x % 2  BY Powers DEF Bit
<1>4. f[0] = 0 /\ And(1, x, 1) = f[1]  BY <1>1 DEF Anded
<1>5. x % 2 \in Int  OBVIOUS
<1> QED  BY ONLY <1>2, <1>3, <1>4, <1>5, Powers

\* Zero has no bits.
LEMMA NoBits ==
  \A j \in 0 .. 15 : Bit(0, j) = 0
<1>1. /\ (0 \div 1) % 2 = 0 /\ (0 \div 2) % 2 = 0 /\ (0 \div 4) % 2 = 0 /\ (0 \div 8) % 2 = 0
      /\ (0 \div 16) % 2 = 0 /\ (0 \div 32) % 2 = 0 /\ (0 \div 64) % 2 = 0 /\ (0 \div 128) % 2 = 0
      /\ (0 \div 256) % 2 = 0 /\ (0 \div 512) % 2 = 0 /\ (0 \div 1024) % 2 = 0 /\ (0 \div 2048) % 2 = 0
      /\ (0 \div 4096) % 2 = 0 /\ (0 \div 8192) % 2 = 0 /\ (0 \div 16384) % 2 = 0 /\ (0 \div 32768) % 2 = 0
  OBVIOUS
<1>2. /\ Bit(0, 0) = 0 /\ Bit(0, 1) = 0 /\ Bit(0, 2) = 0 /\ Bit(0, 3) = 0
      /\ Bit(0, 4) = 0 /\ Bit(0, 5) = 0 /\ Bit(0, 6) = 0 /\ Bit(0, 7) = 0
      /\ Bit(0, 8) = 0 /\ Bit(0, 9) = 0 /\ Bit(0, 10) = 0 /\ Bit(0, 11) = 0
      /\ Bit(0, 12) = 0 /\ Bit(0, 13) = 0 /\ Bit(0, 14) = 0 /\ Bit(0, 15) = 0
  BY <1>1, Powers DEF Bit
<1> QED  BY <1>2

\* The first digit of the low byte leaves the bits of the second.
LEMMA FirstDigit ==
  ASSUME NEW a \in 0 .. 15
  PROVE  \A j \in 0 .. 3 : Bit(a * 16, j) = 0
<1>1. /\ ((a * 16) \div 1) % 2 = 0 /\ ((a * 16) \div 2) % 2 = 0 /\ ((a * 16) \div 4) % 2 = 0 /\ ((a * 16) \div 8) % 2 = 0
  OBVIOUS
<1>2. /\ Bit(a * 16, 0) = 0 /\ Bit(a * 16, 1) = 0 /\ Bit(a * 16, 2) = 0 /\ Bit(a * 16, 3) = 0
  BY <1>1, Powers DEF Bit
<1> QED  BY <1>2

\* The second digit of it has no others.
LEMMA SecondDigit ==
  ASSUME NEW a \in 0 .. 15
  PROVE  \A j \in 4 .. 15 : Bit(a * 1, j) = 0
<1>1. /\ ((a * 1) \div 16) % 2 = 0 /\ ((a * 1) \div 32) % 2 = 0 /\ ((a * 1) \div 64) % 2 = 0 /\ ((a * 1) \div 128) % 2 = 0
      /\ ((a * 1) \div 256) % 2 = 0 /\ ((a * 1) \div 512) % 2 = 0 /\ ((a * 1) \div 1024) % 2 = 0 /\ ((a * 1) \div 2048) % 2 = 0
      /\ ((a * 1) \div 4096) % 2 = 0 /\ ((a * 1) \div 8192) % 2 = 0 /\ ((a * 1) \div 16384) % 2 = 0 /\ ((a * 1) \div 32768) % 2 = 0
  OBVIOUS
<1>2. /\ Bit(a * 1, 4) = 0 /\ Bit(a * 1, 5) = 0 /\ Bit(a * 1, 6) = 0 /\ Bit(a * 1, 7) = 0
      /\ Bit(a * 1, 8) = 0 /\ Bit(a * 1, 9) = 0 /\ Bit(a * 1, 10) = 0 /\ Bit(a * 1, 11) = 0
      /\ Bit(a * 1, 12) = 0 /\ Bit(a * 1, 13) = 0 /\ Bit(a * 1, 14) = 0 /\ Bit(a * 1, 15) = 0
  BY <1>1, Powers DEF Bit
<1> QED  BY <1>2

\* The low byte has none of the high byte.
LEMMA LowByte ==
  ASSUME NEW a \in 0 .. 255
  PROVE  \A j \in 8 .. 15 : Bit(a, j) = 0
<1>1. /\ (a \div 256) % 2 = 0 /\ (a \div 512) % 2 = 0 /\ (a \div 1024) % 2 = 0 /\ (a \div 2048) % 2 = 0
      /\ (a \div 4096) % 2 = 0 /\ (a \div 8192) % 2 = 0 /\ (a \div 16384) % 2 = 0 /\ (a \div 32768) % 2 = 0
  OBVIOUS
<1>2. /\ Bit(a, 8) = 0 /\ Bit(a, 9) = 0 /\ Bit(a, 10) = 0 /\ Bit(a, 11) = 0
      /\ Bit(a, 12) = 0 /\ Bit(a, 13) = 0 /\ Bit(a, 14) = 0 /\ Bit(a, 15) = 0
  BY <1>1, Powers DEF Bit
<1> QED  BY <1>2

\* The first digit of the high byte has only its last four bits.
LEMMA ThirdDigit ==
  ASSUME NEW a \in 0 .. 15
  PROVE  \A j \in 0 .. 11 : Bit(a * 4096, j) = 0
<1>1. /\ ((a * 4096) \div 1) % 2 = 0 /\ ((a * 4096) \div 2) % 2 = 0 /\ ((a * 4096) \div 4) % 2 = 0 /\ ((a * 4096) \div 8) % 2 = 0
      /\ ((a * 4096) \div 16) % 2 = 0 /\ ((a * 4096) \div 32) % 2 = 0 /\ ((a * 4096) \div 64) % 2 = 0 /\ ((a * 4096) \div 128) % 2 = 0
      /\ ((a * 4096) \div 256) % 2 = 0 /\ ((a * 4096) \div 512) % 2 = 0 /\ ((a * 4096) \div 1024) % 2 = 0 /\ ((a * 4096) \div 2048) % 2 = 0
  OBVIOUS
<1>2. /\ Bit(a * 4096, 0) = 0 /\ Bit(a * 4096, 1) = 0 /\ Bit(a * 4096, 2) = 0 /\ Bit(a * 4096, 3) = 0
      /\ Bit(a * 4096, 4) = 0 /\ Bit(a * 4096, 5) = 0 /\ Bit(a * 4096, 6) = 0 /\ Bit(a * 4096, 7) = 0
      /\ Bit(a * 4096, 8) = 0 /\ Bit(a * 4096, 9) = 0 /\ Bit(a * 4096, 10) = 0 /\ Bit(a * 4096, 11) = 0
  BY <1>1, Powers DEF Bit
<1> QED  BY <1>2

\* The low byte and that digit leave the bits of the last.
LEMMA Middle ==
  ASSUME NEW a \in 0 .. 255, NEW b \in 0 .. 15
  PROVE  \A j \in 8 .. 11 : Bit(a + b * 4096, j) = 0
<1>1. /\ ((a + b * 4096) \div 256) % 2 = 0 /\ ((a + b * 4096) \div 512) % 2 = 0 /\ ((a + b * 4096) \div 1024) % 2 = 0 /\ ((a + b * 4096) \div 2048) % 2 = 0
  OBVIOUS
<1>2. /\ Bit(a + b * 4096, 8) = 0 /\ Bit(a + b * 4096, 9) = 0 /\ Bit(a + b * 4096, 10) = 0 /\ Bit(a + b * 4096, 11) = 0
  BY <1>1, Powers DEF Bit
<1> QED  BY <1>2

\* The last digit has none below them.
LEMMA FourthDigit ==
  ASSUME NEW a \in 0 .. 15
  PROVE  \A j \in 0 .. 7 : Bit(a * 256, j) = 0
<1>1. /\ ((a * 256) \div 1) % 2 = 0 /\ ((a * 256) \div 2) % 2 = 0 /\ ((a * 256) \div 4) % 2 = 0 /\ ((a * 256) \div 8) % 2 = 0
      /\ ((a * 256) \div 16) % 2 = 0 /\ ((a * 256) \div 32) % 2 = 0 /\ ((a * 256) \div 64) % 2 = 0 /\ ((a * 256) \div 128) % 2 = 0
  OBVIOUS
<1>2. /\ Bit(a * 256, 0) = 0 /\ Bit(a * 256, 1) = 0 /\ Bit(a * 256, 2) = 0 /\ Bit(a * 256, 3) = 0
      /\ Bit(a * 256, 4) = 0 /\ Bit(a * 256, 5) = 0 /\ Bit(a * 256, 6) = 0 /\ Bit(a * 256, 7) = 0
  BY <1>1, Powers DEF Bit
<1> QED  BY <1>2

\* And none above them.
LEMMA FourthDigitEnds ==
  ASSUME NEW a \in 0 .. 15
  PROVE  \A j \in 12 .. 15 : Bit(a * 256, j) = 0
<1>1. /\ ((a * 256) \div 4096) % 2 = 0 /\ ((a * 256) \div 8192) % 2 = 0 /\ ((a * 256) \div 16384) % 2 = 0 /\ ((a * 256) \div 32768) % 2 = 0
  OBVIOUS
<1>2. /\ Bit(a * 256, 12) = 0 /\ Bit(a * 256, 13) = 0 /\ Bit(a * 256, 14) = 0 /\ Bit(a * 256, 15) = 0
  BY <1>1, Powers DEF Bit
<1> QED  BY <1>2

\* The four digits of a word, in the order in which they are set, have no bit in
\* common.
DigitsMeet(a, b, e, d) ==
    /\ Or(16, 0, a * 16) = a * 16
    /\ Or(16, a * 16, b * 1) = a * 16 + b
    /\ Or(16, a * 16 + b, e * 4096) = a * 16 + b + e * 4096
    /\ Or(16, a * 16 + b + e * 4096, d * 256) = a * 16 + b + e * 4096 + d * 256
    /\ a * 16 + b + e * 4096 + d * 256 \in Nat /\ a * 16 + b + e * 4096 + d * 256 < 65536

\* Their bits are apart.
LEMMA DigitsOfWord ==
  ASSUME NEW a \in 0 .. 15, NEW b \in 0 .. 15, NEW e \in 0 .. 15, NEW d \in 0 .. 15
  PROVE  DigitsMeet(a, b, e, d)
<1> DEFINE n == 16
           zero == 0
           la == a * 16
           lb == b * 1
           le == e * 4096
           ld == d * 256
           low == la + b
           most == low + le
<1>0. n \in 0 .. 16 /\ n - 1 = 15 /\ zero \in Nat /\ la \in Nat /\ lb \in Nat /\ le \in Nat /\ ld \in Nat
      /\ low \in Nat /\ most \in Nat /\ low \in 0 .. 255
  OBVIOUS
<1>1. \A j \in 0 .. 15 : Bit(zero, j) = 0  BY NoBits
<1>2. \A j \in 0 .. 3 : Bit(la, j) = 0  BY FirstDigit
<1>3. \A j \in 4 .. 15 : Bit(lb, j) = 0  BY SecondDigit
<1>4. \A j \in 8 .. 15 : Bit(low, j) = 0
  <2> HIDE DEF low
  <2> QED  BY ONLY <1>0, LowByte
<1>5. \A j \in 0 .. 11 : Bit(le, j) = 0  BY ThirdDigit
<1>6. \A j \in 8 .. 11 : Bit(most, j) = 0
  <2> HIDE DEF low
  <2> QED  BY ONLY <1>0, Middle
<1>7. /\ \A j \in 0 .. 7 : Bit(ld, j) = 0
      /\ \A j \in 12 .. 15 : Bit(ld, j) = 0
  BY FourthDigit, FourthDigitEnds
<1>8. /\ lb = b /\ la + lb = low /\ zero + la = la
  OBVIOUS
<1>9. la * 1 = la  OBVIOUS
<1> HIDE DEF n, zero, la, lb, le, ld, low, most
<1>10. And(n, zero, la) = 0
  <2>1. \A j \in 0 .. n - 1 : Bit(zero, j) = 0 \/ Bit(la, j) = 0  BY <1>0, <1>1
  <2> QED  BY <1>0, <2>1, Disjoint
<1>11. And(n, la, lb) = 0
  <2>1. \A j \in 0 .. n - 1 : Bit(la, j) = 0 \/ Bit(lb, j) = 0  BY <1>0, <1>2, <1>3
  <2> QED  BY <1>0, <2>1, Disjoint
<1>12. And(n, low, le) = 0
  <2>1. \A j \in 0 .. n - 1 : Bit(low, j) = 0 \/ Bit(le, j) = 0  BY <1>0, <1>4, <1>5
  <2> QED  BY <1>0, <2>1, Disjoint
<1>13. And(n, most, ld) = 0
  <2>1. \A j \in 0 .. n - 1 : Bit(most, j) = 0 \/ Bit(ld, j) = 0  BY <1>0, <1>6, <1>7
  <2> QED  BY <1>0, <2>1, Disjoint
<1>14. Or(n, zero, la) = la  BY <1>0, <1>10 DEF Or, zero
<1>15. Or(n, la, lb) = low  BY <1>0, <1>8, <1>11 DEF Or
<1>16. Or(n, low, le) = low + le  BY <1>0, <1>12 DEF Or
<1>17. Or(n, most, ld) = most + ld  BY <1>0, <1>13 DEF Or
<1>18. a * 16 + b + e * 4096 + d * 256 \in Nat /\ a * 16 + b + e * 4096 + d * 256 < 65536
  <2>1. a <= 15 /\ b <= 15 /\ e <= 15 /\ d <= 15 /\ a \in Nat /\ b \in Nat /\ e \in Nat /\ d \in Nat  OBVIOUS
  <2> QED  BY <2>1
<1> QED  BY ONLY <1>14, <1>15, <1>16, <1>17, <1>18 DEF DigitsMeet, n, zero, la, lb, le, ld, low, most

----------------------------------------------------------------------------
(* An address that is set: its digits, its words, and which are refused.   *)

\* What is asked for at a place, as a number.
Wanted(c, place) == hextonum(Char(c, place), c.drawn[place + 1])

\* The places of a call.
LEMMA PlaceIs ==
  ASSUME NEW c \in MacCalls, Len(c.str) = 17, NEW place \in 0 .. 16
  PROVE  Char(c, place) \in 0 .. 255 /\ c.drawn[place + 1] \in 0 .. 15
<1> DEFINE i == place + 1
           B == 0 .. 255
           D == 0 .. 15
           P == 1 .. 17
<1>1. c.str \in Seq(B) /\ c.drawn \in [P -> D]  BY DEF MacCalls
<1>2. i \in P /\ i \in 1 .. Len(c.str)  OBVIOUS
<1>3. Char(c, place) = c.str[i] /\ c.drawn[place + 1] = c.drawn[i]  BY DEF Char
<1> HIDE DEF i, B, D, P
<1>4. c.str[i] \in B /\ c.drawn[i] \in D  BY ONLY <1>1, <1>2
<1> QED  BY ONLY <1>3, <1>4 DEF B, D

\* A nibble is what is asked for, but that the second, if left to chance, makes
\* the address a local one of one machine.
NibbleOf(c, byte, nib) ==
    /\ Nibble(c, byte, nib) \in 0 .. 15
    /\ byte = 0 /\ nib = 1 /\ Char(c, 1) \in Random =>
         Nibble(c, byte, nib) % 2 = 0 /\ (Nibble(c, byte, nib) \div 2) % 2 = 1
    /\ byte # 0 \/ nib # 1 \/ Char(c, 1) \notin Random =>
         Nibble(c, byte, nib) = Wanted(c, 3 * byte + nib)

\* It is one, if its character stands for a number.
LEMMA NibbleIs ==
  ASSUME NEW c \in MacCalls, Len(c.str) = 17, NEW byte \in 0 .. 5, NEW nib \in 0 .. 1,
         NEW place, place = 3 * byte + nib, Wanted(c, place) <= 15
  PROVE  NibbleOf(c, byte, nib)
<1> DEFINE ch == Char(c, place)
           h == Wanted(c, place)
<1>1. place \in 0 .. 16 /\ (byte = 0 /\ nib = 1 => place = 1)  OBVIOUS
<1>2. ch \in 0 .. 255 /\ c.drawn[place + 1] \in 0 .. 15  BY <1>1, PlaceIs
<1>3. h \in 0 .. 15
  <2>1. h \in 0 .. 16
    <3> DEFINE r == c.drawn[place + 1]
    <3>1. h = hextonum(ch, r)  BY DEF Wanted
    <3>2. ch \in 0 .. 255 /\ r \in 0 .. 15  BY <1>2
    <3> HIDE DEF ch, r, h
    <3>3. HexFits(ch, r)  BY ONLY <3>2, HexIs, Zenon
    <3> QED  BY <3>1, <3>3 DEF HexFits
  <2>2. h <= 15  OBVIOUS
  <2> HIDE DEF h
  <2> QED  BY <2>1, <2>2
<1>4. Lower(ch) = 120 \/ ch = 63 <=> ch \in Random
  <2> HIDE DEF ch
  <2>1. IsAsked(ch)  BY <1>2, Asked
  <2> QED  BY <2>1 DEF IsAsked, Random
<1>5. Nibble(c, byte, nib) =
        IF byte = 0 /\ nib = 1 /\ (Lower(ch) = 120 \/ ch = 63) THEN Or(4, And(4, h, 14), 2) ELSE h
  BY DEF Nibble, Wanted
<1> DEFINE u == Or(4, And(4, h, 14), 2)
<1>6. u \in 0 .. 15 /\ u % 2 = 0 /\ (u \div 2) % 2 = 1
  <2> HIDE DEF h
  <2> QED  BY <1>3, ChanceIs
<1>7. byte = 0 /\ nib = 1 => ch = Char(c, 1)  BY <1>1
<1> HIDE DEF u, h, ch
<1>8. CASE byte = 0 /\ nib = 1 /\ ch \in Random
  <2>1. Nibble(c, byte, nib) = u  BY <1>4, <1>5, <1>8 DEF u
  <2> QED  BY <1>6, <1>7, <1>8, <2>1 DEF NibbleOf
<1>9. CASE ~(byte = 0 /\ nib = 1 /\ ch \in Random)
  <2>1. Nibble(c, byte, nib) = h  BY <1>4, <1>5, <1>9
  <2>2. h = Wanted(c, 3 * byte + nib)  BY DEF h
  <2> QED  BY <1>3, <1>7, <1>9, <2>1, <2>2 DEF NibbleOf
<1> QED  BY <1>8, <1>9

\* A word whose four digits are numbers.
WordOf(c, word, w) ==
    /\ word = Nibble(c, 2 * w, 0) * 16 + Nibble(c, 2 * w, 1)
              + Nibble(c, 2 * w + 1, 0) * 4096 + Nibble(c, 2 * w + 1, 1) * 256
    /\ word \in Nat /\ word < 65536

\* A word is its four digits.
LEMMA WordIs ==
  ASSUME NEW c, NEW w \in 0 .. 2,
         Nibble(c, 2 * w, 0) \in 0 .. 15, Nibble(c, 2 * w, 1) \in 0 .. 15,
         Nibble(c, 2 * w + 1, 0) \in 0 .. 15, Nibble(c, 2 * w + 1, 1) \in 0 .. 15
  PROVE  WordOf(c, mac_buf(c)[w], w)
<1> DEFINE a == Nibble(c, 2 * w, 0)
           b == Nibble(c, 2 * w, 1)
           e == Nibble(c, 2 * w + 1, 0)
           d == Nibble(c, 2 * w + 1, 1)
<1> DEFINE lo == 2 * w
           hi == 2 * w + 1
<1>1. /\ 2 ^ Shift(lo, 0) = 16 /\ 2 ^ Shift(lo, 1) = 1
      /\ 2 ^ Shift(hi, 0) = 4096 /\ 2 ^ Shift(hi, 1) = 256
  <2>1. Shift(lo, 0) = 4 /\ Shift(lo, 1) = 0 /\ Shift(hi, 0) = 12 /\ Shift(hi, 1) = 8
    <3>1. lo % 2 = 0 /\ hi % 2 = 1  OBVIOUS
    <3> HIDE DEF lo, hi
    <3>2. Shift(lo, 0) = 4 /\ Shift(lo, 1) = 0  BY ONLY <3>1 DEF Shift
    <3>3. Shift(hi, 0) = 12 /\ Shift(hi, 1) = 8  BY ONLY <3>1 DEF Shift
    <3> QED  BY <3>2, <3>3
  <2> HIDE DEF lo, hi
  <2>4. 2 ^ 4 = 16 /\ 2 ^ 0 = 1 /\ 2 ^ 12 = 4096 /\ 2 ^ 8 = 256  BY ONLY Powers
  <2>5. 2 ^ Shift(lo, 0) = 2 ^ 4 /\ 2 ^ Shift(lo, 1) = 2 ^ 0  BY ONLY <2>1, Zenon
  <2>6. 2 ^ Shift(hi, 0) = 2 ^ 12 /\ 2 ^ Shift(hi, 1) = 2 ^ 8  BY ONLY <2>1, Zenon
  <2> DEFINE p == 2 ^ Shift(lo, 0)
             q == 2 ^ Shift(lo, 1)
             r == 2 ^ Shift(hi, 0)
             t == 2 ^ Shift(hi, 1)
  <2>7. p = 2 ^ 4 /\ q = 2 ^ 0 /\ r = 2 ^ 12 /\ t = 2 ^ 8  BY ONLY <2>5, <2>6
  <2> HIDE DEF p, q, r, t
  <2>8. p = 16 /\ q = 1 /\ r = 4096 /\ t = 256  BY ONLY <2>4, <2>7
  <2> QED  BY ONLY <2>8 DEF p, q, r, t, lo, hi
<1>2. mac_buf(c)[w] = set_mac_byte(set_mac_byte(0, c, lo), c, hi)  BY DEF mac_buf
<1>5. a \in 0 .. 15 /\ b \in 0 .. 15 /\ e \in 0 .. 15 /\ d \in 0 .. 15  OBVIOUS
<1> HIDE DEF a, b, e, d
<1>0. a = Nibble(c, lo, 0) /\ b = Nibble(c, lo, 1) /\ e = Nibble(c, hi, 0) /\ d = Nibble(c, hi, 1)
  BY DEF a, b, e, d
<1> HIDE DEF lo, hi
<1>3. \A word : set_mac_byte(word, c, lo) = Or(16, Or(16, word, a * 16), b * 1)
  <2> TAKE word
  <2>1. \A u : set_mac_nib(u, c, lo, 0) = Or(16, u, a * 16)
    BY ONLY <1>0, <1>1 DEF set_mac_nib
  <2>2. \A u : set_mac_nib(u, c, lo, 1) = Or(16, u, b * 1)
    BY ONLY <1>0, <1>1 DEF set_mac_nib
  <2> QED  BY ONLY <2>1, <2>2 DEF set_mac_byte
<1>4. \A word : set_mac_byte(word, c, hi) = Or(16, Or(16, word, e * 4096), d * 256)
  <2> TAKE word
  <2>1. \A u : set_mac_nib(u, c, hi, 0) = Or(16, u, e * 4096)
    BY ONLY <1>0, <1>1 DEF set_mac_nib
  <2>2. \A u : set_mac_nib(u, c, hi, 1) = Or(16, u, d * 256)
    BY ONLY <1>0, <1>1 DEF set_mac_nib
  <2> QED  BY ONLY <2>1, <2>2 DEF set_mac_byte
<1>8. DigitsMeet(a, b, e, d)  BY ONLY <1>5, DigitsOfWord, Zenon
<1>6. mac_buf(c)[w] = a * 16 + b + e * 4096 + d * 256
  <2>2. set_mac_byte(0, c, lo) = a * 16 + b  BY ONLY <1>3, <1>8 DEF DigitsMeet
  <2>3. set_mac_byte(a * 16 + b, c, hi) = a * 16 + b + e * 4096 + d * 256  BY ONLY <1>4, <1>8 DEF DigitsMeet
  <2> QED  BY ONLY <1>2, <2>2, <2>3
<1>7. a * 16 + b + e * 4096 + d * 256 \in Nat /\ a * 16 + b + e * 4096 + d * 256 < 65536  BY ONLY <1>8 DEF DigitsMeet
<1> QED  BY ONLY <1>6, <1>7 DEF WordOf, a, b, e, d

\* The places of the digits.
LEMMA DigitPlaces ==
  /\ \A byte \in 0 .. 5, nib \in 0 .. 1 :
       /\ 3 * byte + nib \in MacPositions
       /\ (3 * byte + nib) \div 3 = byte /\ (3 * byte + nib) % 3 = nib
  /\ \A spot \in MacPositions : spot \in 0 .. 16 /\ \E byte \in 0 .. 5, nib \in 0 .. 1 : spot = 3 * byte + nib
  /\ \A spot \in 0 .. 16 : spot \notin MacPositions => \E byte \in 0 .. 4 : spot = 3 * byte + 2
  /\ \A byte \in 0 .. 4 : 3 * byte + 2 \in 0 .. 16 /\ 3 * byte + 2 \notin MacPositions
<1>1. ASSUME NEW byte \in 0 .. 5, NEW nib \in 0 .. 1
      PROVE  /\ 3 * byte + nib \in MacPositions
             /\ (3 * byte + nib) \div 3 = byte /\ (3 * byte + nib) % 3 = nib
  <2> DEFINE p == 3 * byte + nib
  <2>1. p \in 0 .. 16 /\ p \div 3 = byte /\ p % 3 = nib  OBVIOUS
  <2> HIDE DEF p
  <2>2. p \in MacPositions  BY <2>1 DEF MacPositions
  <2> QED  BY <2>1, <2>2 DEF p
<1>2. ASSUME NEW spot \in 0 .. 16 
      PROVE  /\ spot \in MacPositions => \E byte \in 0 .. 5, nib \in 0 .. 1 : spot = 3 * byte + nib
             /\ spot \notin MacPositions => \E byte \in 0 .. 4 : spot = 3 * byte + 2
  <2> DEFINE byte == spot \div 3
             nib == spot % 3
  <2>1. spot = 3 * byte + nib /\ byte \in 0 .. 5 /\ nib \in 0 .. 2 /\ (nib = 2 => byte \in 0 .. 4)
    OBVIOUS
  <2>2. spot \in MacPositions <=> nib # 2  BY DEF MacPositions
  <2> HIDE DEF byte, nib
  <2>3. CASE nib = 2  BY <2>1, <2>2, <2>3
  <2>4. CASE nib # 2
    <3>1. nib \in 0 .. 1  BY <2>1, <2>4
    <3> QED  BY <2>1, <2>2, <2>4, <3>1
  <2> QED  BY <2>3, <2>4
<1>3. MacPositions \subseteq 0 .. 16  BY DEF MacPositions
<1>4. ASSUME NEW byte \in 0 .. 4
      PROVE  3 * byte + 2 \in 0 .. 16 /\ 3 * byte + 2 \notin MacPositions
  <2> DEFINE p == 3 * byte + 2
  <2>1. p \in 0 .. 16 /\ p % 3 = 2  OBVIOUS
  <2> HIDE DEF p
  <2>2. p \notin MacPositions  BY <2>1 DEF MacPositions
  <2> QED  BY <2>1, <2>2 DEF p
<1> QED  BY <1>1, <1>2, <1>3, <1>4

\* Each character stands for a number, and so each byte and word is made of two and
\* four of these.
Numbered(c) == c \in MacCalls /\ Len(c.str) = 17 /\ \A spot \in MacPositions : Wanted(c, spot) <= 15

BytesOf(c, buf) ==
    /\ \A byte \in 0 .. 5, nib \in 0 .. 1 :
         NibbleOf(c, byte, nib) /\ MacDigit(buf, 3 * byte + nib) = Nibble(c, byte, nib)
    /\ \A byte \in 0 .. 5 : MacByte(buf, byte) = 16 * Nibble(c, byte, 0) + Nibble(c, byte, 1)
    /\ \A w \in 0 .. 2 : WordOf(c, buf[w], w)

\* They are, when each character stands for a number.
LEMMA BytesAre ==
  ASSUME NEW c, Numbered(c)
  PROVE  BytesOf(c, mac_buf(c))
<1> DEFINE buf == mac_buf(c)
<1>1. ASSUME NEW byte \in 0 .. 5, NEW nib \in 0 .. 1
      PROVE  NibbleOf(c, byte, nib) /\ Nibble(c, byte, nib) \in 0 .. 15
  <2> DEFINE place == 3 * byte + nib
  <2>1. place \in MacPositions  BY DigitPlaces
  <2>2. Wanted(c, place) <= 15 /\ c \in MacCalls /\ Len(c.str) = 17  BY <2>1 DEF Numbered
  <2>3. NibbleOf(c, byte, nib)
    <3>1. place = 3 * byte + nib  OBVIOUS
    <3> HIDE DEF place
    <3> QED  BY <2>2, <3>1, NibbleIs
  <2> QED  BY <2>3 DEF NibbleOf
<1>2. ASSUME NEW w \in 0 .. 2
      PROVE  WordOf(c, buf[w], w)
  <2>1. 2 * w \in 0 .. 5 /\ 2 * w + 1 \in 0 .. 5 /\ 0 \in 0 .. 1 /\ 1 \in 0 .. 1  OBVIOUS
  <2>2. /\ Nibble(c, 2 * w, 0) \in 0 .. 15 /\ Nibble(c, 2 * w, 1) \in 0 .. 15
        /\ Nibble(c, 2 * w + 1, 0) \in 0 .. 15 /\ Nibble(c, 2 * w + 1, 1) \in 0 .. 15
    BY ONLY <1>1, <2>1
  <2> QED  BY <2>2, WordIs
<1> HIDE DEF buf
<1>3. ASSUME NEW byte \in 0 .. 5
      PROVE  MacByte(buf, byte) = 16 * Nibble(c, byte, 0) + Nibble(c, byte, 1)
  <2> DEFINE w == byte \div 2
             word == buf[w]
  <2>1. w \in 0 .. 2  OBVIOUS
  <2>2. WordOf(c, word, w)
    <3> HIDE DEF w
    <3> QED  BY <2>1, <1>2
  <2> DEFINE a == Nibble(c, 2 * w, 0)
             b == Nibble(c, 2 * w, 1)
             e == Nibble(c, 2 * w + 1, 0)
             d == Nibble(c, 2 * w + 1, 1)
  <2>3. a \in 0 .. 15 /\ b \in 0 .. 15 /\ e \in 0 .. 15 /\ d \in 0 .. 15
    <3>1. 2 * w \in 0 .. 5 /\ 2 * w + 1 \in 0 .. 5 /\ 0 \in 0 .. 1 /\ 1 \in 0 .. 1  BY <2>1
    <3> HIDE DEF w
    <3> QED  BY ONLY <1>1, <3>1
  <2>4. word = a * 16 + b + e * 4096 + d * 256
    <3> HIDE DEF w
    <3> QED  BY ONLY <2>2 DEF WordOf, a, b, e, d
  <2>5. byte = 2 * w \/ byte = 2 * w + 1  OBVIOUS
  <2>6. MacByte(buf, byte) = (word \div 256 ^ (byte % 2)) % 256  BY DEF MacByte
  <2>7. 256 ^ 0 = 1 /\ 256 ^ 1 = 256  OBVIOUS
  <2>8. CASE byte = 2 * w
    <3>1. byte % 2 = 0  BY <2>8, <2>1
    <3>2. MacByte(buf, byte) = word % 256
      <4>1. (word \div 1) = word
        <5> HIDE DEF word, a, b, e, d
        <5> QED  BY <2>3, <2>4
      <4> HIDE DEF word, w
      <4> QED  BY ONLY <2>6, <2>7, <3>1, <4>1, Zenon
    <3>3. word % 256 = a * 16 + b
      <4> HIDE DEF word, a, b, e, d
      <4> QED  BY <2>3, <2>4
    <3>4. Nibble(c, byte, 0) = a /\ Nibble(c, byte, 1) = b  BY <2>8
    <3> HIDE DEF word, w, a, b
    <3> QED  BY <2>3, <3>2, <3>3, <3>4
  <2>9. CASE byte = 2 * w + 1
    <3>1. byte % 2 = 1  BY <2>9, <2>1
    <3>2. MacByte(buf, byte) = (word \div 256) % 256
      <4> HIDE DEF word, w
      <4> QED  BY ONLY <2>6, <2>7, <3>1, Zenon
    <3>3. (word \div 256) % 256 = e * 16 + d
      <4> HIDE DEF word, a, b, e, d
      <4> QED  BY <2>3, <2>4
    <3>4. Nibble(c, byte, 0) = e /\ Nibble(c, byte, 1) = d  BY <2>9
    <3> HIDE DEF word, w, e, d
    <3> QED  BY <2>3, <3>2, <3>3, <3>4
  <2> QED  BY <2>5, <2>8, <2>9
<1>4. ASSUME NEW byte \in 0 .. 5, NEW nib \in 0 .. 1
      PROVE  MacDigit(buf, 3 * byte + nib) = Nibble(c, byte, nib)
  <2> DEFINE spot == 3 * byte + nib
             a == Nibble(c, byte, 0)
             b == Nibble(c, byte, 1)
  <2>1. spot \div 3 = byte /\ spot % 3 = nib  BY DigitPlaces
  <2>2. a \in 0 .. 15 /\ b \in 0 .. 15  BY <1>1
  <2>3. MacByte(buf, byte) = 16 * a + b  BY <1>3
  <2> HIDE DEF spot, a, b
  <2>4. MacDigit(buf, spot) = IF nib = 0 THEN (16 * a + b) \div 16 ELSE (16 * a + b) % 16
    BY ONLY <2>1, <2>3 DEF MacDigit
  <2>5. (16 * a + b) \div 16 = a /\ (16 * a + b) % 16 = b  BY <2>2
  <2>6. nib = 0 \/ nib = 1  OBVIOUS
  <2>7. MacDigit(buf, spot) = Nibble(c, byte, nib)
    BY ONLY <2>4, <2>5, <2>6 DEF a, b
  <2> QED  BY <2>7 DEF spot
<1> QED  BY ONLY <1>1, <1>2, <1>3, <1>4 DEF BytesOf, buf

\* A character that stands for a number.
LEMMA WantedIs ==
  ASSUME NEW c \in MacCalls, Len(c.str) = 17, NEW spot \in 0 .. 16
  PROVE  /\ Wanted(c, spot) <= 15 <=> Char(c, spot) \in DOMAIN Digits \cup Random \cup {31}
         /\ Char(c, spot) \in DOMAIN Digits => Wanted(c, spot) = Digits[Char(c, spot)]
         /\ Char(c, spot) \in DOMAIN Digits => Char(c, spot) \notin Random
<1> DEFINE ch == Char(c, spot)
           r == c.drawn[spot + 1]
           h == Wanted(c, spot)
<1>1. ch \in 0 .. 255 /\ r \in 0 .. 15  BY PlaceIs
<1>2. h = hextonum(ch, r)  BY DEF Wanted
<1>3. DOMAIN Digits = (48 .. 57) \cup (65 .. 70) \cup (97 .. 102)  BY DEF Digits
<1> HIDE DEF ch, r, h
<1>4. HexFits(ch, r)  BY ONLY <1>1, HexIs, Zenon
<1>5. ch \in DOMAIN Digits => h = Digits[ch] /\ h \in 0 .. 15  BY ONLY <1>2, <1>4 DEF HexFits
<1>6. ch \in Random \cup {31} => h \in 0 .. 15
  <2>1. ch \in Random \cup {31} => h = r  BY ONLY <1>2, <1>4 DEF HexFits
  <2> QED  BY ONLY <1>1, <2>1
<1>7. ch \notin DOMAIN Digits \cup Random \cup {31} => h = 16  BY ONLY <1>2, <1>4 DEF HexFits
<1>8. h <= 15 <=> ch \in DOMAIN Digits \cup Random \cup {31}  BY ONLY <1>5, <1>6, <1>7
<1>9. ch \in DOMAIN Digits => ch \notin Random  BY <1>3 DEF Random
<1> QED  BY ONLY <1>5, <1>8, <1>9 DEF ch, h

\* When a string is refused, and when it is set.
Unfit(c) ==
    \/ Len(c.str) # 17
    \/ \E byte \in 0 .. 4 : Char(c, 3 * byte + 2) # 58
    \/ ~Numbered(c)

NoMachine(buf) == (\A w \in 0 .. 2 : buf[w] = 0) \/ And(1, buf[0], 1) = 1

\* A string is refused when it is unfit, or no machine has its address.
LEMMA ParsedIs ==
  ASSUME NEW c \in MacCalls
  PROVE  parse_mac_string(c) = IF Unfit(c) \/ NoMachine(mac_buf(c)) THEN Refused ELSE mac_buf(c)
<1>1. CASE Len(c.str) # 17  BY <1>1 DEF parse_mac_string, Unfit
<1>2. CASE Len(c.str) = 17
  <2> DEFINE Beyond(byte, nib) == hextonum(Char(c, 3 * byte + nib), c.drawn[3 * byte + nib + 1]) > 15
  <2>1. (\E byte \in 0 .. 5, nib \in {0, 1} : Beyond(byte, nib)) <=> ~Numbered(c)
    <3>1. \A byte \in 0 .. 5, nib \in 0 .. 1 : Beyond(byte, nib) <=> ~(Wanted(c, 3 * byte + nib) <= 15)
      <4> TAKE byte \in 0 .. 5, nib \in 0 .. 1
      <4> DEFINE p == 3 * byte + nib
                 h == Wanted(c, p)
      <4>1. p \in 0 .. 16  OBVIOUS
      <4>2. Char(c, p) \in 0 .. 255 /\ c.drawn[p + 1] \in 0 .. 15
        <5> HIDE DEF p
        <5> QED  BY <1>2, <4>1, PlaceIs
      <4>3. h \in 0 .. 16
        <5> DEFINE ch == Char(c, p)
                   r == c.drawn[p + 1]
        <5>1. h = hextonum(ch, r)  BY DEF Wanted
        <5>2. ch \in 0 .. 255 /\ r \in 0 .. 15  BY <4>2
        <5> HIDE DEF ch, r, h
        <5>3. HexFits(ch, r)  BY ONLY <5>2, HexIs, Zenon
        <5> QED  BY ONLY <5>1, <5>3 DEF HexFits
      <4>4. Beyond(byte, nib) <=> h > 15  BY DEF Wanted
      <4> HIDE DEF h, Beyond
      <4>5. h > 15 <=> ~(h <= 15)  BY <4>3
      <4> QED  BY <4>4, <4>5 DEF h, p
    <3>2. {0, 1} = 0 .. 1  OBVIOUS
    <3> HIDE DEF Beyond
    <3>3. ASSUME NEW spot \in MacPositions, ~(Wanted(c, spot) <= 15)
          PROVE  \E byte \in 0 .. 5, nib \in 0 .. 1 : Beyond(byte, nib)
      <4>1. PICK byte \in 0 .. 5, nib \in 0 .. 1 : spot = 3 * byte + nib  BY DigitPlaces
      <4>2. Beyond(byte, nib)  BY <3>1, <3>3, <4>1
      <4> QED  BY <4>2
    <3>4. ASSUME NEW byte \in 0 .. 5, NEW nib \in 0 .. 1, Beyond(byte, nib)
          PROVE  \E spot \in MacPositions : ~(Wanted(c, spot) <= 15)
      <4>1. 3 * byte + nib \in MacPositions  BY DigitPlaces
      <4> QED  BY <3>1, <3>4, <4>1
    <3> QED  BY <1>2, <3>2, <3>3, <3>4 DEF Numbered
  <2> QED  BY <1>2, <2>1, Zenon DEF parse_mac_string, Unfit, NoMachine
<1> QED  BY <1>1, <1>2

\* The bits of the first byte, and of the words.
LEMMA FirstByte ==
  ASSUME NEW c, Numbered(c), NEW buf, BytesOf(c, buf)
  PROVE  /\ MacByte(buf, 0) % 2 = Nibble(c, 0, 1) % 2
         /\ (MacByte(buf, 0) \div 2) % 2 = (Nibble(c, 0, 1) \div 2) % 2
         /\ buf[0] % 2 = Nibble(c, 0, 1) % 2
         /\ buf[0] \in Nat
<1> DEFINE a == Nibble(c, 0, 0)
           b == Nibble(c, 0, 1)
           e == Nibble(c, 1, 0)
           d == Nibble(c, 1, 1)
           word == buf[0]
           first == MacByte(buf, 0)
<1>1. a \in 0 .. 15 /\ b \in 0 .. 15 /\ e \in 0 .. 15 /\ d \in 0 .. 15
  <2>1. 0 \in 0 .. 5 /\ 1 \in 0 .. 5 /\ 0 \in 0 .. 1 /\ 1 \in 0 .. 1  OBVIOUS
  <2> QED  BY ONLY <2>1, BytesOf(c, buf) DEF BytesOf, NibbleOf
<1>2. first = 16 * a + b
  <2>1. 0 \in 0 .. 5  OBVIOUS
  <2> QED  BY ONLY <2>1, BytesOf(c, buf) DEF BytesOf
<1>3. word = a * 16 + b + e * 4096 + d * 256 /\ word \in Nat
  <2>1. 0 \in 0 .. 2  OBVIOUS
  <2>2. WordOf(c, word, 0)  BY ONLY <2>1, BytesOf(c, buf) DEF BytesOf
  <2>3. 2 * 0 = 0 /\ 2 * 0 + 1 = 1  OBVIOUS
  <2> HIDE DEF word
  <2> QED  BY <2>2, <2>3 DEF WordOf
<1> HIDE DEF a, b, e, d, word, first
<1>4. first % 2 = b % 2 /\ (first \div 2) % 2 = (b \div 2) % 2  BY <1>1, <1>2
<1>5. word % 2 = b % 2  BY <1>1, <1>3
<1> QED  BY ONLY <1>3, <1>4, <1>5 DEF first, word, b

\* Bytes that are all zero, and words.
LEMMA AllZero ==
  ASSUME NEW c, Numbered(c), NEW buf, BytesOf(c, buf)
  PROVE  /\ (\A w \in 0 .. 2 : buf[w] = 0) => \A byte \in 0 .. 5, nib \in 0 .. 1 : Nibble(c, byte, nib) = 0
         /\ (\A k \in 0 .. 5 : MacByte(buf, k) = 0) => \A w \in 0 .. 2 : buf[w] = 0
<1>0. \A byte \in 0 .. 5, nib \in 0 .. 1 : Nibble(c, byte, nib) \in 0 .. 15
  BY DEF BytesOf, NibbleOf
<1>1. ASSUME \A w \in 0 .. 2 : buf[w] = 0, NEW byte \in 0 .. 5
      PROVE  Nibble(c, byte, 0) = 0 /\ Nibble(c, byte, 1) = 0
  <2> DEFINE w == byte \div 2
             a == Nibble(c, 2 * w, 0)
             b == Nibble(c, 2 * w, 1)
             e == Nibble(c, 2 * w + 1, 0)
             d == Nibble(c, 2 * w + 1, 1)
             word == buf[w]
  <2>1. w \in 0 .. 2 /\ (byte = 2 * w \/ byte = 2 * w + 1)  OBVIOUS
  <2>2. a \in 0 .. 15 /\ b \in 0 .. 15 /\ e \in 0 .. 15 /\ d \in 0 .. 15
    <3>1. 2 * w \in 0 .. 5 /\ 2 * w + 1 \in 0 .. 5 /\ 0 \in 0 .. 1 /\ 1 \in 0 .. 1  BY <2>1
    <3> HIDE DEF w
    <3> QED  BY ONLY <1>0, <3>1
  <2>3. word = a * 16 + b + e * 4096 + d * 256 /\ word = 0
    <3> HIDE DEF w
    <3>1. WordOf(c, word, w)  BY <2>1 DEF BytesOf
    <3>2. word = 0  BY <1>1, <2>1
    <3> QED  BY ONLY <3>1, <3>2 DEF WordOf, a, b, e, d
  <2>4. a = 0 /\ b = 0 /\ e = 0 /\ d = 0
    <3> HIDE DEF a, b, e, d, word
    <3> QED  BY <2>2, <2>3
  <2> HIDE DEF w
  <2> QED  BY ONLY <2>1, <2>4 DEF a, b, e, d
<1>2. ASSUME \A k \in 0 .. 5 : MacByte(buf, k) = 0, NEW w \in 0 .. 2
      PROVE  buf[w] = 0
  <2> DEFINE a == Nibble(c, 2 * w, 0)
             b == Nibble(c, 2 * w, 1)
             e == Nibble(c, 2 * w + 1, 0)
             d == Nibble(c, 2 * w + 1, 1)
             word == buf[w]
  <2>1. 2 * w \in 0 .. 5 /\ 2 * w + 1 \in 0 .. 5 /\ 0 \in 0 .. 1 /\ 1 \in 0 .. 1  OBVIOUS
  <2>2. a \in 0 .. 15 /\ b \in 0 .. 15 /\ e \in 0 .. 15 /\ d \in 0 .. 15  BY ONLY <1>0, <2>1
  <2>3. 16 * a + b = 0 /\ 16 * e + d = 0
    <3>1. \A k \in 0 .. 5 : 16 * Nibble(c, k, 0) + Nibble(c, k, 1) = 0
      <4>1. \A k \in 0 .. 5 : MacByte(buf, k) = 16 * Nibble(c, k, 0) + Nibble(c, k, 1)  BY DEF BytesOf
      <4> QED  BY ONLY <1>2, <4>1
    <3> QED  BY ONLY <2>1, <3>1
  <2>4. word = a * 16 + b + e * 4096 + d * 256
    <3>1. WordOf(c, word, w)  BY DEF BytesOf
    <3> QED  BY ONLY <3>1 DEF WordOf, a, b, e, d
  <2> HIDE DEF a, b, e, d, word
  <2>5. word = 0  BY <2>2, <2>3, <2>4
  <2> QED  BY <2>5 DEF word
<1>3. (\A w \in 0 .. 2 : buf[w] = 0) => \A byte \in 0 .. 5, nib \in 0 .. 1 : Nibble(c, byte, nib) = 0
  <2>1. \A nib \in 0 .. 1 : nib = 0 \/ nib = 1  OBVIOUS
  <2> QED  BY ONLY <1>1, <2>1
<1> QED  BY ONLY <1>2, <1>3

\* An address that is set.
LEMMA SetIs ==
  ASSUME NEW c, Numbered(c), NEW buf, BytesOf(c, buf),
         \A byte \in 0 .. 4 : Char(c, 3 * byte + 2) = 58, ~NoMachine(buf)
  PROVE  /\ \A spot \in MacPositions : Char(c, spot) \in DOMAIN Digits =>
              MacDigit(buf, spot) = Digits[Char(c, spot)]
         /\ MacByte(buf, 0) % 2 = 0
         /\ Char(c, 1) \in Random => (MacByte(buf, 0) \div 2) % 2 = 1
         /\ \E k \in 0 .. 5 : MacByte(buf, k) # 0
         /\ WellFormed([spot \in 1 .. 17 |-> IF c.str[spot] = 31 THEN 63 ELSE c.str[spot]])
<1>0. c \in MacCalls /\ Len(c.str) = 17  BY DEF Numbered
<1>1. ASSUME NEW spot \in MacPositions, Char(c, spot) \in DOMAIN Digits
      PROVE  MacDigit(buf, spot) = Digits[Char(c, spot)]
  <2>1. PICK byte \in 0 .. 5, nib \in 0 .. 1 : spot = 3 * byte + nib  BY DigitPlaces
  <2>2. NibbleOf(c, byte, nib) /\ MacDigit(buf, spot) = Nibble(c, byte, nib)  BY <2>1 DEF BytesOf
  <2>3. spot \in 0 .. 16  BY DigitPlaces
  <2>4. Wanted(c, spot) = Digits[Char(c, spot)] /\ Char(c, spot) \notin Random
    BY <1>0, <1>1, <2>3, WantedIs
  <2>5. byte # 0 \/ nib # 1 \/ Char(c, 1) \notin Random
    <3>1. byte = 0 /\ nib = 1 => spot = 1  BY <2>1
    <3> QED  BY <2>4, <3>1
  <2>6. Nibble(c, byte, nib) = Wanted(c, spot)  BY ONLY <2>1, <2>2, <2>5 DEF NibbleOf
  <2> QED  BY ONLY <2>2, <2>4, <2>6
<1>2. /\ MacByte(buf, 0) % 2 = buf[0] % 2 /\ buf[0] \in Nat
      /\ (MacByte(buf, 0) \div 2) % 2 = (Nibble(c, 0, 1) \div 2) % 2
  BY FirstByte
<1>3. MacByte(buf, 0) % 2 = 0
  <2> DEFINE word == buf[0]
  <2>1. And(1, word, 1) # 1 /\ word \in Nat  BY <1>2 DEF NoMachine
  <2> HIDE DEF word
  <2>2. word % 2 # 1  BY <2>1, OddIs
  <2>3. word % 2 = 0  BY <2>1, <2>2
  <2> QED  BY ONLY <1>2, <2>3 DEF word
<1>4. ASSUME Char(c, 1) \in Random PROVE (MacByte(buf, 0) \div 2) % 2 = 1
  <2>1. 0 \in 0 .. 5 /\ 1 \in 0 .. 1 /\ 0 = 0 /\ 1 = 1  OBVIOUS
  <2>2. NibbleOf(c, 0, 1)  BY ONLY <2>1, BytesOf(c, buf) DEF BytesOf
  <2>3. (Nibble(c, 0, 1) \div 2) % 2 = 1  BY ONLY <2>1, <2>2, <1>4 DEF NibbleOf
  <2> QED  BY ONLY <1>2, <2>3
<1>5. \E k \in 0 .. 5 : MacByte(buf, k) # 0
  <2>1. ~\A w \in 0 .. 2 : buf[w] = 0  BY DEF NoMachine
  <2> QED  BY <2>1, AllZero
<1>6. WellFormed([spot \in 1 .. 17 |-> IF c.str[spot] = 31 THEN 63 ELSE c.str[spot]])
  <2> DEFINE s == [spot \in 1 .. 17 |-> IF c.str[spot] = 31 THEN 63 ELSE c.str[spot]]
  <2>1. Len(s) = 17
    <3> DEFINE n == 17
               B == 0 .. 255
               t == [spot \in 1 .. n |-> IF c.str[spot] = 31 THEN 63 ELSE c.str[spot]]
    <3>1. n \in Nat /\ 63 \in B  OBVIOUS
    <3>2. \A spot \in 1 .. n : c.str[spot] \in B
      <4>1. c.str \in Seq(B)  BY <1>0 DEF MacCalls
      <4>2. Len(c.str) = n  BY <1>0
      <4> HIDE DEF n, B
      <4> QED  BY ONLY <4>1, <4>2
    <3> HIDE DEF n, B
    <3>3. t \in Seq(B) /\ DOMAIN t = 1 .. n  BY ONLY <3>1, <3>2
    <3> HIDE DEF t
    <3>4. Len(t) \in Nat /\ DOMAIN t = 1 .. Len(t)  BY <3>3, LenProperties
    <3>5. Len(t) = n  BY ONLY <3>1, <3>3, <3>4
    <3> QED  BY ONLY <3>5 DEF n, t
  <2>2. ASSUME NEW spot \in 0 .. 16
        PROVE  s[spot + 1] \in IF spot \in MacPositions THEN DOMAIN Digits \cup Random ELSE {58}
    <3> DEFINE ch == Char(c, spot)
               u == s[spot + 1]
    <3>1. u = IF ch = 31 THEN 63 ELSE ch
      <4> DEFINE i == spot + 1
      <4>1. i \in 1 .. 17  OBVIOUS
      <4> HIDE DEF i
      <4>2. s[i] = IF c.str[i] = 31 THEN 63 ELSE c.str[i]  BY <4>1
      <4> QED  BY ONLY <4>2 DEF i, u, ch, Char, s
    <3>2. CASE spot \in MacPositions
      <4>1. Wanted(c, spot) <= 15  BY <3>2 DEF Numbered
      <4>2. ch \in DOMAIN Digits \cup Random \cup {31}  BY <1>0, <4>1, WantedIs
      <4> HIDE DEF ch, u, s
      <4>3. u \in DOMAIN Digits \cup Random  BY ONLY <3>1, <4>2 DEF Random
      <4> QED  BY ONLY <3>2, <4>3 DEF u
    <3>3. CASE spot \notin MacPositions
      <4>1. PICK byte \in 0 .. 4 : spot = 3 * byte + 2  BY <3>3, DigitPlaces
      <4>2. ch = 58  BY <4>1
      <4> HIDE DEF ch, u, s
      <4>3. u = 58  BY ONLY <3>1, <4>2
      <4> QED  BY ONLY <3>3, <4>3 DEF u
    <3> QED  BY <3>2, <3>3
  <2> HIDE DEF s
  <2> QED  BY ONLY <2>1, <2>2 DEF WellFormed, s
<1> QED  BY ONLY <1>1, <1>3, <1>4, <1>5, <1>6

\* A string that is refused, although it has the right form.
LEMMA RefusedIs ==
  ASSUME NEW c \in MacCalls, WellFormed(c.str), Unfit(c) \/ NoMachine(mac_buf(c))
  PROVE  /\ Char(c, 1) \notin Random
         /\ \/ Digits[Char(c, 1)] % 2 = 1
            \/ \A spot \in MacPositions : Char(c, spot) \notin Random => Digits[Char(c, spot)] = 0
<1> DEFINE buf == mac_buf(c)
<1>0. Len(c.str) = 17  BY DEF WellFormed
<1>1. \A spot \in MacPositions : Char(c, spot) \in DOMAIN Digits \cup Random
  <2>1. \A spot \in MacPositions : spot \in 0 .. 16  BY DigitPlaces
  <2> QED  BY <2>1 DEF WellFormed, Char
<1>2. Numbered(c)
  <2>1. \A spot \in MacPositions : Wanted(c, spot) <= 15
    <3> TAKE spot \in MacPositions
    <3>1. spot \in 0 .. 16  BY DigitPlaces
    <3> QED  BY <1>0, <1>1, <3>1, WantedIs
  <2> QED  BY <1>0, <2>1 DEF Numbered
<1>3. \A byte \in 0 .. 4 : Char(c, 3 * byte + 2) = 58
  <2>1. \A byte \in 0 .. 4 : 3 * byte + 2 \in 0 .. 16 /\ 3 * byte + 2 \notin MacPositions  BY DigitPlaces
  <2>2. \A spot \in 0 .. 16 : spot \notin MacPositions => Char(c, spot) = 58  BY DEF WellFormed, Char
  <2> QED  BY ONLY <2>1, <2>2
<1>4. NoMachine(buf)  BY <1>0, <1>2, <1>3 DEF Unfit
<1>5. BytesOf(c, buf)  BY <1>2, BytesAre
<1> HIDE DEF buf
<1>6. 0 \in 0 .. 5 /\ 1 \in 0 .. 1 /\ 0 = 0 /\ 1 = 1 /\ 1 = 3 * 0 + 1 /\ 1 \in 0 .. 16
  OBVIOUS
<1>7. 1 \in MacPositions  BY <1>6 DEF MacPositions
<1> DEFINE b == Nibble(c, 0, 1)
<1>8. NibbleOf(c, 0, 1)  BY ONLY <1>5, <1>6 DEF BytesOf
<1>9. b \in 0 .. 15 /\ (Char(c, 1) \in Random => b % 2 = 0 /\ (b \div 2) % 2 = 1)
  BY ONLY <1>6, <1>8 DEF NibbleOf
<1>10. Char(c, 1) \notin Random => Digits[Char(c, 1)] = b
  <2>1. Char(c, 1) \notin Random => Wanted(c, 1) = Digits[Char(c, 1)]
    BY <1>0, <1>1, <1>6, <1>7, WantedIs
  <2>2. Char(c, 1) \notin Random => b = Wanted(c, 3 * 0 + 1)  BY ONLY <1>8 DEF NibbleOf
  <2> QED  BY ONLY <1>6, <2>1, <2>2
<1>11. CASE And(1, buf[0], 1) = 1
  <2> DEFINE word == buf[0]
  <2>1. word \in Nat /\ word % 2 = b % 2  BY <1>2, <1>5, FirstByte
  <2>2. And(1, word, 1) = 1  BY <1>11
  <2> HIDE DEF word, b
  <2>3. And(1, word, 1) = word % 2  BY <2>1, OddIs
  <2>4. b % 2 = 1  BY <2>1, <2>2, <2>3
  <2>5. Char(c, 1) \notin Random  BY <1>9, <2>4
  <2> QED  BY ONLY <1>10, <2>4, <2>5
<1>12. CASE \A w \in 0 .. 2 : buf[w] = 0
  <2>1. \A byte \in 0 .. 5, nib \in 0 .. 1 : Nibble(c, byte, nib) = 0  BY <1>2, <1>5, <1>12, AllZero
  <2>2. b = 0  BY <2>1, <1>6
  <2>3. Char(c, 1) \notin Random
    <3> HIDE DEF b
    <3>1. (0 \div 2) % 2 = 0  OBVIOUS
    <3>2. (b \div 2) % 2 # 1  BY <2>2, <3>1
    <3> QED  BY ONLY <1>9, <3>2
  <2>4. ASSUME NEW spot \in MacPositions, Char(c, spot) \notin Random
        PROVE  Digits[Char(c, spot)] = 0
    <3>1. PICK byte \in 0 .. 5, nib \in 0 .. 1 : spot = 3 * byte + nib  BY DigitPlaces
    <3>2. NibbleOf(c, byte, nib)  BY <1>5 DEF BytesOf
    <3>3. Nibble(c, byte, nib) = Wanted(c, spot)
      BY ONLY <3>1, <3>2, <2>3 DEF NibbleOf
    <3>4. spot \in 0 .. 16  BY DigitPlaces
    <3>5. Wanted(c, spot) = Digits[Char(c, spot)]  BY <1>0, <1>1, <2>4, <3>4, WantedIs
    <3>6. Nibble(c, byte, nib) = 0  BY <2>1
    <3> QED  BY ONLY <3>3, <3>5, <3>6
  <2> QED  BY ONLY <2>3, <2>4
<1> QED  BY <1>4, <1>11, <1>12 DEF NoMachine

\* The address that setmac sets, and the strings that it refuses.
LEMMA MacIs ==
  ASSUME NEW c \in MacCalls
  PROVE  MacAsAsked(c, parse_mac_string(c))
<1> DEFINE buf == mac_buf(c)
<1>1. CASE Unfit(c) \/ NoMachine(buf)
  <2>1. parse_mac_string(c) = Refused  BY <1>1, ParsedIs
  <2> DEFINE v == parse_mac_string(c)
  <2> HIDE DEF v
  <2>2. v = Refused  BY ONLY <2>1 DEF v
  <2>3. MacAsAsked(c, v)  BY <1>1, <2>2, RefusedIs DEF MacAsAsked
  <2> QED  BY ONLY <2>3 DEF v
<1>2. CASE ~(Unfit(c) \/ NoMachine(buf))
  <2>1. parse_mac_string(c) = buf  BY <1>2, ParsedIs
  <2>2. Numbered(c) /\ \A byte \in 0 .. 4 : Char(c, 3 * byte + 2) = 58  BY <1>2 DEF Unfit
  <2>3. BytesOf(c, buf)  BY <2>2, BytesAre
  <2>4. buf # Refused
    <3>1. DOMAIN buf = 0 .. 2 /\ buf = [w \in 0 .. 2 |-> buf[w]]  BY DEF mac_buf
    <3>2. \A w \in 0 .. 2 : buf[w] \in Nat
      <4> HIDE DEF buf
      <4> QED  BY <2>3 DEF BytesOf, WordOf
    <3> HIDE DEF buf
    <3>3. buf \in [0 .. 2 -> Nat]  BY <3>1, <3>2
    <3> QED  BY <3>3, AddressAssumption
  <2> HIDE DEF buf
  <2> DEFINE v == parse_mac_string(c)
  <2> HIDE DEF v
  <2>5. v = buf  BY ONLY <2>1 DEF v
  <2>6. MacAsAsked(c, buf)
    <3> DEFINE Held ==
         /\ \A spot \in MacPositions : Char(c, spot) \in DOMAIN Digits =>
              MacDigit(buf, spot) = Digits[Char(c, spot)]
         /\ MacByte(buf, 0) % 2 = 0
         /\ Char(c, 1) \in Random => (MacByte(buf, 0) \div 2) % 2 = 1
         /\ \E k \in 0 .. 5 : MacByte(buf, k) # 0
         /\ WellFormed([spot \in 1 .. 17 |-> IF c.str[spot] = 31 THEN 63 ELSE c.str[spot]])
    <3>1. Held  BY <1>2, <2>2, <2>3, SetIs
    <3>2. MacAsAsked(c, buf) <=> Held  BY ONLY <2>4, Zenon DEF MacAsAsked
    <3> HIDE DEF Held
    <3> QED  BY ONLY <3>1, <3>2
  <2> QED  BY ONLY <2>5, <2>6 DEF v
<1> QED  BY <1>1, <1>2

----------------------------------------------------------------------------
(* An address that is printed.                                             *)

\* The words of an address, with a colon between them.
IsThree(t, S, s0, s1, s2) ==
    t \in Seq(S) /\ Len(t) = 17 /\ PartOf(s0, t, 0) /\ PartOf(s1, t, 6) /\ PartOf(s2, t, 12)

\* They are at their places in the text.
LEMMA TextOfThree ==
  ASSUME NEW B, NEW s0 \in Seq(B), NEW s1 \in Seq(B), NEW s2 \in Seq(B), NEW sep \in Seq(B),
         Len(s0) = 5, Len(s1) = 5, Len(s2) = 5, Len(sep) = 1,
         NEW t, t = s0 \o sep \o s1 \o sep \o s2
  PROVE  IsThree(t, B, s0, s1, s2)
<1> DEFINE a == s0 \o sep
           b == a \o s1
           c == b \o sep
<1>1. a \in Seq(B) /\ Begins(s0, a) /\ AfterOther(a, s0, sep, 5, 1)  BY ConcatBegins
<1>2. t = c \o s2  OBVIOUS
<1>3. Len(a) = 6  BY <1>1 DEF AfterOther
<1> HIDE DEF a
<1>4. b \in Seq(B) /\ Begins(a, b) /\ AfterOther(b, a, s1, 6, 5)  BY <1>1, <1>3, ConcatBegins
<1>5. Len(b) = 11  BY <1>4 DEF AfterOther
<1> HIDE DEF b
<1>6. c \in Seq(B) /\ Begins(b, c) /\ AfterOther(c, b, sep, 11, 1)  BY <1>4, <1>5, ConcatBegins
<1>7. Len(c) = 12  BY <1>6 DEF AfterOther
<1> HIDE DEF c
<1>8. t \in Seq(B) /\ Begins(c, t) /\ AfterOther(t, c, s2, 12, 5)  BY <1>2, <1>6, <1>7, ConcatBegins
<1>9. Len(t) = 17  BY <1>8 DEF AfterOther
<1>10. PartOf(s2, t, 12)
  <2>1. \A k \in 1 .. 5 : t[12 + k] = s2[k]  BY ONLY <1>8 DEF AfterOther
  <2>2. Len(s2) = 5  OBVIOUS
  <2> QED  BY ONLY <2>1, <2>2 DEF PartOf
<1>11. Begins(b, t)  BY <1>4, <1>6, <1>8, <1>9, BeginsOn
<1>12. PartOf(s1, t, 6)
  <2>1. \A k \in 1 .. 5 : b[6 + k] = s1[k]  BY ONLY <1>4 DEF AfterOther
  <2>2. \A k \in 1 .. 11 : t[k] = b[k]  BY ONLY <1>5, <1>11 DEF Begins
  <2>3. \A k \in 1 .. 5 : 6 + k \in 1 .. 11  OBVIOUS
  <2>4. \A k \in 1 .. 5 : s1[k] = t[6 + k]  BY ONLY <2>1, <2>2, <2>3
  <2>5. Len(s1) = 5  OBVIOUS
  <2> QED  BY ONLY <2>4, <2>5 DEF PartOf
<1>13. Begins(s0, t)
  <2>1. Begins(s0, b)  BY <1>1, <1>4, <1>5, BeginsOn
  <2> QED  BY <1>4, <1>9, <1>11, <2>1, BeginsOn
<1>14. PartOf(s0, t, 0)
  <2>1. \A k \in 1 .. 5 : t[k] = s0[k]
    <3>1. Len(s0) = 5  OBVIOUS
    <3> QED  BY ONLY <1>13, <3>1 DEF Begins
  <2>2. \A k \in 1 .. 5 : 0 + k = k  OBVIOUS
  <2>3. \A k \in 1 .. 5 : s0[k] = t[0 + k]
    <3> TAKE k \in 1 .. 5
    <3> DEFINE m == 0 + k
    <3>1. m = k  OBVIOUS
    <3> HIDE DEF m
    <3>2. t[m] = s0[k]  BY ONLY <2>1, <3>1, k \in 1 .. 5
    <3> QED  BY ONLY <3>2 DEF m
  <2>4. Len(s0) = 5  OBVIOUS
  <2> QED  BY ONLY <2>3, <2>4 DEF PartOf
<1> QED  BY ONLY <1>8, <1>9, <1>10, <1>12, <1>14 DEF IsThree

\* Two characters, one, and two.
LEMMA FiveOf ==
  ASSUME NEW S, NEW a \in S, NEW b \in S, NEW e \in S, NEW d \in S, NEW dot \in S
  PROVE  <<a, b>> \o <<dot>> \o <<e, d>> = <<a, b, dot, e, d>> /\ <<a, b, dot, e, d>> \in Seq(S)
<1> DEFINE x == <<a, b>>
           y == <<dot>>
           z == <<e, d>>
           v == x \o y
           t == v \o z
           u == <<a, b, dot, e, d>>
<1>1. x \in Seq(S) /\ Len(x) = 2 /\ x[1] = a /\ x[2] = b  OBVIOUS
<1>2. y \in Seq(S) /\ Len(y) = 1 /\ y[1] = dot  OBVIOUS
<1>3. z \in Seq(S) /\ Len(z) = 2 /\ z[1] = e /\ z[2] = d  OBVIOUS
<1>4. u \in Seq(S) /\ Len(u) = 5 /\ u[1] = a /\ u[2] = b /\ u[3] = dot /\ u[4] = e /\ u[5] = d  OBVIOUS
<1>0. t = <<a, b>> \o <<dot>> \o <<e, d>>  OBVIOUS
<1> HIDE DEF x, y, z, u
<1>5. v \in Seq(S) /\ AfterOther(v, x, y, 2, 1)  BY <1>1, <1>2, ConcatBegins
<1> HIDE DEF v
<1>6. Len(v) = 3 /\ v[1] = a /\ v[2] = b /\ v[3] = dot
  <2>1. Len(v) = 2 + 1 /\ (\A i \in 1 .. 2 : v[i] = x[i]) /\ \A i \in 1 .. 1 : v[2 + i] = y[i]
    BY ONLY <1>5 DEF AfterOther
  <2>2. v[1] = x[1] /\ v[2] = x[2]  BY ONLY <2>1
  <2>3. v[3] = y[1]  BY ONLY <2>1
  <2> QED  BY ONLY <1>1, <1>2, <2>1, <2>2, <2>3
<1>7. t \in Seq(S) /\ AfterOther(t, v, z, 3, 2)  BY <1>3, <1>5, <1>6, ConcatBegins
<1> HIDE DEF t
<1>8. Len(t) = 5 /\ t[1] = a /\ t[2] = b /\ t[3] = dot /\ t[4] = e /\ t[5] = d
  <2>1. Len(t) = 3 + 2 /\ (\A i \in 1 .. 3 : t[i] = v[i]) /\ \A i \in 1 .. 2 : t[3 + i] = z[i]
    BY ONLY <1>7 DEF AfterOther
  <2>2. t[1] = v[1] /\ t[2] = v[2] /\ t[3] = v[3]  BY ONLY <2>1
  <2>3. t[4] = z[1] /\ t[5] = z[2]  BY ONLY <2>1
  <2> QED  BY ONLY <1>3, <1>6, <2>1, <2>2, <2>3
<1>9. t = u
  <2>1. \A i \in 1 .. 5 : i = 1 \/ i = 2 \/ i = 3 \/ i = 4 \/ i = 5  OBVIOUS
  <2>2. \A i \in 1 .. 5 : t[i] = u[i]  BY ONLY <1>4, <1>8, <2>1
  <2>3. \A i \in 1 .. Len(t) : t[i] = u[i]  BY ONLY <1>8, <2>2
  <2>4. Len(t) = Len(u)  BY ONLY <1>4, <1>8
  <2> QED  BY <1>4, <1>7, <2>3, <2>4, SeqEqual
<1> QED  BY <1>0, <1>4, <1>9 DEF u

\* A digit that is printed is one that is read.
LEMMA HexDigitIs ==
  ASSUME NEW n \in 0 .. 15
  PROVE  HexDigit(n) \in 0 .. 255 /\ HexDigit(n) \in DOMAIN Digits /\ Digits[HexDigit(n)] = n
<1>1. DOMAIN Digits = (48 .. 57) \cup (65 .. 70) \cup (97 .. 102)  BY DEF Digits
<1> DEFINE h == HexDigit(n)
<1>2. (n < 10 => h = 48 + n) /\ (n >= 10 => h = 87 + n)  BY DEF HexDigit
<1> HIDE DEF h
<1>3. h \in 48 .. 57 \/ h \in 97 .. 102  BY <1>2
<1>4. h \in DOMAIN Digits /\ h \in 0 .. 255  BY <1>1, <1>3
<1>5. Digits[h] = n  BY <1>2, <1>3 DEF Digits
<1> QED  BY <1>4, <1>5 DEF h

\* The digits of a word as they are printed.
Low(word) == word % 256

High(word) == word \div 256

WordText(word) == <<HexDigit(Low(word) \div 16), HexDigit(Low(word) % 16), 58,
                    HexDigit(High(word) \div 16), HexDigit(High(word) % 16)>>

IsWordText(word) ==
    /\ HexByte(word % 256) \o <<58>> \o HexByte(word \div 256) = WordText(word)
    /\ Low(word) \div 16 \in 0 .. 15 /\ Low(word) % 16 \in 0 .. 15
    /\ High(word) \div 16 \in 0 .. 15 /\ High(word) % 16 \in 0 .. 15
    /\ word = (Low(word) \div 16) * 16 + (Low(word) % 16)
              + (High(word) \div 16) * 4096 + (High(word) % 16) * 256
    /\ WordText(word) \in Seq(0 .. 255)

\* The characters of a word are those of its digits.
LEMMA WordTextIs ==
  ASSUME NEW word \in Nat, word < 65536
  PROVE  IsWordText(word)
<1> DEFINE l == word % 256
           h == word \div 256
           a == l \div 16
           b == l % 16
           e == h \div 16
           d == h % 16
<1>1. word = 256 * h + l /\ l \in Nat /\ l < 256 /\ h \in Nat /\ h < 256  OBVIOUS
<1> HIDE DEF l, h
<1>2. l = 16 * a + b /\ a \in Nat /\ a < 16 /\ b \in Nat /\ b < 16  BY <1>1
<1>3. h = 16 * e + d /\ e \in Nat /\ e < 16 /\ d \in Nat /\ d < 16  BY <1>1
<1> HIDE DEF a, b, e, d
<1>4. word = a * 16 + b + e * 4096 + d * 256  BY <1>1, <1>2, <1>3
<1> DEFINE A == HexDigit(a)
           B == HexDigit(b)
           E == HexDigit(e)
           D == HexDigit(d)
           O == 0 .. 255
           dot == 58
<1>12. a \in 0 .. 15 /\ b \in 0 .. 15 /\ e \in 0 .. 15 /\ d \in 0 .. 15  BY ONLY <1>2, <1>3
<1>5. A \in O /\ B \in O /\ E \in O /\ D \in O /\ dot \in O
  <2>1. \A k \in 0 .. 15 : HexDigit(k) \in O  BY HexDigitIs
  <2>2. dot \in O  OBVIOUS
  <2> HIDE DEF O, dot
  <2> QED  BY ONLY <1>12, <2>1, <2>2 DEF A, B, E, D
<1> HIDE DEF A, B, E, D, O, dot
<1>6. <<A, B>> \o <<dot>> \o <<E, D>> = <<A, B, dot, E, D>> /\ <<A, B, dot, E, D>> \in Seq(O)
  BY ONLY <1>5, FiveOf
<1>8. HexByte(l) \o <<58>> \o HexByte(h) = <<A, B>> \o <<dot>> \o <<E, D>>
  BY DEF HexByte, A, B, E, D, a, b, e, d, dot
<1>9. WordText(word) = <<A, B, dot, E, D>>
  BY DEF WordText, Low, High, A, B, E, D, a, b, e, d, l, h, dot
<1>10. /\ HexByte(word % 256) \o <<58>> \o HexByte(word \div 256) = WordText(word)
       /\ WordText(word) \in Seq(0 .. 255)
  BY ONLY <1>6, <1>8, <1>9 DEF l, h, O
<1>13. word = (Low(word) \div 16) * 16 + (Low(word) % 16)
              + (High(word) \div 16) * 4096 + (High(word) % 16) * 256
  BY ONLY <1>4 DEF Low, High, a, b, e, d, l, h
<1>14. /\ Low(word) \div 16 \in 0 .. 15 /\ Low(word) % 16 \in 0 .. 15
       /\ High(word) \div 16 \in 0 .. 15 /\ High(word) % 16 \in 0 .. 15
  BY ONLY <1>12 DEF Low, High, a, b, e, d, l, h
<1> QED  BY ONLY <1>10, <1>13, <1>14, SMTT(30) DEF IsWordText

\* A word of an address.
LEMMA WordOfAddress ==
  ASSUME NEW words \in AddressWords, NEW w \in 0 .. 2
  PROVE  words[w] \in Nat /\ words[w] < 65536
<1> DEFINE word == words[w]
<1>1. word \in Word16s  BY DEF AddressWords
<1> HIDE DEF word
<1>2. word \in Nat /\ word < 65536  BY ONLY <1>1, Powers DEF Word16s
<1> QED  BY <1>2 DEF word

\* The digits of the three words are at their places in the text.
LEMMA TextIs ==
  ASSUME NEW words \in AddressWords
  PROVE  LET text == print_mac_from_nvm(words)
         IN  /\ text \in Seq(0 .. 255) /\ Len(text) = 17
             /\ \A w \in 0 .. 2, i \in 1 .. 5 : text[6 * w + i] = WordText(words[w])[i]
<1> DEFINE text == print_mac_from_nvm(words)
           B == 0 .. 255
           s0 == WordText(words[0])
           s1 == WordText(words[1])
           s2 == WordText(words[2])
           sep == <<58>>
<1>1. ASSUME NEW w \in 0 .. 2 PROVE words[w] \in Nat /\ words[w] < 65536
  BY WordOfAddress
<1>2. \A w \in 0 .. 2 : /\ WordText(words[w]) \in Seq(B)
                        /\ HexByte(words[w] % 256) \o <<58>> \o HexByte(words[w] \div 256) = WordText(words[w])
  <2> TAKE w \in 0 .. 2
  <2>1. IsWordText(words[w])  BY <1>1, WordTextIs
  <2> QED  BY ONLY <2>1 DEF IsWordText
<1>3. 0 \in 0 .. 2 /\ 1 \in 0 .. 2 /\ 2 \in 0 .. 2  OBVIOUS
<1>4. text = s0 \o sep \o s1 \o sep \o s2
  <2> DEFINE Text(w) == HexByte(words[w] % 256) \o <<58>> \o HexByte(words[w] \div 256)
  <2>1. Text(0) = s0 /\ Text(1) = s1 /\ Text(2) = s2  BY ONLY <1>2, <1>3, Zenon
  <2>2. text = Text(0) \o sep \o Text(1) \o sep \o Text(2)  BY DEF print_mac_from_nvm
  <2> HIDE DEF Text, s0, s1, s2, text, sep
  <2> QED  BY ONLY <2>1, <2>2
<1>5. Len(s0) = 5 /\ Len(s1) = 5 /\ Len(s2) = 5  BY DEF WordText
<1>6. sep \in Seq(B) /\ Len(sep) = 1
  <2> DEFINE dot == 58
  <2>1. dot \in B  OBVIOUS
  <2> HIDE DEF dot, B
  <2>2. <<dot>> \in Seq(B) /\ Len(<<dot>>) = 1  BY ONLY <2>1
  <2> QED  BY <2>2 DEF dot
<1>7. s0 \in Seq(B) /\ s1 \in Seq(B) /\ s2 \in Seq(B)  BY ONLY <1>2, <1>3
<1> HIDE DEF text, B, s0, s1, s2, sep
<1>8. text \in Seq(B) /\ Len(text) = 17 /\ PartOf(s0, text, 0) /\ PartOf(s1, text, 6) /\ PartOf(s2, text, 12)
  <2>1. IsThree(text, B, s0, s1, s2)  BY ONLY <1>4, <1>5, <1>6, <1>7, TextOfThree
  <2> QED  BY ONLY <2>1 DEF IsThree
<1>9. ASSUME NEW w \in 0 .. 2, NEW i \in 1 .. 5
      PROVE  text[6 * w + i] = WordText(words[w])[i]
  <2> DEFINE k == 6 * w + i
  <2>1. w = 0 \/ w = 1 \/ w = 2  OBVIOUS
  <2>2. (w = 0 => k = 0 + i) /\ (w = 1 => k = 6 + i) /\ (w = 2 => k = 12 + i)  OBVIOUS
  <2> HIDE DEF k
  <2>3. CASE w = 0
    <3>1. s0[i] = text[0 + i]  BY ONLY <1>5, <1>8, i \in 1 .. 5 DEF PartOf
    <3> QED  BY <2>2, <2>3, <3>1 DEF s0, k
  <2>4. CASE w = 1
    <3>1. s1[i] = text[6 + i]  BY ONLY <1>5, <1>8, i \in 1 .. 5 DEF PartOf
    <3> QED  BY <2>2, <2>4, <3>1 DEF s1, k
  <2>5. CASE w = 2
    <3>1. s2[i] = text[12 + i]  BY ONLY <1>5, <1>8, i \in 1 .. 5 DEF PartOf
    <3> QED  BY <2>2, <2>5, <3>1 DEF s2, k
  <2> QED  BY <2>1, <2>3, <2>4, <2>5
<1> QED  BY ONLY <1>8, <1>9 DEF text, B

\* What dump prints, setmac takes as the same words.
LEMMA PrintsIs ==
  ASSUME NEW words \in AddressWords
  PROVE  PrintsWhatIsSet(words, print_mac_from_nvm(words))
<1> DEFINE text == print_mac_from_nvm(words)
           zeros == [i \in 1 .. 17 |-> 0]
           c == [str |-> text, drawn |-> zeros]
           buf == mac_buf(c)
<1>1. /\ text \in Seq(0 .. 255) /\ Len(text) = 17
      /\ \A w \in 0 .. 2, i \in 1 .. 5 : text[6 * w + i] = WordText(words[w])[i]
  BY TextIs
<1> HIDE DEF text
<1>2. zeros \in [1 .. 17 -> 0 .. 15]  OBVIOUS
<1>3. c \in MacCalls /\ c.str = text  BY ONLY <1>1, <1>2 DEF MacCalls, c
<1>4. PrintsWhatIsSet(words, text) <=> parse_mac_string(c) \in {words, Refused}
  BY ONLY Zenon DEF PrintsWhatIsSet, c, zeros
<1>5. CASE Unfit(c) \/ NoMachine(buf)
  <2>1. parse_mac_string(c) = Refused  BY <1>3, <1>5, ParsedIs
  <2> QED  BY <1>4, <2>1 DEF text
<1>6. CASE ~(Unfit(c) \/ NoMachine(buf))
  <2>1. parse_mac_string(c) = buf  BY <1>3, <1>6, ParsedIs
  <2>2. Numbered(c)  BY <1>6 DEF Unfit
  <2>3. BytesOf(c, buf)  BY <2>2, BytesAre
  <2>4. DOMAIN buf = 0 .. 2 /\ buf = [w \in 0 .. 2 |-> buf[w]]  BY DEF mac_buf
  <2> HIDE DEF c, buf
  \* Each digit is the one that was printed.
  <2>5. ASSUME NEW w \in 0 .. 2, NEW i \in {1, 2, 4, 5}, NEW byte \in 0 .. 5, NEW nib \in 0 .. 1,
               NEW n \in 0 .. 15, 3 * byte + nib + 1 = 6 * w + i, WordText(words[w])[i] = HexDigit(n)
        PROVE  Nibble(c, byte, nib) = n
    <3> DEFINE p == 3 * byte + nib
               ch == Char(c, p)
    <3>1. ch = HexDigit(n)
      <4>1. i \in 1 .. 5  OBVIOUS
      <4>2. text[6 * w + i] = HexDigit(n)  BY ONLY <1>1, <2>5, <4>1
      <4> QED  BY ONLY <1>3, <2>5, <4>2 DEF Char
    <3>2. ch \in DOMAIN Digits /\ Digits[ch] = n  BY ONLY <3>1, n \in 0 .. 15, HexDigitIs
    <3>3. p \in 0 .. 16  OBVIOUS
    <3>4. Wanted(c, p) = n /\ ch \notin Random
      <4> HIDE DEF p
      <4> QED  BY <1>1, <1>3, <3>2, <3>3, WantedIs
    <3>5. byte # 0 \/ nib # 1 \/ Char(c, 1) \notin Random
      <4>1. byte = 0 /\ nib = 1 => p = 1  OBVIOUS
      <4> HIDE DEF p
      <4> QED  BY ONLY <3>4, <4>1 DEF ch
    <3>6. NibbleOf(c, byte, nib)  BY <2>3 DEF BytesOf
    <3> QED  BY ONLY <3>4, <3>5, <3>6 DEF NibbleOf, p
  <2>6. ASSUME NEW w \in 0 .. 2 PROVE buf[w] = words[w]
    <3> DEFINE word == words[w]
               a == Low(word) \div 16
               b == Low(word) % 16
               e == High(word) \div 16
               d == High(word) % 16
    <3>1. word \in Nat /\ word < 65536  BY WordOfAddress
    <3>2. /\ a \in 0 .. 15 /\ b \in 0 .. 15 /\ e \in 0 .. 15 /\ d \in 0 .. 15
          /\ word = a * 16 + b + e * 4096 + d * 256
      <4> HIDE DEF word
      <4>1. IsWordText(word)  BY <3>1, WordTextIs
      <4> QED  BY ONLY <4>1 DEF IsWordText
    <3>3. /\ WordText(word)[1] = HexDigit(a) /\ WordText(word)[2] = HexDigit(b)
          /\ WordText(word)[4] = HexDigit(e) /\ WordText(word)[5] = HexDigit(d)
      BY DEF WordText
    <3> DEFINE lo == 2 * w
               hi == 2 * w + 1
    <3>4. /\ lo \in 0 .. 5 /\ hi \in 0 .. 5 /\ 0 \in 0 .. 1 /\ 1 \in 0 .. 1
          /\ 3 * lo + 0 + 1 = 6 * w + 1 /\ 3 * lo + 1 + 1 = 6 * w + 2
          /\ 3 * hi + 0 + 1 = 6 * w + 4 /\ 3 * hi + 1 + 1 = 6 * w + 5
          /\ 1 \in {1, 2, 4, 5} /\ 2 \in {1, 2, 4, 5} /\ 4 \in {1, 2, 4, 5} /\ 5 \in {1, 2, 4, 5}
      OBVIOUS
    <3> HIDE DEF word, a, b, e, d
    <3>8. \A i : WordText(words[w])[i] = WordText(word)[i]  BY DEF word
    <3> HIDE DEF lo, hi
    <3>5. Nibble(c, lo, 0) = a /\ Nibble(c, lo, 1) = b
      BY ONLY <2>5, <3>2, <3>3, <3>4, <3>8, w \in 0 .. 2
    <3>6. Nibble(c, hi, 0) = e /\ Nibble(c, hi, 1) = d
      BY ONLY <2>5, <3>2, <3>3, <3>4, <3>8, w \in 0 .. 2
    <3>7. buf[w] = a * 16 + b + e * 4096 + d * 256
      <4>1. WordOf(c, buf[w], w)  BY <2>3 DEF BytesOf
      <4>2. buf[w] = Nibble(c, lo, 0) * 16 + Nibble(c, lo, 1) + Nibble(c, hi, 0) * 4096 + Nibble(c, hi, 1) * 256
        BY ONLY <4>1 DEF WordOf, lo, hi
      <4> QED  BY ONLY <4>2, <3>5, <3>6
    <3> QED  BY ONLY <3>2, <3>7 DEF word
  <2>7. words = [w \in 0 .. 2 |-> words[w]]  BY DEF AddressWords
  <2>8. buf = words  BY ONLY <2>4, <2>6, <2>7
  <2> QED  BY <1>4, <2>1, <2>8 DEF text
<1> QED  BY <1>5, <1>6
=============================================================================
