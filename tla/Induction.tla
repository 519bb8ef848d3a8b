------------------------------ MODULE Induction ------------------------------
(***************************************************************************)
(* Induction for the proofs: a set of naturals has a least member, and     *)
(* a function may be defined by repeating a step.  The recursive functions *)
(* of the models (level[k] == IF k = 0 THEN ... ELSE ... level[k - 1] ...) *)
(* are iterations in this sense.                                           *)
(***************************************************************************)
EXTENDS Reach, WellFoundedInduction, TLAPS

(* A non-empty set of naturals has a least member.  A proof by induction   *)
(* applies it to the set of counterexamples.                               *)
LEMMA LeastNat ==
    ASSUME NEW T \in SUBSET Nat, T # {}
    PROVE  \E n \in T : \A k \in T : n <= k
<1> DEFINE R == {ss \in Nat \X Nat : ss[1] < ss[2]}
<1>1. IsWellFoundedOn(R, Nat)
  BY NatLessThanWellFounded DEF OpToRel
<1>2. \A x, y \in Nat : y < x => <<y, x>> \in R
  OBVIOUS
<1> HIDE DEF R
<1>3. PICK x \in T : \A y \in T : ~ (<<y, x>> \in R)
  BY <1>1, WFMin
<1>4. \A y \in T : ~(y < x)
  BY <1>2, <1>3
<1> QED  BY <1>4

(* g starts at a and takes n steps.                                        *)
Iterates(g, a, step, n) ==
    /\ g[0] = a
    /\ \A k \in Nat : k < n => g[k + 1] = step[g[k]]

(* A step can be repeated as often as one likes.                           *)
LEMMA IterationExists ==
    ASSUME NEW S, NEW a \in S, NEW step \in [S -> S], NEW n \in Nat
    PROVE  \E g \in [Nat -> S] : Iterates(g, a, step, n)
<1> DEFINE bad == {m \in Nat : ~ \E g \in [Nat -> S] : Iterates(g, a, step, m)}
<1> SUFFICES ASSUME bad # {} PROVE FALSE
  OBVIOUS
<1>1. PICK m \in bad : \A k \in bad : m <= k
  BY LeastNat
<1>2. CASE m = 0
  <2>1. Iterates([k \in Nat |-> a], a, step, 0)
    BY DEF Iterates
  <2> QED  BY <1>1, <1>2, <2>1
<1>3. CASE m # 0
  <2>1. m - 1 \in Nat /\ m - 1 \notin bad /\ m \in Nat
    BY <1>1, <1>3
  <2>2. PICK g \in [Nat -> S] : Iterates(g, a, step, m - 1)
    BY <2>1
  <2> DEFINE h == [g EXCEPT ![m] = step[g[m - 1]]]
  <2>3. h \in [Nat -> S]
    BY <2>1
  <2>4. Iterates(h, a, step, m)
    BY <1>3, <2>1, <2>2 DEF Iterates
  <2> QED  BY <1>1, <2>3, <2>4
<1> QED  BY <1>2, <1>3

(* Two iterations agree as far as both go.                                 *)
LEMMA IterationUnique ==
    ASSUME NEW g, NEW h, NEW a, NEW step, NEW m \in Nat, NEW n \in Nat,
           Iterates(g, a, step, m), Iterates(h, a, step, n), NEW k \in Nat, k <= m, k <= n
    PROVE  g[k] = h[k]
<1> DEFINE bad == {j \in Nat : j <= k /\ g[j] # h[j]}
<1> SUFFICES ASSUME bad # {} PROVE FALSE
  OBVIOUS
<1>1. PICK j \in bad : \A i \in bad : j <= i
  BY LeastNat
<1>2. j # 0
  BY <1>1 DEF Iterates
<1>3. j - 1 \in Nat /\ j - 1 < j /\ j - 1 < m /\ j - 1 < n /\ j - 1 \notin bad
  BY <1>1, <1>2
<1>4. g[j - 1] = h[j - 1]
  BY <1>3, <1>1
<1>5. g[j] = step[g[j - 1]] /\ h[j] = step[h[j - 1]]
  BY <1>3 DEF Iterates
<1> QED  BY <1>1, <1>4, <1>5

(* f is a recursive function whose next value is a step from the last one. *)
Recurs(f, a, step, lo, hi) == f = [k \in lo..hi |-> IF k = lo THEN a ELSE step[f[k - 1]]]

(* There is such a function.                                               *)
LEMMA RecursionExists ==
    ASSUME NEW S, NEW a \in S, NEW step \in [S -> S], NEW lo \in Nat, NEW hi \in Nat
    PROVE  \E f \in [lo..hi -> S] : Recurs(f, a, step, lo, hi)
<1>1. PICK g \in [Nat -> S] : Iterates(g, a, step, hi)
  BY IterationExists
<1> DEFINE f == [k \in lo..hi |-> g[k - lo]]
<1>2. f \in [lo..hi -> S]  OBVIOUS
<1>3. ASSUME NEW k \in lo..hi, k # lo PROVE f[k] = step[f[k - 1]]
  <2>1. /\ k - lo \in Nat /\ k - 1 \in lo..hi /\ (k - 1) - lo \in Nat
        /\ (k - 1) - lo < hi /\ ((k - 1) - lo) + 1 = k - lo
    BY <1>3
  <2>2. g[k - lo] = step[g[(k - 1) - lo]]
    BY <1>1, <2>1 DEF Iterates
  <2> QED  BY <2>1, <2>2
<1>4. lo \in lo..hi => f[lo] = a
  BY <1>1 DEF Iterates
<1>5. f = [k \in lo..hi |-> IF k = lo THEN a ELSE step[f[k - 1]]]
  <2> DEFINE h == [k \in lo..hi |-> IF k = lo THEN a ELSE step[f[k - 1]]]
  <2>1. ASSUME NEW k \in lo..hi PROVE f[k] = h[k]
    <3>1. CASE k = lo  BY <1>4, <3>1
    <3>2. CASE k # lo  BY <1>3, <3>2
    <3> QED  BY <3>1, <3>2
  <2>2. h = [k \in lo..hi |-> h[k]] /\ f = [k \in lo..hi |-> f[k]]  OBVIOUS
  <2> HIDE DEF f, h
  <2>3. f = h  BY <2>1, <2>2
  <2> QED  BY <2>3 DEF h
<1> QED  BY <1>2, <1>5 DEF Recurs

(* f is a recursive function whose next value depends on the place too.     *)
RecursAt(f, a, step, hi) == f = [k \in 0..hi |-> IF k = 0 THEN a ELSE step[<<k, f[k - 1]>>]]

(* There is such a function.                                               *)
LEMMA RecursionAtExists ==
    ASSUME NEW S, NEW a \in S, NEW step \in [Nat \X S -> S], NEW hi \in Nat
    PROVE  \E f \in [0..hi -> S] : RecursAt(f, a, step, hi)
<1> DEFINE T == Nat \X S
           go == [t \in T |-> <<t[1] + 1, step[<<t[1] + 1, t[2]>>]>>]
<1>1. go \in [T -> T] /\ <<0, a>> \in T  OBVIOUS
<1>2. \A k \in Nat, v \in S : go[<<k, v>>] = <<k + 1, step[<<k + 1, v>>]>>  OBVIOUS
<1> HIDE DEF go
<1>3. PICK g \in [Nat -> T] : Iterates(g, <<0, a>>, go, hi)
  <2> HIDE DEF T
  <2> QED  BY <1>1, IterationExists
<1>4. g[0] = <<0, a>> /\ \A k \in Nat : k < hi => g[k + 1] = go[g[k]]
  BY <1>3 DEF Iterates
<1>5. \A k \in 0..hi : g[k][1] = k
  <2> DEFINE bad == {k \in Nat : k <= hi /\ g[k][1] # k}
  <2> SUFFICES ASSUME bad # {} PROVE FALSE
    OBVIOUS
  <2>1. PICK k \in bad : \A i \in bad : k <= i  BY LeastNat
  <2>2. k # 0  BY <1>4, <2>1
  <2>3. PICK n \in Nat : k = n + 1 /\ ~(k <= n) /\ n < hi /\ n <= hi
    <3>1. k - 1 \in Nat /\ k = (k - 1) + 1 /\ ~(k <= k - 1) /\ k - 1 < hi /\ k - 1 <= hi
      BY <2>1, <2>2
    <3> QED  BY <3>1
  <2>4. g[n][1] = n  BY <2>1, <2>3
  <2>5. g[n] = <<n, g[n][2]>> /\ g[n][2] \in S  BY <2>4
  <2>6. go[g[n]] = <<n + 1, step[<<n + 1, g[n][2]>>]>>  BY <1>2, <2>5
  <2>7. g[n + 1] = go[g[n]]  BY <1>4, <2>3
  <2> QED  BY <2>1, <2>3, <2>6, <2>7
<1> DEFINE f == [k \in 0..hi |-> g[k][2]]
<1>6. f \in [0..hi -> S]  OBVIOUS
<1>7. ASSUME NEW k \in 0..hi, k # 0 PROVE f[k] = step[<<k, f[k - 1]>>]
  <2>1. k - 1 \in Nat /\ k - 1 \in 0..hi /\ (k - 1) + 1 = k /\ k - 1 < hi  BY <1>7
  <2>2. g[k] = go[g[k - 1]]  BY <1>4, <2>1
  <2>3. g[k - 1] = <<k - 1, g[k - 1][2]>> /\ g[k - 1][2] \in S  BY <1>5, <2>1
  <2>4. g[k] = <<(k - 1) + 1, step[<<(k - 1) + 1, g[k - 1][2]>>]>>  BY <1>2, <2>1, <2>2, <2>3
  <2> QED  BY <2>1, <2>4
<1>8. f[0] = a  BY <1>4
<1>9. f = [k \in 0..hi |-> IF k = 0 THEN a ELSE step[<<k, f[k - 1]>>]]
  <2> DEFINE h == [k \in 0..hi |-> IF k = 0 THEN a ELSE step[<<k, f[k - 1]>>]]
  <2>1. ASSUME NEW k \in 0..hi PROVE f[k] = h[k]
    <3>1. CASE k = 0  BY <1>8, <3>1
    <3>2. CASE k # 0  BY <1>7, <3>2
    <3> QED  BY <3>1, <3>2
  <2>2. h = [k \in 0..hi |-> h[k]] /\ f = [k \in 0..hi |-> f[k]]  OBVIOUS
  <2> HIDE DEF f, h
  <2>3. f = h  BY <2>1, <2>2
  <2> QED  BY <2>3 DEF h
<1> QED  BY <1>6, <1>9 DEF RecursAt
------------------------------------------------------------------------------
(* One more step from every member of r. *)
Grow(next, S) == [r \in SUBSET S |-> r \cup UNION {next[b] : b \in r}]

(* Within takes k growing steps, so any other iteration of k steps is it. *)
LEMMA WithinIterates ==
    ASSUME NEW S, NEW next \in [S -> SUBSET S], NEW A \in SUBSET S, NEW k \in Nat,
           NEW g, Iterates(g, A, Grow(next, S), k)
    PROVE  Within(next, A, k) = g[k]
  <1> DEFINE step == Grow(next, S)
             reach[j \in 0..k] ==
                IF j = 0 THEN A
                ELSE LET r == reach[j - 1] IN r \cup UNION {next[b] : b \in r}
  <1>1. Within(next, A, k) = reach[k]
    BY DEF Within
  <1>2. step \in [SUBSET S -> SUBSET S]
    BY DEF Grow
  <1>3. PICK f \in [Nat -> SUBSET S] : Iterates(f, A, step, k)
    BY <1>2, IterationExists
  <1>4. \A j \in 0..k : j # 0 => f[j] = f[j - 1] \cup UNION {next[b] : b \in f[j - 1]}
    <2> SUFFICES ASSUME NEW j \in 0..k, j # 0
                 PROVE  f[j] = f[j - 1] \cup UNION {next[b] : b \in f[j - 1]}
      OBVIOUS
    <2>1. j - 1 \in Nat /\ j - 1 < k /\ (j - 1) + 1 = j  OBVIOUS
    <2> QED  BY <1>3, <2>1 DEF Iterates, Grow
  <1>5. [j \in 0..k |-> f[j]] =
            [j \in 0..k |-> IF j = 0 THEN A
                            ELSE [i \in 0..k |-> f[i]][j - 1]
                                 \cup UNION {next[b] : b \in [i \in 0..k |-> f[i]][j - 1]}]
    <2> SUFFICES ASSUME NEW j \in 0..k, j # 0
                 PROVE  f[j] = f[j - 1] \cup UNION {next[b] : b \in f[j - 1]}
      BY <1>3 DEF Iterates
    <2> QED  BY <1>4
  <1>6. reach = [j \in 0..k |-> IF j = 0 THEN A
                                ELSE reach[j - 1] \cup UNION {next[b] : b \in reach[j - 1]}]
    BY <1>5
  <1> HIDE DEF reach
  <1>7. reach[0] = A /\ A \in SUBSET S
    BY <1>6
  <1>8. \A j \in 0..k : j # 0 => reach[j] = reach[j - 1] \cup UNION {next[b] : b \in reach[j - 1]}
    BY <1>6
  <1>9. \A j \in 0..k : reach[j] = f[j]
    <2> DEFINE bad == {j \in 0..k : reach[j] # f[j]}
    <2> SUFFICES ASSUME bad # {} PROVE FALSE
      OBVIOUS
    <2>1. PICK j \in bad : \A i \in bad : j <= i
      <3>1. bad \in SUBSET Nat  OBVIOUS
      <3> QED  BY <3>1, LeastNat
    <2>2. f[0] = A  BY <1>3 DEF Iterates
    <2>3. j # 0  BY <1>7, <2>2
    <2>4. j - 1 \in 0..k /\ ~(j <= j - 1)  BY <2>3
    <2>5. reach[j - 1] = f[j - 1]  BY <2>1, <2>4
    <2>6. j \in 0..k  OBVIOUS
    <2> QED  BY <1>4, <1>8, <2>3, <2>5, <2>6
  <1>10. f[k] = g[k]
    BY <1>3, IterationUnique
  <1> QED  BY <1>1, <1>9, <1>10

(* The two equations of Within, and its type. *)
LEMMA WithinSteps ==
    ASSUME NEW S, NEW next \in [S -> SUBSET S], NEW A \in SUBSET S
    PROVE  /\ Within(next, A, 0) = A
           /\ \A k \in Nat :
                /\ Within(next, A, k) \in SUBSET S
                /\ Within(next, A, k + 1) =
                      Within(next, A, k) \cup UNION {next[b] : b \in Within(next, A, k)}
  <1>1. Grow(next, S) \in [SUBSET S -> SUBSET S]
    BY DEF Grow
  <1>2. ASSUME NEW k \in Nat
        PROVE  \E g \in [Nat -> SUBSET S] : Iterates(g, A, Grow(next, S), k)
    BY <1>1, IterationExists
  <1>3. Within(next, A, 0) = A
    <2>1. PICK g \in [Nat -> SUBSET S] : Iterates(g, A, Grow(next, S), 0)  BY <1>2
    <2> QED  BY <2>1, WithinIterates DEF Iterates
  <1>4. ASSUME NEW k \in Nat
        PROVE  /\ Within(next, A, k) \in SUBSET S
               /\ Within(next, A, k + 1) =
                     Within(next, A, k) \cup UNION {next[b] : b \in Within(next, A, k)}
    <2>1. k + 1 \in Nat /\ k < k + 1  OBVIOUS
    <2>2. PICK g \in [Nat -> SUBSET S] : Iterates(g, A, Grow(next, S), k + 1)  BY <1>2, <2>1
    <2>3. Iterates(g, A, Grow(next, S), k)  BY <2>2 DEF Iterates
    <2>4. Within(next, A, k) = g[k]  BY <2>3, WithinIterates
    <2>5. Within(next, A, k + 1) = g[k + 1]  BY <2>1, <2>2, WithinIterates
    <2>6. g[k + 1] = Grow(next, S)[g[k]]  BY <2>1, <2>2 DEF Iterates
    <2>7. g[k] \in SUBSET S  OBVIOUS
    <2> QED  BY <2>4, <2>5, <2>6, <2>7 DEF Grow
  <1> QED  BY <1>3, <1>4

(* More steps reach at least as far. *)
LEMMA WithinGrows ==
    ASSUME NEW S, NEW next \in [S -> SUBSET S], NEW A \in SUBSET S,
           NEW j \in Nat, NEW k \in Nat, j <= k
    PROVE  Within(next, A, j) \subseteq Within(next, A, k)
  <1> DEFINE bad == {m \in Nat : j <= m /\ ~(Within(next, A, j) \subseteq Within(next, A, m))}
  <1> SUFFICES ASSUME bad # {} PROVE FALSE
    OBVIOUS
  <1>1. PICK m \in bad : \A i \in bad : m <= i  BY LeastNat
  <1>2. m # j  BY <1>1
  <1>3. m - 1 \in Nat /\ j <= m - 1 /\ (m - 1) + 1 = m /\ ~(m <= m - 1)  BY <1>1, <1>2
  <1>4. Within(next, A, j) \subseteq Within(next, A, m - 1)  BY <1>1, <1>3
  <1>5. Within(next, A, m - 1) \subseteq Within(next, A, m)  BY <1>3, WithinSteps
  <1> QED  BY <1>1, <1>4, <1>5

(* What no step leaves is never left. *)
LEMMA WithinStays ==
    ASSUME NEW S, NEW next \in [S -> SUBSET S], NEW A \in SUBSET S,
           NEW Z \in SUBSET S, A \subseteq Z, \A x \in Z : next[x] \subseteq Z, NEW k \in Nat
    PROVE  Within(next, A, k) \subseteq Z
  <1> DEFINE bad == {m \in Nat : ~(Within(next, A, m) \subseteq Z)}
  <1> SUFFICES ASSUME bad # {} PROVE FALSE
    OBVIOUS
  <1>1. PICK m \in bad : \A i \in bad : m <= i  BY LeastNat
  <1>2. m # 0  BY <1>1, WithinSteps
  <1>3. PICK n \in Nat : m = n + 1 /\ ~(m <= n)
    <2>1. m - 1 \in Nat /\ m = (m - 1) + 1 /\ ~(m <= m - 1)  BY <1>1, <1>2
    <2> QED  BY <2>1
  <1>4. Within(next, A, n) \subseteq Z  BY <1>1, <1>3
  <1>5. Within(next, A, n + 1) = Within(next, A, n) \cup UNION {next[y] : y \in Within(next, A, n)}
    BY WithinSteps
  <1> QED  BY <1>1, <1>3, <1>4, <1>5

(* A path may be made longer at its near end as well. *)
LEMMA WithinPrepend ==
    ASSUME NEW S, NEW next \in [S -> SUBSET S], NEW b \in S, NEW x \in next[b], NEW k \in Nat
    PROVE  Within(next, {x}, k) \subseteq Within(next, {b}, k + 1)
  <1>0. x \in S /\ {x} \in SUBSET S /\ {b} \in SUBSET S  OBVIOUS
  <1>9. \A A \in SUBSET S :
           /\ Within(next, A, 0) = A
           /\ \A j \in Nat : Within(next, A, j + 1) =
                 Within(next, A, j) \cup UNION {next[y] : y \in Within(next, A, j)}
    BY WithinSteps
  <1> DEFINE bad == {m \in Nat : ~(Within(next, {x}, m) \subseteq Within(next, {b}, m + 1))}
  <1> SUFFICES ASSUME bad # {} PROVE FALSE
    OBVIOUS
  <1>1. PICK m \in bad : \A i \in bad : m <= i  BY LeastNat
  <1>2. /\ Within(next, {x}, 0) = {x} /\ Within(next, {b}, 0) = {b}
        /\ Within(next, {b}, 0 + 1) =
               Within(next, {b}, 0) \cup UNION {next[y] : y \in Within(next, {b}, 0)}
    <2>1. Within(next, {x}, 0) = {x} /\ Within(next, {b}, 0) = {b}  BY <1>0, <1>9
    <2>2. PICK z \in Nat : z = 0  OBVIOUS
    <2>3. Within(next, {b}, z + 1) =
             Within(next, {b}, z) \cup UNION {next[y] : y \in Within(next, {b}, z)}
      BY <1>0, <1>9
    <2> QED  BY <2>1, <2>2, <2>3
  <1>3. m # 0
    <2>1. b \in Within(next, {b}, 0)  BY <1>2
    <2>2. x \in Within(next, {b}, 0 + 1)  BY <1>2, <2>1
    <2> QED  BY <1>1, <1>2, <2>2
  <1>4. PICK n \in Nat : m = n + 1 /\ ~(m <= n)
    <2>1. m - 1 \in Nat /\ m = (m - 1) + 1 /\ ~(m <= m - 1)  BY <1>1, <1>3
    <2> QED  BY <2>1
  <1>5. Within(next, {x}, n) \subseteq Within(next, {b}, n + 1)  BY <1>1, <1>4
  <1>6. n + 1 \in Nat  OBVIOUS
  <1>7. Within(next, {x}, n + 1) =
           Within(next, {x}, n) \cup UNION {next[y] : y \in Within(next, {x}, n)}
    BY <1>0, <1>9
  <1>8. Within(next, {b}, (n + 1) + 1) =
           Within(next, {b}, n + 1) \cup UNION {next[y] : y \in Within(next, {b}, n + 1)}
    BY <1>0, <1>6, <1>9
  <1> QED  BY <1>1, <1>4, <1>5, <1>7, <1>8

(* More to start from reaches at least as far. *)
LEMMA WithinMore ==
    ASSUME NEW S, NEW next \in [S -> SUBSET S], NEW A \in SUBSET S, NEW B \in SUBSET S, A \subseteq B,
           NEW k \in Nat
    PROVE  Within(next, A, k) \subseteq Within(next, B, k)
  <1> DEFINE bad == {m \in Nat : ~(Within(next, A, m) \subseteq Within(next, B, m))}
  <1> SUFFICES ASSUME bad # {} PROVE FALSE
    OBVIOUS
  <1>1. PICK m \in bad : \A i \in bad : m <= i  BY LeastNat
  <1>2. m # 0  BY <1>1, WithinSteps
  <1>3. PICK n \in Nat : m = n + 1 /\ ~(m <= n)
    <2>1. m - 1 \in Nat /\ m = (m - 1) + 1 /\ ~(m <= m - 1)  BY <1>1, <1>2
    <2> QED  BY <2>1
  <1>4. Within(next, A, n) \subseteq Within(next, B, n)  BY <1>1, <1>3
  <1>5. Within(next, A, n + 1) =
           Within(next, A, n) \cup UNION {next[y] : y \in Within(next, A, n)}
    BY WithinSteps
  <1>6. Within(next, B, n + 1) =
           Within(next, B, n) \cup UNION {next[y] : y \in Within(next, B, n)}
    BY WithinSteps
  <1> QED  BY <1>1, <1>3, <1>4, <1>5, <1>6

(* What k steps back from A reach comes back to A in k steps forward. *)
LEMMA WithinReverse ==
    ASSUME NEW S, NEW next \in [S -> SUBSET S], NEW prev \in [S -> SUBSET S],
           \A x, y \in S : x \in prev[y] => y \in next[x],
           NEW A \in SUBSET S, NEW k \in Nat, NEW w \in Within(prev, A, k)
    PROVE  \E b \in A : b \in Within(next, {w}, k)
  <1> DEFINE bad == {m \in Nat : \E v \in Within(prev, A, m) :
                                   ~ \E b \in A : b \in Within(next, {v}, m)}
  <1> SUFFICES ASSUME bad # {} PROVE FALSE
    OBVIOUS
  <1>1. PICK m \in bad : \A i \in bad : m <= i  BY LeastNat
  <1>2. PICK v \in Within(prev, A, m) : ~ \E b \in A : b \in Within(next, {v}, m)  BY <1>1
  <1>3. v \in S /\ {v} \in SUBSET S
    <2>1. v \in S  BY WithinSteps
    <2> QED  BY <2>1
  <1>4. m # 0
    <2>1. Within(prev, A, 0) = A  BY WithinSteps
    <2>2. Within(next, {v}, 0) = {v}  BY <1>3, WithinSteps
    <2> QED  BY <1>2, <2>1, <2>2
  <1>5. PICK n \in Nat : m = n + 1 /\ ~(m <= n)
    <2>1. m - 1 \in Nat /\ m = (m - 1) + 1 /\ ~(m <= m - 1)  BY <1>1, <1>4
    <2> QED  BY <2>1
  <1>6. \A u \in Within(prev, A, n) : \E b \in A : b \in Within(next, {u}, n)
    BY <1>1, <1>5
  <1>7. Within(prev, A, n + 1) = Within(prev, A, n) \cup UNION {prev[y] : y \in Within(prev, A, n)}
    BY WithinSteps
  <1>8. CASE v \in Within(prev, A, n)
    <2>1. n \in Nat /\ n + 1 \in Nat /\ n <= n + 1  OBVIOUS
    <2>2. Within(next, {v}, n) \subseteq Within(next, {v}, n + 1)  BY <1>3, <2>1, WithinGrows
    <2> QED  BY <1>2, <1>5, <1>6, <1>8, <2>2
  <1>9. CASE v \notin Within(prev, A, n)
    <2>1. PICK y \in Within(prev, A, n) : v \in prev[y]  BY <1>2, <1>5, <1>7, <1>9
    <2>2. y \in S  BY WithinSteps
    <2>3. y \in next[v]  BY <1>3, <2>1, <2>2
    <2>4. Within(next, {y}, n) \subseteq Within(next, {v}, n + 1)  BY <1>3, <2>3, WithinPrepend
    <2> QED  BY <1>2, <1>5, <1>6, <2>1, <2>4
  <1> QED  BY <1>8, <1>9
(* Steps that lead further reach at least as far. *)
LEMMA WithinWider ==
    ASSUME NEW S, NEW next \in [S -> SUBSET S], NEW wider \in [S -> SUBSET S],
           \A x \in S : next[x] \subseteq wider[x], NEW A \in SUBSET S, NEW k \in Nat
    PROVE  Within(next, A, k) \subseteq Within(wider, A, k)
  <1> DEFINE bad == {m \in Nat : ~(Within(next, A, m) \subseteq Within(wider, A, m))}
  <1> SUFFICES ASSUME bad # {} PROVE FALSE
    OBVIOUS
  <1>1. PICK m \in bad : \A i \in bad : m <= i  BY LeastNat
  <1>2. m # 0
    <2>1. Within(next, A, 0) = A /\ Within(wider, A, 0) = A  BY WithinSteps
    <2> QED  BY <1>1, <2>1
  <1>3. PICK n \in Nat : m = n + 1 /\ ~(m <= n)
    <2>1. m - 1 \in Nat /\ m = (m - 1) + 1 /\ ~(m <= m - 1)  BY <1>1, <1>2
    <2> QED  BY <2>1
  <1>4. Within(next, A, n) \subseteq Within(wider, A, n)  BY <1>1, <1>3
  <1>5. /\ Within(next, A, n) \in SUBSET S
        /\ Within(next, A, n + 1) =
               Within(next, A, n) \cup UNION {next[y] : y \in Within(next, A, n)}
    BY WithinSteps
  <1>6. Within(wider, A, n + 1) =
           Within(wider, A, n) \cup UNION {wider[y] : y \in Within(wider, A, n)}
    BY WithinSteps
  <1>7. Within(next, A, n + 1) \subseteq Within(wider, A, n + 1)
    <2> SUFFICES ASSUME NEW y \in Within(next, A, n + 1) PROVE y \in Within(wider, A, n + 1)
      OBVIOUS
    <2>1. CASE y \in Within(next, A, n)  BY <1>4, <1>6, <2>1
    <2>2. CASE y \notin Within(next, A, n)
      <3>1. PICK z \in Within(next, A, n) : y \in next[z]  BY <1>5, <2>2
      <3>2. y \in wider[z] /\ z \in Within(wider, A, n)  BY <1>4, <1>5, <3>1
      <3> QED  BY <1>6, <3>2
    <2> QED  BY <2>1, <2>2
  <1> QED  BY <1>1, <1>3, <1>7

(* The same steps without those that end in b.                              *)
Spares(off, next, b) == \A x \in DOMAIN next : off[x] = next[x] \ {b}

(* A way from b to somewhere else need not come back to b.                  *)
LEMMA WithinAvoids ==
    ASSUME NEW S, NEW next \in [S -> SUBSET S], NEW b \in S,
           NEW off \in [S -> SUBSET S], Spares(off, next, b),
           NEW k \in Nat, NEW l \in Nat, l <= k + 1, NEW y \in Within(next, {b}, l), y # b
    PROVE  \E z \in next[b] : z # b /\ y \in Within(off, {z}, k)
  <1> DEFINE way(v, m) == \E z \in next[b] \ {b} : v \in Within(off, {z}, m)
             bad == {m \in Nat : \E v \in Within(next, {b}, m + 1) : v # b /\ ~way(v, m)}
  <1>1. /\ next \in [S -> SUBSET S] /\ off \in [S -> SUBSET S] /\ {b} \in SUBSET S
        /\ \A x \in S : off[x] = next[x] \ {b}
    BY DEF Spares
  <1>2. Within(next, {b}, 0) = {b}  BY <1>1, WithinSteps
  <1>3. \A m \in Nat : /\ Within(next, {b}, m) \in SUBSET S
                       /\ Within(next, {b}, m + 1) =
                              Within(next, {b}, m) \cup UNION {next[x] : x \in Within(next, {b}, m)}
    BY <1>1, WithinSteps
  <1>4. ASSUME NEW z \in S
        PROVE  /\ Within(off, {z}, 0) = {z}
               /\ \A m \in Nat :
                     /\ Within(off, {z}, m) \in SUBSET S
                     /\ Within(off, {z}, m + 1) =
                           Within(off, {z}, m) \cup UNION {off[x] : x \in Within(off, {z}, m)}
    <2>1. {z} \in SUBSET S  OBVIOUS
    <2> QED  BY <1>1, <2>1, WithinSteps
  <1>5. next[b] \in SUBSET S  OBVIOUS
  <1>6. bad = {}
    <2> SUFFICES ASSUME bad # {} PROVE FALSE
      OBVIOUS
    <2>1. PICK m \in bad : \A i \in bad : m <= i  BY LeastNat
    <2>2. PICK v \in Within(next, {b}, m + 1) : v # b /\ ~way(v, m)  BY <2>1
    <2>3. PICK u \in Within(next, {b}, m) : v \in next[u] \/ v = u
      <3> DEFINE here == Within(next, {b}, m)
                 there == Within(next, {b}, m + 1)
      <3>1. v \in there  BY <2>2
      <3>2. there = here \cup UNION {next[x] : x \in here}  BY <1>3, <2>1
      <3> HIDE DEF way, bad, here, there
      <3>3. v \in here \/ \E x \in here : v \in next[x]  BY <3>1, <3>2
      <3>4. \E x \in here : v \in next[x] \/ v = x  BY <3>3
      <3> QED  BY <3>4 DEF here
    <2>4. v \in S /\ u \in S
      <3>1. Within(next, {b}, m) \in SUBSET S  BY <1>3, <2>1
      <3>2. u \in S  BY <2>3, <3>1
      <3>3. next[u] \in SUBSET S  BY <1>1, <3>2
      <3> QED  BY <2>3, <3>2, <3>3
    <2>5. CASE m = 0
      <3>1. u = b  BY <1>2, <2>3, <2>5
      <3>2. v \in next[b] \ {b}  BY <1>1, <2>2, <2>3, <3>1
      <3>3. v \in Within(off, {v}, m)  BY <1>4, <2>4, <2>5
      <3> QED  BY <2>2, <3>2, <3>3
    <2>6. CASE m # 0
      <3>1. PICK n \in Nat : m = n + 1 /\ ~(m <= n)
        <4>1. m - 1 \in Nat /\ m = (m - 1) + 1 /\ ~(m <= m - 1)  BY <2>1, <2>6
        <4> QED  BY <4>1
      <3>2. u = b \/ way(u, n)  BY <2>1, <2>3, <3>1
      <3>3. CASE u = b
        <4>1. v \in next[b] \ {b}  BY <1>1, <2>2, <2>3, <3>3
        <4>2. 0 \in Nat /\ m \in Nat /\ 0 <= m /\ {v} \in SUBSET S  BY <2>1, <2>4
        <4>3. Within(off, {v}, 0) \subseteq Within(off, {v}, m)  BY <1>1, <4>2, WithinGrows
        <4>4. v \in Within(off, {v}, m)  BY <1>4, <2>4, <4>3
        <4> QED  BY <2>2, <4>1, <4>4
      <3>4. CASE u # b /\ way(u, n)
        <4>1. PICK z \in next[b] \ {b} : u \in Within(off, {z}, n)  BY <3>4
        <4>2. Within(off, {z}, n + 1) =
                 Within(off, {z}, n) \cup UNION {off[x] : x \in Within(off, {z}, n)}
          BY <1>4, <1>5, <4>1
        <4>3. v = u \/ v \in off[u]
          <5>1. off[u] = next[u] \ {b}  BY <1>1, <2>4
          <5> QED  BY <2>2, <2>3, <5>1
        <4>4. v \in Within(off, {z}, m)  BY <3>1, <4>1, <4>2, <4>3
        <4> QED  BY <2>2, <4>1, <4>4
      <3> QED  BY <3>2, <3>3, <3>4
    <2> QED  BY <2>5, <2>6
  <1>7. y \in Within(next, {b}, k + 1) /\ y # b
    <2>1. {b} \in SUBSET S /\ k + 1 \in Nat  OBVIOUS
    <2>2. Within(next, {b}, l) \subseteq Within(next, {b}, k + 1)  BY <1>1, <2>1, WithinGrows
    <2> HIDE DEF way, bad
    <2> QED  BY <2>2
  <1>8. way(y, k)
    <2> HIDE DEF way
    <2> QED  BY <1>6, <1>7
  <1> QED  BY <1>8
=============================================================================
