---------------------------- MODULE MiMemLemmas -----------------------------
(***************************************************************************)
(* Lemmas for the theorems about MiMem, and the theorems about the pure    *)
(* parts of mem.c: diffs and timestamps.                                   *)
(*                                                                         *)
(* What is folded over a sequence (packets joined, packets incorporated,   *)
(* shares summed up) is written as a recursive function.  That such a      *)
(* function is what it says is Recursion: a set of numbers that has 0 and  *)
(* is closed under successor is Nat (InductiveSet, from the order of Nat). *)
(* ValuesStay then carries a property along the recursion, and the folds   *)
(* of mem.c are known by it: PacketsAre, MissingFromAre, IncorporatedAll.  *)
(*                                                                         *)
(* MemInv is the invariant.  Types: what each structure holds.  OneAtATime: *)
(* a host has one message under way, the request or the answer that its    *)
(* thread waits for.  OwnNewest: the newest interval of a host in its own  *)
(* list carries its timestamp.  NoneAhead: nobody knows an interval, and   *)
(* no message tells of one, that its host has not opened.  Twins: twins,   *)
(* states and diffs agree, page by page, also inside a write fault.        *)
(* NotWriting: a page whose contents or diffs are awaited is not writable. *)
(* Protected: what mprotect allows is what the state of the page says.     *)
(***************************************************************************)
EXTENDS MiMem, WellFoundedInduction, SequenceTheorems, TLAPS

-----------------------------------------------------------------------------
(* Induction, and what recursive functions compute.                         *)

(* A set of natural numbers that is not empty has a least member. *)
LEMMA Least ==
  ASSUME NEW T, T \subseteq Nat, T # {}
  PROVE \E x \in T : \A y \in T : x <= y
<1>1. \E x \in T : \A y \in T : ~ (<<y, x>> \in OpToRel(<, Nat))
  BY WFMin, NatLessThanWellFounded, Zenon
<1>2. PICK x \in T : \A y \in T : ~ (<<y, x>> \in OpToRel(<, Nat))
  BY <1>1
<1>3. \A y \in T : ~(y < x)
  BY <1>2, Zenon DEF OpToRel
<1> QED BY <1>3

(* A set with 0 that is closed under successor holds every natural number. *)
LEMMA InductiveSet ==
  ASSUME NEW T, 0 \in T, \A n \in Nat : n \in T => n + 1 \in T
  PROVE Nat \subseteq T
<1> SUFFICES ASSUME ~(Nat \subseteq T) PROVE FALSE
  OBVIOUS
<1>1. PICK x \in Nat \ T : \A y \in Nat \ T : x <= y
  <2>1. Nat \ T # {} /\ Nat \ T \subseteq Nat
    OBVIOUS
  <2> QED BY <2>1, Least
<1>2. x # 0 /\ x - 1 \in Nat /\ x - 1 \in T
  BY <1>1
<1> QED BY <1>1, <1>2

(* The same up to a bound. *)
LEMMA InductiveRange ==
  ASSUME NEW n \in Nat, NEW T, 0 \in T, \A k \in 1 .. n : k - 1 \in T => k \in T
  PROVE \A k \in 0 .. n : k \in T
<1> DEFINE U == {k \in Nat : k <= n => k \in T}
<1>1. 0 \in U
  OBVIOUS
<1>2. ASSUME NEW k \in Nat, k \in U PROVE k + 1 \in U
  <2>1. CASE k + 1 <= n
    <3>1. k + 1 \in 1 .. n /\ (k + 1) - 1 = k /\ k \in T
      BY <1>2, <2>1
    <3> QED BY <3>1
  <2>2. CASE ~(k + 1 <= n)
    BY <2>2
  <2> QED BY <2>1, <2>2
<1>3. Nat \subseteq U
  <2> HIDE DEF U
  <2> QED BY <1>1, <1>2, InductiveSet
<1> QED BY <1>3

(* A function on 0 .. n whose values lie in V at 0 and stay in V. *)
LEMMA ValuesStay ==
  ASSUME NEW n \in Nat, NEW V, NEW f, f[0] \in V, \A k \in 1 .. n : f[k - 1] \in V => f[k] \in V
  PROVE \A k \in 0 .. n : f[k] \in V
<1> DEFINE T == {k \in 0 .. n : f[k] \in V}
<1>1. 0 \in T
  OBVIOUS
<1>2. \A k \in 1 .. n : k - 1 \in T => k \in T
  OBVIOUS
<1>3. \A k \in 0 .. n : k \in T
  <2> HIDE DEF T
  <2> QED BY <1>1, <1>2, InductiveRange
<1> QED BY <1>3

(* s is a function on 0 .. n with values in V that starts from base and goes *)
(* on with the steps of G.                                                   *)
Solves(s, V, base, n, G) ==
  s \in [0 .. n -> V] /\ s[0] = base /\ \A k \in 1 .. n : s[k] = G[k][s[k - 1]]

(* A recursion with values in V has a solution. *)
LEMMA Recursion ==
  ASSUME NEW V, NEW base \in V, NEW n \in Nat, NEW G \in [1 .. n -> [V -> V]]
  PROVE \E s : Solves(s, V, base, n, G)
<1> DEFINE Good(s, m) == s[0] = base /\ \A k \in 1 .. m : s[k] = G[k][s[k - 1]]
           T == {m \in 0 .. n : \E s \in [0 .. m -> V] : Good(s, m)}
<1>1. 0 \in T
  <2> DEFINE z == [k \in 0 .. 0 |-> base]
  <2>1. z \in [0 .. 0 -> V] /\ Good(z, 0)
    OBVIOUS
  <2> HIDE DEF z, Good
  <2>2. \E s \in [0 .. 0 -> V] : Good(s, 0)
    BY <2>1
  <2> QED BY <2>2
<1>2. ASSUME NEW m \in 1 .. n, m - 1 \in T PROVE m \in T
  <2>1. PICK s \in [0 .. (m - 1) -> V] : Good(s, m - 1)
    BY <1>2
  <2> DEFINE t == [k \in 0 .. m |-> IF k = m THEN G[m][s[m - 1]] ELSE s[k]]
  <2>2. s[m - 1] \in V /\ G[m][s[m - 1]] \in V
    BY <2>1
  <2>3. t \in [0 .. m -> V]
    BY <2>1, <2>2
  <2>4. t[0] = base
    BY <2>1
  <2>5. \A k \in 1 .. m : t[k] = G[k][t[k - 1]]
    BY <2>1
  <2>6. Good(t, m)
    BY <2>4, <2>5
  <2> HIDE DEF t, Good
  <2> QED BY <2>3, <2>6
<1>3. \A m \in 0 .. n : m \in T
  <2> HIDE DEF T
  <2> QED BY <1>1, <1>2, InductiveRange
<1>4. \E s \in [0 .. n -> V] : Good(s, n)
  BY <1>3
<1> QED BY <1>4 DEF Solves

-----------------------------------------------------------------------------
(* Remainders modulo any number. *)

(* What % means. *)
LEMMA ModDef ==
  ASSUME NEW n \in Nat \ {0}, NEW a \in Int
  PROVE /\ a \div n \in Int /\ a % n \in 0 .. (n - 1) /\ a = n * (a \div n) + (a % n)
OBVIOUS

(* Products of integers are integers. *)
LEMMA Mult ==
  ASSUME NEW n \in Nat \ {0}, NEW k \in Int, k >= 1
  PROVE n * k \in Int /\ n * k >= n
OBVIOUS

(* Multiplication distributes over sums and differences. *)
LEMMA Dist == ASSUME NEW n \in Int, NEW p \in Int, NEW q \in Int PROVE n * (p - q) = n * p - n * q /\ n * p \in Int /\ n * q \in Int /\ n * (p + q) = n * p + n * q
OBVIOUS

(* A remainder is the only number of its range at its distance. *)
LEMMA ModUnique ==
  ASSUME NEW n \in Nat \ {0}, NEW q \in Int, NEW p \in Int, NEW r \in 0 .. (n - 1), NEW s \in 0 .. (n - 1),
         n * q + r = n * p + s
  PROVE q = p /\ r = s
<1>1. n * (q - p) = s - r /\ n * (p - q) = r - s /\ q - p \in Int /\ p - q \in Int
  BY Dist
<1>2. ~(q - p >= 1)
  BY <1>1, Mult
<1>3. ~(p - q >= 1)
  BY <1>1, Mult
<1>4. q = p
  BY <1>2, <1>3
<1> QED BY <1>4, <1>1, Dist

(* A multiple of n changes no remainder. *)
LEMMA ModShift == ASSUME NEW n \in Nat \ {0}, NEW k \in Int, NEW a \in Int
  PROVE (a + n * k) % n = a % n
<1>1. PICK q \in Int, r \in 0 .. (n - 1) : a = n * q + r /\ a % n = r
  BY ModDef
<1>2. PICK x \in Int : x = a + n * k
  BY Dist
<1>3. PICK p \in Int, s \in 0 .. (n - 1) : x = n * p + s /\ x % n = s
  BY ModDef
<1>4. PICK t \in Int : t = q + k
  OBVIOUS
<1>5. n * t + r = n * p + s
  <2>1. n * t = n * q + n * k /\ n * q \in Int /\ n * k \in Int /\ n * p \in Int
    BY <1>4, Dist
  <2> QED BY <2>1, <1>1, <1>2, <1>3
<1>6. r = s
  BY <1>5, ModUnique
<1> QED BY <1>6, <1>1, <1>2, <1>3

(* A remainder may be taken before a sum or after it. *)
LEMMA ModPlus ==
  ASSUME NEW n \in Nat \ {0}, NEW a \in Int, NEW b \in Int
  PROVE (a + (b % n)) % n = (a + b) % n
<1>1. PICK q \in Int, r \in 0 .. (n - 1) : b = n * q + r /\ b % n = r
  BY ModDef
<1>2. PICK x \in Int : x = a + r
  OBVIOUS
<1>3. a + b = x + n * q
  BY <1>1, <1>2, Dist
<1>4. (x + n * q) % n = x % n
  BY ModShift
<1> QED BY <1>1, <1>2, <1>3, <1>4

(* What is left of a number in a byte. *)
Residue(a) == a % BYTE

(* A sum of bytes may wrap at each step or once. *)
LEMMA ResiduePlus ==
  ASSUME NEW a \in Int, NEW b \in Int, NEW c \in Int, NEW d \in Int,
         Residue(a) = Residue(b), Residue(c) = Residue(d)
  PROVE Residue(a + c) = Residue(b + d)
<1>1. PICK n \in Nat \ {0} : n = BYTE
  BY ByteAssumption
<1>2. a % n = b % n /\ c % n = d % n
  BY <1>1 DEF Residue
<1>3. (a + c) % n = (b + d) % n
  <2>1. (a + c) % n = (a + (c % n)) % n /\ (b + d) % n = (b + (d % n)) % n
    BY ModPlus
  <2>2. a + (c % n) = (c % n) + a /\ b + (d % n) = (d % n) + b /\ c % n \in Int /\ d % n \in Int
    BY ModDef
  <2>3. ((c % n) + a) % n = ((c % n) + (a % n)) % n /\ ((d % n) + b) % n = ((d % n) + (b % n)) % n
    BY <2>2, ModPlus
  <2> QED BY <1>2, <2>1, <2>2, <2>3
<1> QED BY <1>1, <1>3 DEF Residue

(* A byte is its own residue. *)
LEMMA ResidueOfResidue ==
  ASSUME NEW a \in Int, NEW b \in Int
  PROVE Residue(a + (b % BYTE)) = Residue(a + b)
<1>1. PICK n \in Nat \ {0} : n = BYTE
  BY ByteAssumption
<1>2. (a + (b % n)) % n = (a + b) % n
  BY ModPlus
<1> QED BY <1>1, <1>2 DEF Residue

-----------------------------------------------------------------------------
(* Sums *)

(* The sum of integers is an integer, and takes one more with each step. *)
LEMMA SumSteps ==
  ASSUME NEW n \in Nat, NEW f \in [1 .. n -> Int]
  PROVE \E s \in [0 .. n -> Int] : /\ s[0] = 0
                                   /\ \A k \in 1 .. n : s[k] = s[k - 1] + f[k]
                                   /\ Sum(f, n) = s[n]
<1> DEFINE c == CHOOSE s : s = [k \in 0 .. n |-> IF k = 0 THEN 0 ELSE s[k - 1] + f[k]]
<1>1. PICK G : G = [k \in 1 .. n |-> [x \in Int |-> x + f[k]]]
  OBVIOUS
<1>2. PICK s : Solves(s, Int, 0, n, G)
  <2>1. 0 \in Int /\ G \in [1 .. n -> [Int -> Int]]
    BY <1>1
  <2> QED BY <2>1, Recursion, Zenon
<1>3. \A k \in 1 .. n : s[k] = s[k - 1] + f[k]
  <2> TAKE k \in 1 .. n
  <2>1. s[k - 1] \in Int /\ s[k] = G[k][s[k - 1]]
    BY <1>2 DEF Solves
  <2>2. G[k] = [x \in Int |-> x + f[k]]
    BY <1>1
  <2> QED BY <2>1, <2>2
<1>4. s = [k \in 0 .. n |-> IF k = 0 THEN 0 ELSE s[k - 1] + f[k]]
  BY <1>2, <1>3 DEF Solves
<1>5. c = [k \in 0 .. n |-> IF k = 0 THEN 0 ELSE c[k - 1] + f[k]]
  BY <1>4, Zenon
<1>6. Sum(f, n) = c[n]
  BY DEF Sum
<1> HIDE DEF c
<1>7. c[0] = 0 /\ \A k \in 1 .. n : c[k] = c[k - 1] + f[k]
  BY <1>5
<1>8. \A k \in 0 .. n : c[k] \in Int
  <2>1. c[0] \in Int /\ \A k \in 1 .. n : c[k - 1] \in Int => c[k] \in Int
    BY <1>7
  <2> QED BY <2>1, ValuesStay, Zenon
<1>9. c \in [0 .. n -> Int]
  BY <1>5, <1>8
<1> QED BY <1>6, <1>7, <1>9

(* Sums of integers may be regrouped. *)
LEMMA PlusAssoc == ASSUME NEW a \in Int, NEW b \in Int, NEW c \in Int PROVE (a + b) + c = a + (b + c)
OBVIOUS

(* Four terms, added in pairs. *)
LEMMA PlusPairs ==
  ASSUME NEW a \in Int, NEW b \in Int, NEW u \in Int, NEW v \in Int
  PROVE a + b \in Int /\ u + v \in Int /\ (a + b) + (u + v) = (a + u) + (b + v)
OBVIOUS

(* Modulo BYTE, g is f but for d more at place i. *)
Shifted(f, g, n, i, d) ==
  \A k \in 1 .. n : Residue(g[k]) = Residue(f[k] + (IF k = i THEN d ELSE 0))

(* The sums of a function and of one so shifted differ by d. *)
LEMMA SumShift ==
  ASSUME NEW n \in Nat, NEW f \in [1 .. n -> Int], NEW g \in [1 .. n -> Int],
         NEW i \in Int, NEW d \in Int,
         Shifted(f, g, n, i, d)
  PROVE /\ Sum(f, n) \in Int /\ Sum(g, n) \in Int
        /\ Residue(Sum(g, n)) = Residue(Sum(f, n) + (IF i \in 1 .. n THEN d ELSE 0))
<1>1. PICK s \in [0 .. n -> Int] :
        s[0] = 0 /\ (\A k \in 1 .. n : s[k] = s[k - 1] + f[k]) /\ Sum(f, n) = s[n]
  BY SumSteps
<1>2. PICK t \in [0 .. n -> Int] :
        t[0] = 0 /\ (\A k \in 1 .. n : t[k] = t[k - 1] + g[k]) /\ Sum(g, n) = t[n]
  BY SumSteps
<1>3. PICK S : S = [k \in 0 .. n |-> IF i \in 1 .. k THEN d ELSE 0]
  OBVIOUS
<1>4. PICK E : E = [k \in 1 .. n |-> IF k = i THEN d ELSE 0]
  OBVIOUS
<1>5. S \in [0 .. n -> Int] /\ E \in [1 .. n -> Int] /\ S[0] = 0
  BY <1>3, <1>4
<1>6. \A k \in 1 .. n : S[k] = S[k - 1] + E[k]
  BY <1>3, <1>4
<1>7. \A k \in 1 .. n : Residue(g[k]) = Residue(f[k] + E[k])
  BY <1>4 DEF Shifted
<1> DEFINE T == {k \in 0 .. n : Residue(t[k]) = Residue(s[k] + S[k])}
<1>8. 0 \in T
  BY <1>1, <1>2, <1>5
<1>9. ASSUME NEW k \in 1 .. n, k - 1 \in T PROVE k \in T
  <2>1. k - 1 \in 0 .. n
    OBVIOUS
  <2>2. s[k - 1] \in Int /\ t[k - 1] \in Int /\ S[k - 1] \in Int
    BY <2>1, <1>5
  <2>3. f[k] \in Int /\ g[k] \in Int /\ E[k] \in Int
    BY <1>5
  <2>4. PICK a \in Int, b \in Int, c \in Int : a = s[k - 1] /\ b = S[k - 1] /\ c = t[k - 1]
    BY <2>2, Zenon
  <2>5. PICK u \in Int, v \in Int, w \in Int : u = f[k] /\ v = E[k] /\ w = g[k]
    BY <2>3, Zenon
  <2>6. PICK x \in Int, y \in Int : x = a + b /\ y = u + v
    OBVIOUS
  <2>7. Residue(c) = Residue(x) /\ Residue(w) = Residue(y)
    BY <1>7, <1>9, <2>4, <2>5, <2>6
  <2>8. Residue(c + w) = Residue((a + u) + (b + v))
    <3>1. Residue(c + w) = Residue(x + y)
      BY <2>7, ResiduePlus
    <3>2. x + y = (a + u) + (b + v)
      BY <2>6
    <3> QED BY <3>1, <3>2
  <2>9. t[k] = t[k - 1] + g[k] /\ s[k] = s[k - 1] + f[k] /\ S[k] = S[k - 1] + E[k]
    BY <1>1, <1>2, <1>6
  <2>10. Residue(t[k]) = Residue(s[k] + S[k])
    BY <2>4, <2>5, <2>8, <2>9
  <2> QED BY <2>10
<1>10. \A k \in 0 .. n : k \in T
  <2> HIDE DEF T
  <2> QED BY <1>8, <1>9, InductiveRange
<1>11. Residue(t[n]) = Residue(s[n] + S[n])
  BY <1>10
<1>12. S[n] = IF i \in 1 .. n THEN d ELSE 0
  BY <1>3
<1> QED BY <1>1, <1>2, <1>11, <1>12

(* A sum with one more member at its head. *)
LEMMA SumPrepend ==
  ASSUME NEW n \in Nat, NEW f \in [1 .. n -> Int], NEW g \in [1 .. (n + 1) -> Int],
         \A k \in 1 .. n : g[k + 1] = f[k]
  PROVE Sum(g, n + 1) = g[1] + Sum(f, n)
<1>1. PICK s \in [0 .. n -> Int] :
        s[0] = 0 /\ (\A k \in 1 .. n : s[k] = s[k - 1] + f[k]) /\ Sum(f, n) = s[n]
  BY SumSteps
<1>2. PICK t \in [0 .. (n + 1) -> Int] :
        t[0] = 0 /\ (\A k \in 1 .. (n + 1) : t[k] = t[k - 1] + g[k]) /\ Sum(g, n + 1) = t[n + 1]
  <2>1. n + 1 \in Nat
    OBVIOUS
  <2> QED BY <2>1, SumSteps
<1> DEFINE T == {k \in 0 .. n : t[k + 1] = g[1] + s[k]}
<1>3. 0 \in T
  BY <1>1, <1>2
<1>4. ASSUME NEW k \in 1 .. n, k - 1 \in T PROVE k \in T
  <2>1. t[k] = g[1] + s[k - 1]
    <3>1. (k - 1) + 1 = k
      OBVIOUS
    <3> QED BY <1>4, <3>1
  <2>2. k + 1 \in 1 .. (n + 1) /\ (k + 1) - 1 = k
    OBVIOUS
  <2>3. t[k + 1] = t[k] + g[k + 1]
    BY <1>2, <2>2
  <2>4. g[k + 1] = f[k] /\ s[k] = s[k - 1] + f[k]
    BY <1>1
  <2>5. g[1] \in Int /\ s[k - 1] \in Int /\ f[k] \in Int
    OBVIOUS
  <2>6. (g[1] + s[k - 1]) + f[k] = g[1] + (s[k - 1] + f[k])
    BY <2>5, PlusAssoc
  <2>7. t[k + 1] = g[1] + s[k]
    BY <2>1, <2>3, <2>4, <2>6
  <2> QED BY <2>7
<1>5. \A k \in 0 .. n : k \in T
  <2> HIDE DEF T
  <2> QED BY <1>3, <1>4, InductiveRange
<1>6. t[n + 1] = g[1] + s[n]
  BY <1>5
<1> QED BY <1>1, <1>2, <1>6

(* Sequences over a smaller set. *)
LEMMA SeqSubset == ASSUME NEW A, NEW B, A \subseteq B PROVE Seq(A) \subseteq Seq(B)
OBVIOUS

(* Two sequences in a row. *)
LEMMA SeqJoin ==
  ASSUME NEW A, NEW s \in Seq(A), NEW t \in Seq(A)
  PROVE s \o t \in Seq(A)
OBVIOUS

(* A sequence of one, and of none. *)
LEMMA SeqOne == ASSUME NEW A, NEW x \in A PROVE <<x>> \in Seq(A) /\ << >> \in Seq(A)
OBVIOUS

(* A sequence with one more member at its head. *)
LEMMA SeqPrepend ==
  ASSUME NEW A, NEW x \in A, NEW s \in Seq(A), NEW m, m = <<x>> \o s
  PROVE /\ m \in Seq(A) /\ m # << >> /\ Len(m) = Len(s) + 1
        /\ Head(m) = x /\ m[1] = x /\ 1 \in DOMAIN m
        /\ \A k \in DOMAIN s : k + 1 \in DOMAIN m /\ m[k + 1] = s[k]
        /\ \A k \in DOMAIN m : k # 1 => k - 1 \in DOMAIN s /\ m[k] = s[k - 1]
<1>1. <<x>> \in Seq(A) /\ Len(<<x>>) = 1 /\ <<x>>[1] = x
  OBVIOUS
<1>2. PICK n \in Nat : n = Len(s) /\ DOMAIN s = 1 .. n
  OBVIOUS
<1>4. m \in Seq(A) /\ Len(m) = n + 1 /\ DOMAIN m = 1 .. (n + 1)
  BY <1>1, <1>2
<1>5. m[1] = x /\ Head(m) = x
  BY <1>1, <1>4
<1>6. \A k \in 1 .. (n + 1) : k # 1 => k - 1 \in 1 .. n /\ m[k] = s[k - 1]
  BY <1>1, <1>2
<1>7. \A k \in 1 .. n : k + 1 \in 1 .. (n + 1) /\ m[k + 1] = s[k]
  <2> TAKE k \in 1 .. n
  <2>1. k + 1 \in 1 .. (n + 1) /\ k + 1 # 1 /\ (k + 1) - 1 = k
    OBVIOUS
  <2> QED BY <1>6, <2>1
<1>8. m # << >>
  BY <1>4
<1> QED BY <1>2, <1>4, <1>5, <1>6, <1>7, <1>8

(* Sequences over X joined are a sequence over X. *)
LEMMA JoinedType ==
  ASSUME NEW X, NEW n \in Nat, NEW q \in [1 .. n -> Seq(X)]
  PROVE Joined(q, n) \in Seq(X)
<1> DEFINE c == CHOOSE f : f = [i \in 0 .. n |-> IF i = 0 THEN << >> ELSE f[i - 1] \o q[i]]
<1>1. PICK V : V = Seq(X)
  OBVIOUS
<1>2. << >> \in V /\ q \in [1 .. n -> V] /\ \A v, w \in V : v \o w \in V
  BY <1>1, SeqJoin
<1>3. PICK G : G = [i \in 1 .. n |-> [v \in V |-> v \o q[i]]]
  OBVIOUS
<1>4. G \in [1 .. n -> [V -> V]]
  BY <1>2, <1>3
<1>5. PICK s : Solves(s, V, << >>, n, G)
  BY <1>2, <1>4, Recursion, Zenon
<1>6. \A i \in 1 .. n : s[i] = s[i - 1] \o q[i]
  <2> TAKE i \in 1 .. n
  <2>1. s[i - 1] \in V /\ s[i] = G[i][s[i - 1]]
    BY <1>5 DEF Solves
  <2> QED BY <1>3, <2>1
<1>7. s = [i \in 0 .. n |-> IF i = 0 THEN << >> ELSE s[i - 1] \o q[i]]
  <2>1. s[0] = << >> /\ s = [i \in 0 .. n |-> s[i]]
    BY <1>5 DEF Solves
  <2>2. \A i \in 0 .. n : s[i] = IF i = 0 THEN << >> ELSE s[i - 1] \o q[i]
    <3> TAKE i \in 0 .. n
    <3>1. i # 0 => i \in 1 .. n
      OBVIOUS
    <3> QED BY <2>1, <1>6, <3>1
  <2> QED BY <2>1, <2>2
<1>8. c = [i \in 0 .. n |-> IF i = 0 THEN << >> ELSE c[i - 1] \o q[i]]
  BY <1>7, Zenon
<1>9. Joined(q, n) = c[n]
  BY DEF Joined
<1> HIDE DEF c
<1>10. c[0] \in V /\ \A i \in 1 .. n : c[i - 1] \in V => c[i] \in V
  <2>1. c[0] = << >> /\ \A i \in 1 .. n : c[i] = c[i - 1] \o q[i]
    <3>1. \A i \in 0 .. n : c[i] = IF i = 0 THEN << >> ELSE c[i - 1] \o q[i]
      BY <1>8, Zenon
    <3>2. 0 \in 0 .. n /\ \A i \in 1 .. n : i \in 0 .. n /\ i # 0
      OBVIOUS
    <3> QED BY <3>1, <3>2
  <2> QED BY <1>2, <2>1
<1>11. c[n] \in V
  <2>1. \A k \in 0 .. n : c[k] \in V
    BY <1>10, ValuesStay, Zenon
  <2> QED BY <2>1
<1> QED BY <1>1, <1>9, <1>11

PacketRecord == [hostid : Host, timestamp : Stamp, noticed : SUBSET PageIndex]

(* The packets that a list of host j's intervals can give, at places S. *)
PacketSet(j, list, S) == {Packet(j, list[i]) : i \in S \cap DOMAIN list}

(* The packets of a list of intervals are those of its chosen members. *)
LEMMA PacketsInAre ==
  ASSUME NEW j, NEW T, NEW list \in Seq(T), NEW S
  PROVE PacketsIn(j, list, S) \in Seq(PacketSet(j, list, S))
<1>1. PICK n \in Nat : n = Len(list) /\ DOMAIN list = 1 .. n
  OBVIOUS
<1> DEFINE At(i) == IF i \in S /\ list[i].noticed # {} THEN <<Packet(j, list[i])>> ELSE << >>
<1>2. PICK X : X = PacketSet(j, list, S)
  OBVIOUS
<1>3. ASSUME NEW i \in 1 .. n PROVE At(n + 1 - i) \in Seq(X)
  <2>1. PICK k \in 1 .. n : k = n + 1 - i
    OBVIOUS
  <2>2. k \in S => Packet(j, list[k]) \in X
    BY <1>1, <1>2 DEF PacketSet
  <2>3. At(k) \in Seq(X)
    BY <2>2, SeqOne
  <2> QED BY <2>1, <2>3
<1>4. PacketsIn(j, list, S) = Joined([i \in 1 .. n |-> At(n + 1 - i)], n)
  BY <1>1 DEF PacketsIn
<1> HIDE DEF At
<1>5. [i \in 1 .. n |-> At(n + 1 - i)] \in [1 .. n -> Seq(X)]
  BY <1>3
<1>6. PacketsIn(j, list, S) \in Seq(X)
  BY <1>4, <1>5, JoinedType
<1> QED BY <1>2, <1>6

(* What h can tell of intervals that come after ts. *)
NewsSet(h, ts) ==
  UNION {{Packet(j, intervals[h][j][i]) :
            i \in {k \in DOMAIN intervals[h][j] : isAfterInterval(intervals[h][j][k].timestamp, ts)}} :
         j \in Host}

(* What grantWNI sends of all hosts but the one that asks. *)
LEMMA PacketsAre ==
  ASSUME NEW h, NEW ts, NEW T, \A j \in Host : intervals[h][j] \in Seq(T)
  PROVE Packets(h, ts) \in Seq(NewsSet(h, ts))
<1>1. PICK X : X = NewsSet(h, ts)
  OBVIOUS
<1>2. ASSUME NEW i \in 1 .. hostnum PROVE PacketsOf(h, i - 1, ts) \in Seq(X)
  <2>1. PICK j \in Host : j = i - 1
    BY HostNumAssumption DEF Host
  <2>2. PICK list : list = intervals[h][j]
    OBVIOUS
  <2>3. PICK S : S = {k \in DOMAIN list : isAfterInterval(list[k].timestamp, ts)}
    OBVIOUS
  <2>4. PacketsOf(h, j, ts) = PacketsIn(j, list, S)
    BY <2>2, <2>3 DEF PacketsOf
  <2>5. PacketsIn(j, list, S) \in Seq(PacketSet(j, list, S))
    BY <2>2, PacketsInAre
  <2>6. PacketSet(j, list, S) \subseteq X
    BY <1>1, <2>2, <2>3 DEF PacketSet, NewsSet
  <2>7. PacketsOf(h, j, ts) \in Seq(X)
    BY <2>4, <2>5, <2>6, SeqSubset
  <2> QED BY <2>1, <2>7
<1>3. [i \in 1 .. hostnum |-> PacketsOf(h, i - 1, ts)] \in [1 .. hostnum -> Seq(X)]
  BY <1>2
<1>4. hostnum \in Nat
  BY HostNumAssumption
<1>5. Packets(h, ts) \in Seq(X)
  BY <1>3, <1>4, JoinedType DEF Packets
<1> QED BY <1>1, <1>5

(* What fetchDiff asks for: notices of the page from other hosts. *)
MissingSet(h, p) ==
  UNION {{[hostid |-> j, timestamp |-> notices[h][p][j][i].timestamp] : i \in DOMAIN notices[h][p][j]} :
         j \in Host \ {h}}

(* The diffs that fetchDiff has to ask for, of one host and of all. *)
LEMMA MissingFromAre ==
  ASSUME NEW h, NEW p, NEW T, NEW j \in Host, notices[h][p][j] \in Seq(T)
  PROVE MissingFrom(h, p, j) \in Seq(MissingSet(h, p))
<1>1. PICK X : X = MissingSet(h, p)
  OBVIOUS
<1>2. PICK list : list = notices[h][p][j]
  OBVIOUS
<1>3. PICK n \in Nat : n = Len(list) /\ DOMAIN list = 1 .. n
  BY <1>2
<1> DEFINE Wanted(k) == /\ \A l \in 1 .. k : list[l].diff = None
                        /\ pages[h][p].start = None \/ isAfterInterval(list[k].timestamp, pages[h][p].start)
           At(k) == IF j # h /\ Wanted(k) THEN <<[hostid |-> j, timestamp |-> list[k].timestamp]>>
                    ELSE << >>
<1>4. ASSUME NEW k \in 1 .. n PROVE At(k) \in Seq(X)
  <2> HIDE DEF Wanted
  <2>1. j # h => [hostid |-> j, timestamp |-> list[k].timestamp] \in X
    BY <1>1, <1>2, <1>3 DEF MissingSet
  <2> QED BY <2>1, SeqOne
<1>5. MissingFrom(h, p, j) = Joined([k \in 1 .. n |-> At(k)], n)
  BY <1>2, <1>3 DEF MissingFrom
<1> HIDE DEF At
<1>6. [k \in 1 .. n |-> At(k)] \in [1 .. n -> Seq(X)]
  BY <1>4
<1>7. MissingFrom(h, p, j) \in Seq(X)
  BY <1>5, <1>6, JoinedType
<1> QED BY <1>1, <1>7

(* Arithmetic modulo n, as chars compute it. *)
LEMMA ModRange == ASSUME NEW n \in Nat \ {0}, NEW a \in Int PROVE a % n \in 0 .. (n - 1)
OBVIOUS

(* A diff is a page of differences, and applying one gives a page. *)
LEMMA DiffType ==
  ASSUME NEW p \in Page, NEW q \in Page
  PROVE createLocalDiff(p, q) \in Page /\ applyDiff(p, q) \in Page
<1>1. ASSUME NEW c \in Cell PROVE (p[c] - q[c]) % BYTE \in 0 .. (BYTE - 1)
  <2>1. p[c] - q[c] \in Int
    BY ByteAssumption DEF Page
  <2> QED BY <2>1, ModRange, ByteAssumption
<1>2. ASSUME NEW c \in Cell PROVE (p[c] + q[c]) % BYTE \in 0 .. (BYTE - 1)
  <2>1. p[c] + q[c] \in Int
    BY ByteAssumption DEF Page
  <2> QED BY <2>1, ModRange, ByteAssumption
<1> QED BY <1>1, <1>2 DEF createLocalDiff, applyDiff, Page

(* A page and a diff are not None. *)
LEMMA PageIsSome ==
  ASSUME NEW p \in Page
  PROVE p # None /\ \A c \in Cell : p[c] \in Int
<1>1. DOMAIN p = Cell /\ DOMAIN None = {}
  BY DEF Page, None
<1> QED BY <1>1, CellAssumption, ByteAssumption DEF Page

(* What the notice at place i of a list adds to a cell. *)
Share(list, c) == [i \in DOMAIN list |-> IF list[i].diff = None THEN 0 ELSE list[i].diff[c]]

(* The shares that the notices of a list have in a byte. *)
LEMMA ShareType ==
  ASSUME NEW list \in Seq(NoticeRecord), NEW c \in Cell
  PROVE /\ Len(list) \in Nat /\ DOMAIN list = 1 .. Len(list)
        /\ Share(list, c) \in [1 .. Len(list) -> Int]
        /\ InDiffs(list, c) = Sum(Share(list, c), Len(list))
<1>1. Len(list) \in Nat /\ DOMAIN list = 1 .. Len(list)
  OBVIOUS
<1>2. ASSUME NEW i \in DOMAIN list PROVE (IF list[i].diff = None THEN 0 ELSE list[i].diff[c]) \in Int
  <2>1. list[i] \in NoticeRecord
    OBVIOUS
  <2>2. list[i].diff \in Page \cup {None}
    BY <2>1 DEF NoticeRecord
  <2> QED BY <2>2, PageIsSome
<1> QED BY <1>1, <1>2 DEF Share, InDiffs

(* Their sum is an integer. *)
LEMMA InDiffsType ==
  ASSUME NEW list \in Seq(NoticeRecord), NEW c \in Cell
  PROVE InDiffs(list, c) \in Int
<1>1. PICK n \in Nat : n = Len(list)
  OBVIOUS
<1>2. PICK f \in [1 .. n -> Int] : InDiffs(list, c) = Sum(f, n)
  BY <1>1, ShareType
<1>3. PICK s \in [0 .. n -> Int] : Sum(f, n) = s[n]
  BY SumSteps
<1> QED BY <1>2, <1>3

(* A notice without a diff adds nothing. *)
LEMMA InDiffsNotice ==
  ASSUME NEW list \in Seq(NoticeRecord), NEW c \in Cell, NEW ts \in Stamp
  PROVE /\ <<Notice(ts)>> \o list \in Seq(NoticeRecord)
        /\ InDiffs(<<Notice(ts)>> \o list, c) = InDiffs(list, c)
<1>0. PICK x \in NoticeRecord : x = Notice(ts) /\ x.diff = None
  <2>1. Notice(ts) \in NoticeRecord /\ Notice(ts).diff = None
    BY DEF Notice, NoticeRecord
  <2> QED BY <2>1
<1>1. PICK more : more = <<x>> \o list
  OBVIOUS
<1>2. more = <<Notice(ts)>> \o list
  BY <1>0, <1>1, Zenon
<1>3. more \in Seq(NoticeRecord) /\ Len(more) = Len(list) + 1
      /\ more[1] = x /\ \A k \in DOMAIN list : more[k + 1] = list[k]
  <2>1. more \in Seq(NoticeRecord)
    BY <1>1
  <2> QED BY <1>1, <2>1, SeqPrepend
<1>a. PICK n \in Nat : n = Len(list)
  OBVIOUS
<1>4. PICK f \in [1 .. n -> Int] : n = Len(list) /\ f = Share(list, c) /\ DOMAIN list = 1 .. n
  BY <1>a, ShareType
<1>5. PICK g \in [1 .. (n + 1) -> Int] : g = Share(more, c) /\ DOMAIN more = 1 .. (n + 1)
  BY <1>3, <1>4, ShareType
<1>6. g[1] = 0
  BY <1>0, <1>3, <1>5 DEF Share
<1>7. \A k \in 1 .. n : g[k + 1] = f[k]
  <2> TAKE k \in 1 .. n
  <2>1. k + 1 \in DOMAIN more /\ more[k + 1] = list[k] /\ k \in DOMAIN list
    <3>1. k \in DOMAIN list
      BY <1>4
    <3>2. k + 1 \in 1 .. (n + 1)
      OBVIOUS
    <3> QED BY <1>3, <1>5, <3>1, <3>2
  <2> QED BY <1>4, <1>5, <2>1 DEF Share
<1>8. Sum(g, n + 1) = g[1] + Sum(f, n)
  BY <1>4, <1>7, SumPrepend, Zenon
<1>9. InDiffs(list, c) = Sum(f, n) /\ InDiffs(more, c) = Sum(g, n + 1)
  BY <1>3, <1>4, <1>5, ShareType
<1>10. InDiffs(list, c) \in Int
  BY InDiffsType
<1>11. InDiffs(more, c) = InDiffs(list, c)
  BY <1>6, <1>8, <1>9, <1>10
<1> QED BY <1>2, <1>3, <1>11, Zenon

(* A diff made for the notice at place i adds its bytes. *)
LEMMA InDiffsMade ==
  ASSUME NEW list \in Seq(NoticeRecord), NEW next \in Seq(NoticeRecord), NEW c \in Cell,
         NEW i \in DOMAIN list, NEW d \in Page,
         DOMAIN next = DOMAIN list, list[i].diff = None, next[i].diff = d,
         \A k \in DOMAIN list : k # i => next[k].diff = list[k].diff
  PROVE Residue(InDiffs(next, c)) = Residue(InDiffs(list, c) + d[c])
<1>a. PICK n \in Nat : n = Len(list)
  OBVIOUS
<1>1. PICK f \in [1 .. n -> Int] : n = Len(list) /\ f = Share(list, c) /\ DOMAIN list = 1 .. n
  BY <1>a, ShareType
<1>2. Len(next) = n
  BY <1>1
<1>3. PICK g \in [1 .. n -> Int] : g = Share(next, c)
  BY <1>2, ShareType
<1>4. PICK e \in Int : e = d[c] /\ d # None
  BY PageIsSome
<1>5. PICK l \in Int : l = i /\ l \in 1 .. n
  BY <1>1
<1>6. \A k \in 1 .. n : g[k] = f[k] + (IF k = l THEN e ELSE 0)
  <2> TAKE k \in 1 .. n
  <2>1. CASE k = i
    BY <1>1, <1>3, <1>4, <1>5, <2>1 DEF Share
  <2>2. CASE k # i
    <3>1. f[k] \in Int
      BY <1>1
    <3>2. g[k] = f[k]
      BY <1>1, <1>3, <2>2 DEF Share
    <3> QED BY <1>5, <2>2, <3>1, <3>2
  <2> QED BY <2>1, <2>2
<1>7. Residue(Sum(g, n)) = Residue(Sum(f, n) + e)
  <2>1. Shifted(f, g, n, l, e)
    BY <1>6 DEF Shifted
  <2>2. Residue(Sum(g, n)) = Residue(Sum(f, n) + (IF l \in 1 .. n THEN e ELSE 0))
    <3>1. f \in [1 .. n -> Int]
      BY <1>1
    <3> QED BY <2>1, <3>1, SumShift, Zenon
  <2> QED BY <1>5, <2>2
<1>8. InDiffs(list, c) = Sum(f, n) /\ InDiffs(next, c) = Sum(g, n)
  BY <1>1, <1>2, <1>3, ShareType
<1> QED BY <1>4, <1>7, <1>8

(* The same diffs, the same sum. *)
LEMMA InDiffsSame ==
  ASSUME NEW list \in Seq(NoticeRecord), NEW next \in Seq(NoticeRecord), NEW c \in Cell,
         DOMAIN next = DOMAIN list, \A k \in DOMAIN list : next[k].diff = list[k].diff
  PROVE InDiffs(next, c) = InDiffs(list, c)
<1>1. Share(next, c) = Share(list, c) /\ Len(next) = Len(list)
  BY DEF Share
<1> QED BY <1>1, ShareType

(* What incorporateWnPacket works on at a host. *)
LocalRecord == [intervals : [Host -> Seq(IntervalRecord)],
                notices : [PageIndex -> [Host -> Seq(NoticeRecord)]],
                pages : [PageIndex -> PageRecord]]

(* A write fault at page p of h is between the twin and the new state. *)
Faulting(h, p) == pc[h] \in {"twinned", "noticed"} /\ p = op[h].page

(* Every page that is being written has a twin, and its own newest notice    *)
(* waits for a diff; nothing else has, or does, but the page of a fault.     *)
Twinned(h, s) ==
  \A p \in PageIndex :
    IF Faulting(h, p) THEN s.pages[p].state # "WRITE"
    ELSE /\ s.pages[p].twin # None <=> s.pages[p].state = "WRITE"
         /\ \A i \in DOMAIN s.notices[p][h] :
              s.notices[p][h][i].diff = None <=> (i = 1 /\ s.pages[p].state = "WRITE")
         /\ s.pages[p].state = "WRITE" => s.notices[p][h] # << >>

(* The changes of host h to a cell, in the structures s. *)
WrittenIn(h, s, p, c) == InDiffs(s.notices[p][h], c) + SinceTwin(s.pages[p], c)

(* A list has an entry with timestamp ts; an interval that names page p; so  *)
(* has a set of packets, for host j.                                         *)
Timed(list, ts) == \E i \in DOMAIN list : list[i].timestamp = ts
Noted(list, ts, p) == \E i \in DOMAIN list : list[i].timestamp = ts /\ p \in list[i].noticed
Sent(news, j, ts) == \E k \in news : k.hostid = j /\ k.timestamp = ts
Told(news, j, ts, p) == \E k \in news : k.hostid = j /\ k.timestamp = ts /\ p \in k.noticed

(* How the structures of host h go from s to t with the packets news. *)
NewIntervals(h, s, t, news) ==
  /\ t.intervals[h] = s.intervals[h]
  /\ \A j \in Host : \A i \in DOMAIN t.intervals[j] :
       LET v == t.intervals[j][i]
       IN /\ Timed(s.intervals[j], v.timestamp) \/ Sent(news, j, v.timestamp)
          /\ \A p \in v.noticed :
               Noted(s.intervals[j], v.timestamp, p) \/ Told(news, j, v.timestamp, p)

NewNotices(h, s, t, news) ==
  \A p \in PageIndex :
    /\ \A j \in Host : \A i \in DOMAIN t.notices[p][j] :
         LET ts == t.notices[p][j][i].timestamp
         IN Timed(s.notices[p][j], ts) \/ Told(news, j, ts, p)
    /\ \A i \in DOMAIN s.notices[p][h] : Timed(t.notices[p][h], s.notices[p][h][i].timestamp)

NewPages(s, t) ==
  \A p \in PageIndex : /\ t.pages[p].state = "MISS" <=> s.pages[p].state = "MISS"
                       /\ t.pages[p].state \in {s.pages[p].state, "INVALID"}

SameWritten(h, s, t) ==
  \A p \in PageIndex, c \in Cell :
    ~Faulting(h, p) => Residue(WrittenIn(h, t, p, c)) = Residue(WrittenIn(h, s, p, c))

Learned(h, s, t, news) ==
  /\ NewIntervals(h, s, t, news)
  /\ NewNotices(h, s, t, news)
  /\ NewPages(s, t)
  /\ SameWritten(h, s, t)

-----------------------------------------------------------------------------

(* A list of intervals with more pages named at one place. *)
MoreNoticed(list, next, at, P) ==
  /\ DOMAIN next = DOMAIN list
  /\ \A i \in DOMAIN list :
       /\ next[i].timestamp = list[i].timestamp
       /\ next[i].noticed = IF i = at THEN list[i].noticed \cup P ELSE list[i].noticed

(* A notice more at some pages leaves what was written. *)
LEMMA MorePages ==
  ASSUME NEW list \in Seq(IntervalRecord), NEW at \in DOMAIN list, NEW P, P \subseteq PageIndex,
         NEW next, next = [list EXCEPT ![at].noticed = @ \cup P]
  PROVE next \in Seq(IntervalRecord) /\ MoreNoticed(list, next, at, P)
<1>1. list[at] \in IntervalRecord /\ DOMAIN list = 1 .. Len(list) /\ Len(list) \in Nat
  OBVIOUS
<1>2. PICK v : v = [list[at] EXCEPT !.noticed = @ \cup P]
  OBVIOUS
<1>3. v \in IntervalRecord /\ v.timestamp = list[at].timestamp /\ v.noticed = list[at].noticed \cup P
  BY <1>1, <1>2 DEF IntervalRecord
<1>4. next = [list EXCEPT ![at] = v]
  BY <1>2
<1>5. next \in Seq(IntervalRecord) /\ DOMAIN next = DOMAIN list
      /\ \A i \in DOMAIN list : next[i] = IF i = at THEN v ELSE list[i]
  <2>1. PICK n \in Nat : list \in [1 .. n -> IntervalRecord] /\ n = Len(list) /\ at \in 1 .. n
    BY <1>1
  <2>2. next \in [1 .. n -> IntervalRecord] /\ \A i \in 1 .. n : next[i] = IF i = at THEN v ELSE list[i]
    BY <1>3, <1>4, <2>1
  <2>3. next \in Seq(IntervalRecord)
    BY <2>2
  <2> QED BY <2>1, <2>2, <2>3
<1> QED BY <1>3, <1>5 DEF MoreNoticed

(* The interval that incorporateWnPacket finds is one of those it looks for. *)
LEMMA FirstIsThere ==
  ASSUME NEW T, T # {}, T \subseteq Nat
  PROVE (CHOOSE i \in T : \A k \in T : i <= k) \in T
<1>1. \E i \in T : \A k \in T : i <= k
  BY Least
<1> QED BY <1>1, Zenon

(* A page that stops being written gives its own newest notice the diff. *)
LEMMA DiffKept ==
  ASSUME NEW pg \in PageRecord, NEW list \in Seq(NoticeRecord),
         pg.twin # None <=> pg.state = "WRITE",
         \A i \in DOMAIN list : list[i].diff = None <=> (i = 1 /\ pg.state = "WRITE"),
         pg.state = "WRITE" => list # << >>,
         NEW next, next = IF pg.state = "WRITE"
                          THEN SetDiff(list, createLocalDiff(pg.data, pg.twin)) ELSE list
  PROVE /\ next \in Seq(NoticeRecord) /\ DOMAIN next = DOMAIN list
        /\ \A i \in DOMAIN list : next[i].timestamp = list[i].timestamp /\ next[i].diff # None
        /\ \A c \in Cell : Residue(InDiffs(next, c)) = Residue(InDiffs(list, c) + SinceTwin(pg, c))
<1>1. CASE pg.state # "WRITE"
  <2>1. next = list /\ \A c \in Cell : SinceTwin(pg, c) = 0
    BY <1>1 DEF SinceTwin
  <2>2. \A c \in Cell : InDiffs(list, c) + 0 = InDiffs(list, c)
    BY InDiffsType
  <2>3. \A i \in DOMAIN list : next[i].timestamp = list[i].timestamp /\ next[i].diff # None
    BY <1>1, <2>1
  <2> QED BY <2>1, <2>2, <2>3
<1>2. CASE pg.state = "WRITE"
  <2>1. pg.data \in Page /\ pg.twin \in Page
    BY <1>2 DEF PageRecord
  <2>2. PICK d \in Page : d = createLocalDiff(pg.data, pg.twin)
    BY <2>1, DiffType
  <2>3. 1 \in DOMAIN list /\ list # << >> /\ list[1].diff = None /\ list[1] \in NoticeRecord
    BY <1>2
  <2>4. PICK v : v = [list[1] EXCEPT !.diff = d]
    OBVIOUS
  <2>5. v \in NoticeRecord /\ v.diff = d /\ v.timestamp = list[1].timestamp
    BY <2>3, <2>4 DEF NoticeRecord
  <2>6. next = [list EXCEPT ![1] = v]
    BY <1>2, <2>2, <2>3, <2>4 DEF SetDiff
  <2>7. next \in Seq(NoticeRecord) /\ DOMAIN next = DOMAIN list
        /\ \A i \in DOMAIN list : next[i] = IF i = 1 THEN v ELSE list[i]
    BY <2>3, <2>5, <2>6
  <2>8. d # None
    BY PageIsSome
  <2>9. \A i \in DOMAIN list : next[i].timestamp = list[i].timestamp /\ next[i].diff # None
    BY <2>5, <2>7, <2>8
  <2>10. ASSUME NEW c \in Cell
         PROVE Residue(InDiffs(next, c)) = Residue(InDiffs(list, c) + SinceTwin(pg, c))
    <3>1. Residue(InDiffs(next, c)) = Residue(InDiffs(list, c) + d[c])
      BY <2>3, <2>5, <2>7, InDiffsMade
    <3>2. PICK x \in Int, y \in Int, e \in Int :
            x = pg.data[c] - pg.twin[c] /\ e = d[c] /\ y = InDiffs(list, c)
      BY <2>1, InDiffsType, PageIsSome
    <3>3. SinceTwin(pg, c) = x
      BY <1>2, <3>2 DEF SinceTwin
    <3>4. e = x % BYTE
      BY <2>2, <3>2 DEF createLocalDiff
    <3>5. Residue(y + e) = Residue(y + x)
      BY <3>4, ResidueOfResidue
    <3> QED BY <3>1, <3>2, <3>3, <3>5
  <2> QED BY <2>7, <2>9, <2>10
<1> QED BY <1>1, <1>2

(* incorporateWnPacket with the notices of a packet that are new, and where   *)
(* the interval is, if it is known.                                           *)
Known(s, k) == {i \in DOMAIN s.intervals[k.hostid] : s.intervals[k.hostid][i].timestamp = k.timestamp}
At(s, k) == CHOOSE i \in Known(s, k) : \A l \in Known(s, k) : i <= l
Fresh(s, k) == k.noticed \ (IF Known(s, k) = {} THEN {}
                            ELSE s.intervals[k.hostid][At(s, k)].noticed)
Kept(h, s, p) == IF s.pages[p].state = "WRITE"
                 THEN SetDiff(s.notices[p][h], createLocalDiff(s.pages[p].data, s.pages[p].twin))
                 ELSE s.notices[p][h]

(* The result, part by part. *)
IntervalsAfter(s, k) ==
  IF Known(s, k) = {}
  THEN [s.intervals EXCEPT ![k.hostid] =
          <<[timestamp |-> k.timestamp, noticed |-> Fresh(s, k), isBarrier |-> FALSE]>> \o @]
  ELSE [s.intervals EXCEPT ![k.hostid][At(s, k)].noticed = @ \cup Fresh(s, k)]

NoticesAfter(h, s, k) ==
  [p \in PageIndex |->
     IF p \in Fresh(s, k)
     THEN [s.notices[p] EXCEPT ![h] = Kept(h, s, p), ![k.hostid] = <<Notice(k.timestamp)>> \o @]
     ELSE s.notices[p]]

PagesAfter(s, k) ==
  [p \in PageIndex |-> IF p \in Fresh(s, k) THEN Invalidated(s.pages[p]) ELSE s.pages[p]]

(* incorporateWnPacket, taken apart: intervals, notices, pages. *)
LEMMA PacketParts ==
  ASSUME NEW h \in Host, NEW s \in LocalRecord, NEW k \in PacketRecord, k.hostid # h,
         NEW t, t = incorporateWnPacket(h, s, k)
  PROVE /\ t = [intervals |-> t.intervals, notices |-> t.notices, pages |-> t.pages]
        /\ t.intervals = IntervalsAfter(s, k)
        /\ t.notices = NoticesAfter(h, s, k)
        /\ t.pages = PagesAfter(s, k)
<1>1. t.intervals = IntervalsAfter(s, k)
  BY DEF incorporateWnPacket, IntervalsAfter, Known, At, Fresh
<1>2. t.pages = PagesAfter(s, k)
  BY DEF incorporateWnPacket, PagesAfter, Known, At, Fresh
<1> DEFINE KeepDiff(p) == IF s.pages[p].state = "WRITE"
                     THEN [s.notices[p] EXCEPT ![h] =
                             SetDiff(@, createLocalDiff(s.pages[p].data, s.pages[p].twin))]
                     ELSE s.notices[p]
<1>3. t.notices = [p \in PageIndex |->
         IF p \in Fresh(s, k) THEN [KeepDiff(p) EXCEPT ![k.hostid] = <<Notice(k.timestamp)>> \o @]
         ELSE s.notices[p]]
  BY DEF incorporateWnPacket, Known, At, Fresh
<1>4. ASSUME NEW p \in PageIndex
      PROVE [KeepDiff(p) EXCEPT ![k.hostid] = <<Notice(k.timestamp)>> \o @]
            = [s.notices[p] EXCEPT ![h] = Kept(h, s, p), ![k.hostid] = <<Notice(k.timestamp)>> \o @]
  <2>1. PICK f : f = s.notices[p] /\ f \in [Host -> Seq(NoticeRecord)]
    BY DEF LocalRecord
  <2>2. PICK d : d = createLocalDiff(s.pages[p].data, s.pages[p].twin)
    OBVIOUS
  <2>3. KeepDiff(p) = [f EXCEPT ![h] = Kept(h, s, p)]
    BY <2>1, <2>2 DEF Kept
  <2> HIDE DEF KeepDiff
  <2> QED BY <2>1, <2>3
<1>5. t = [intervals |-> t.intervals, notices |-> t.notices, pages |-> t.pages]
  BY DEF incorporateWnPacket
<1> HIDE DEF KeepDiff
<1>6. t.notices = NoticesAfter(h, s, k)
  BY <1>3, <1>4 DEF NoticesAfter
<1> QED BY <1>1, <1>2, <1>5, <1>6

(* One packet of another host. *)
LEMMA PacketIntervals ==
  ASSUME NEW h \in Host, NEW s \in LocalRecord, NEW k \in PacketRecord, k.hostid # h,
         NEW t, t = incorporateWnPacket(h, s, k)
  PROVE /\ t.intervals \in [Host -> Seq(IntervalRecord)]
        /\ NewIntervals(h, s, t, {k})
        /\ Fresh(s, k) \subseteq k.noticed /\ Fresh(s, k) \subseteq PageIndex
<1>0. t.intervals = IntervalsAfter(s, k)
  BY PacketParts
<1>1. PICK f : f = s.intervals /\ f \in [Host -> Seq(IntervalRecord)]
  BY DEF LocalRecord
<1>2. PICK j \in Host : j = k.hostid
  BY DEF PacketRecord
<1>3. PICK list \in Seq(IntervalRecord) : list = f[j]
  BY <1>1
<1>4. PICK F : F = Fresh(s, k) /\ F \subseteq k.noticed /\ F \subseteq PageIndex
  BY DEF Fresh, PacketRecord
<1>5. Sent({k}, j, k.timestamp) /\ \A p \in F : Told({k}, j, k.timestamp, p)
  BY <1>2, <1>4 DEF Sent, Told
<1>6. \A g \in Host : \A i \in DOMAIN f[g] :
        Timed(f[g], f[g][i].timestamp) /\ \A p \in f[g][i].noticed : Noted(f[g], f[g][i].timestamp, p)
  BY DEF Timed, Noted
<1>7. ASSUME NEW next \in Seq(IntervalRecord), t.intervals = [f EXCEPT ![j] = next],
             \A i \in DOMAIN next :
               /\ Timed(list, next[i].timestamp) \/ Sent({k}, j, next[i].timestamp)
               /\ \A p \in next[i].noticed :
                    Noted(list, next[i].timestamp, p) \/ Told({k}, j, next[i].timestamp, p)
      PROVE t.intervals \in [Host -> Seq(IntervalRecord)] /\ NewIntervals(h, s, t, {k})
  <2>1. t.intervals \in [Host -> Seq(IntervalRecord)]
        /\ \A g \in Host : t.intervals[g] = IF g = j THEN next ELSE f[g]
    BY <1>1, <1>7
  <2>2. t.intervals[h] = s.intervals[h]
    BY <1>1, <1>2, <2>1
  <2>3. ASSUME NEW g \in Host, NEW i \in DOMAIN t.intervals[g]
        PROVE /\ Timed(f[g], t.intervals[g][i].timestamp) \/ Sent({k}, g, t.intervals[g][i].timestamp)
              /\ \A p \in t.intervals[g][i].noticed :
                   \/ Noted(f[g], t.intervals[g][i].timestamp, p)
                   \/ Told({k}, g, t.intervals[g][i].timestamp, p)
    <3>1. CASE g = j
      <4>1. t.intervals[g] = next /\ f[g] = list
        BY <1>3, <2>1, <3>1
      <4> QED BY <1>7, <3>1, <4>1
    <3>2. CASE g # j
      <4>1. t.intervals[g] = f[g]
        BY <2>1, <3>2
      <4> QED BY <1>6, <4>1
    <3> QED BY <3>1, <3>2
  <2>4. NewIntervals(h, s, t, {k})
    BY <1>1, <2>2, <2>3 DEF NewIntervals
  <2> QED BY <2>1, <2>4
<1>8. CASE Known(s, k) = {}
  <2>1. PICK v : v = [timestamp |-> k.timestamp, noticed |-> F, isBarrier |-> FALSE]
    OBVIOUS
  <2>2. v \in IntervalRecord /\ v.timestamp = k.timestamp /\ v.noticed = F
    BY <1>4, <2>1 DEF IntervalRecord, PacketRecord
  <2>3. PICK next : next = <<v>> \o list
    OBVIOUS
  <2>4. next \in Seq(IntervalRecord)
    BY <2>2, <2>3
  <2>5. \A i \in DOMAIN next : next[i] = v \/ (i - 1 \in DOMAIN list /\ next[i] = list[i - 1])
    BY <2>2, <2>3, <2>4, SeqPrepend
  <2>6. t.intervals = [f EXCEPT ![j] = next]
    <3>1. t.intervals = [s.intervals EXCEPT ![k.hostid] =
             <<[timestamp |-> k.timestamp, noticed |-> Fresh(s, k), isBarrier |-> FALSE]>> \o @]
      BY <1>0, <1>8 DEF IntervalsAfter
    <3>2. t.intervals = [f EXCEPT ![j] = <<v>> \o f[j]]
      BY <1>1, <1>2, <1>4, <2>1, <3>1
    <3> QED BY <1>3, <2>3, <3>2
  <2>7. \A i \in DOMAIN next :
               /\ Timed(list, next[i].timestamp) \/ Sent({k}, j, next[i].timestamp)
               /\ \A p \in next[i].noticed :
                    Noted(list, next[i].timestamp, p) \/ Told({k}, j, next[i].timestamp, p)
    BY <1>3, <1>5, <1>6, <2>2, <2>5
  <2> QED BY <1>4, <1>7, <2>4, <2>6, <2>7
<1>9. CASE Known(s, k) # {}
  <2>1. PICK at : at = At(s, k) /\ at \in DOMAIN list /\ list[at].timestamp = k.timestamp
    <3>1. Known(s, k) \subseteq Nat
      BY <1>1, <1>2, <1>3 DEF Known
    <3>2. At(s, k) \in Known(s, k)
      BY <1>9, <3>1, FirstIsThere DEF At
    <3> QED BY <1>1, <1>2, <1>3, <3>2 DEF Known
  <2>2. PICK next : next = [list EXCEPT ![at].noticed = @ \cup F]
    OBVIOUS
  <2>3. next \in Seq(IntervalRecord) /\ MoreNoticed(list, next, at, F)
    <3>1. at \in DOMAIN list /\ F \subseteq PageIndex
      BY <1>4, <2>1
    <3> QED BY <2>2, <3>1, MorePages, Zenon
  <2>4. t.intervals = [f EXCEPT ![j][at].noticed = @ \cup F]
    <3>1. t.intervals = [s.intervals EXCEPT ![k.hostid][At(s, k)].noticed = @ \cup Fresh(s, k)]
      BY <1>0, <1>9 DEF IntervalsAfter
    <3> QED BY <1>1, <1>2, <1>4, <2>1, <3>1
  <2>5. t.intervals = [f EXCEPT ![j] = next]
    BY <1>1, <1>3, <2>2, <2>4
  <2>6. \A i \in DOMAIN next :
               /\ Timed(list, next[i].timestamp) \/ Sent({k}, j, next[i].timestamp)
               /\ \A p \in next[i].noticed :
                    Noted(list, next[i].timestamp, p) \/ Told({k}, j, next[i].timestamp, p)
    BY <1>3, <1>5, <1>6, <2>1, <2>3 DEF MoreNoticed
  <2> QED BY <1>4, <1>7, <2>3, <2>5, <2>6
<1> QED BY <1>8, <1>9

(* A page that loses its twin to a diff, and its rights. *)
LEMMA InvalidatedPage ==
  ASSUME NEW pg \in PageRecord
  PROVE /\ Invalidated(pg) \in PageRecord /\ Invalidated(pg).state # "WRITE"
        /\ Invalidated(pg).state \in {pg.state, "INVALID"}
        /\ Invalidated(pg).state = "MISS" <=> pg.state = "MISS"
        /\ (pg.twin # None <=> pg.state = "WRITE") =>
             Invalidated(pg).twin = None /\ \A c \in Cell : SinceTwin(Invalidated(pg), c) = 0
<1>1. Invalidated(pg) \in PageRecord
  BY DEF Invalidated, freeTwinPage, PageRecord
<1>2. /\ Invalidated(pg).state # "WRITE" /\ Invalidated(pg).state \in {pg.state, "INVALID"}
      /\ (pg.twin # None <=> pg.state = "WRITE") => Invalidated(pg).twin = None
      /\ Invalidated(pg).state = "MISS" <=> pg.state = "MISS"
  BY DEF Invalidated, freeTwinPage, PageRecord
<1> QED BY <1>1, <1>2 DEF SinceTwin

(* One packet of another host: what changes for one page. *)
PageLearned(h, s, t, k, p) ==
  /\ t.notices[p] \in [Host -> Seq(NoticeRecord)]
  /\ t.pages[p] \in PageRecord
  /\ IF Faulting(h, p) THEN t.pages[p].state # "WRITE"
     ELSE /\ t.pages[p].twin # None <=> t.pages[p].state = "WRITE"
          /\ \A i \in DOMAIN t.notices[p][h] :
               t.notices[p][h][i].diff = None <=> (i = 1 /\ t.pages[p].state = "WRITE")
          /\ t.pages[p].state = "WRITE" => t.notices[p][h] # << >>
  /\ \A j \in Host : \A i \in DOMAIN t.notices[p][j] :
       \/ Timed(s.notices[p][j], t.notices[p][j][i].timestamp)
       \/ Told({k}, j, t.notices[p][j][i].timestamp, p)
  /\ \A i \in DOMAIN s.notices[p][h] : Timed(t.notices[p][h], s.notices[p][h][i].timestamp)
  /\ t.pages[p].state = "MISS" <=> s.pages[p].state = "MISS"
  /\ t.pages[p].state \in {s.pages[p].state, "INVALID"}
  /\ ~Faulting(h, p) =>
       \A c \in Cell : Residue(WrittenIn(h, t, p, c)) = Residue(WrittenIn(h, s, p, c))

(* What a packet does to one page and to its notices. *)
LEMMA PacketPage ==
  ASSUME NEW h \in Host, NEW s \in LocalRecord, Twinned(h, s), NEW k \in PacketRecord, k.hostid # h,
         NEW t, t = incorporateWnPacket(h, s, k), NEW p \in PageIndex
  PROVE PageLearned(h, s, t, k, p)
<1>1. t.notices = NoticesAfter(h, s, k) /\ t.pages = PagesAfter(s, k)
  BY PacketParts
<1>2. PICK pg \in PageRecord : pg = s.pages[p]
  BY DEF LocalRecord
<1>3. PICK f \in [Host -> Seq(NoticeRecord)] : f = s.notices[p]
  BY DEF LocalRecord
<1>4. IF Faulting(h, p) THEN pg.state # "WRITE"
      ELSE /\ pg.twin # None <=> pg.state = "WRITE"
           /\ \A i \in DOMAIN f[h] : f[h][i].diff = None <=> (i = 1 /\ pg.state = "WRITE")
           /\ pg.state = "WRITE" => f[h] # << >>
  BY <1>2, <1>3 DEF Twinned
<1>5. \A j \in Host : \A i \in DOMAIN f[j] : Timed(f[j], f[j][i].timestamp)
  BY DEF Timed
<1>6. CASE p \notin Fresh(s, k)
  <2>1. t.notices[p] = f /\ t.pages[p] = pg
    BY <1>1, <1>2, <1>3, <1>6 DEF NoticesAfter, PagesAfter
  <2>2. \A c \in Cell : WrittenIn(h, t, p, c) = WrittenIn(h, s, p, c)
    BY <1>2, <1>3, <2>1 DEF WrittenIn
  <2> QED BY <1>2, <1>3, <1>4, <1>5, <2>1, <2>2 DEF PageLearned
<1>7. CASE p \in Fresh(s, k)
  <2>1. PICK j \in Host : j = k.hostid /\ j # h
    BY DEF PacketRecord
  <2>2. k.timestamp \in Stamp /\ p \in k.noticed
    BY <1>7 DEF PacketRecord, Fresh
  <2>3. Told({k}, j, k.timestamp, p)
    BY <2>1, <2>2 DEF Told
  <2>4. PICK own : own = Kept(h, s, p)
    OBVIOUS
  <2>5. own = IF pg.state = "WRITE" THEN SetDiff(f[h], createLocalDiff(pg.data, pg.twin)) ELSE f[h]
    BY <1>2, <1>3, <2>4 DEF Kept
  <2>6. f[h] \in Seq(NoticeRecord)
    OBVIOUS
  <2>7. /\ own \in Seq(NoticeRecord) /\ DOMAIN own = DOMAIN f[h]
        /\ \A i \in DOMAIN f[h] : own[i].timestamp = f[h][i].timestamp
    <3>1. CASE Faulting(h, p)
      BY <1>4, <2>5, <2>6, <3>1
    <3>2. CASE ~Faulting(h, p)
      BY <1>4, <2>5, <2>6, <3>2, DiffKept
    <3> QED BY <3>1, <3>2
  <2>8. ~Faulting(h, p) => \A i \in DOMAIN f[h] : own[i].diff # None
    BY <1>4, <2>5, <2>6, DiffKept
  <2>9. ~Faulting(h, p) =>
          \A c \in Cell : Residue(InDiffs(own, c)) = Residue(InDiffs(f[h], c) + SinceTwin(pg, c))
    BY <1>4, <2>5, <2>6, DiffKept
  <2>10. PICK x \in NoticeRecord : x = Notice(k.timestamp) /\ x.timestamp = k.timestamp
    <3>1. Notice(k.timestamp) \in NoticeRecord /\ Notice(k.timestamp).timestamp = k.timestamp
      BY <2>2 DEF Notice, NoticeRecord
    <3> QED BY <3>1
  <2>11. PICK more : more = <<x>> \o f[j] /\ more \in Seq(NoticeRecord)
    <3>1. f[j] \in Seq(NoticeRecord)
      BY <2>1
    <3>2. PICK more : more = <<x>> \o f[j]
      OBVIOUS
    <3>3. more \in Seq(NoticeRecord)
      BY <3>1, <3>2, SeqPrepend
    <3> QED BY <3>2, <3>3
  <2>12. \A i \in DOMAIN more : more[i] = x \/ (i - 1 \in DOMAIN f[j] /\ more[i] = f[j][i - 1])
    BY <2>1, <2>11, SeqPrepend
  <2>13. t.notices[p] = [f EXCEPT ![h] = own, ![j] = more]
    <3>1. t.notices[p] = [s.notices[p] EXCEPT ![h] = Kept(h, s, p),
                                             ![k.hostid] = <<Notice(k.timestamp)>> \o @]
      BY <1>1, <1>7 DEF NoticesAfter
    <3>2. t.notices[p] = [f EXCEPT ![h] = own, ![j] = <<x>> \o @]
      BY <1>3, <2>1, <2>4, <2>10, <3>1
    <3> QED BY <2>1, <2>11, <3>2
  <2>14. /\ t.notices[p] \in [Host -> Seq(NoticeRecord)]
         /\ t.notices[p][h] = own /\ t.notices[p][j] = more
         /\ \A g \in Host : g # h /\ g # j => t.notices[p][g] = f[g]
    <3>1. PICK X : X = Seq(NoticeRecord)
      OBVIOUS
    <3>2. own \in X /\ more \in X /\ f \in [Host -> X]
      BY <2>7, <2>11, <3>1
    <3>3. t.notices[p] \in [Host -> X]
      BY <2>13, <3>2
    <3>4. t.notices[p][h] = own /\ t.notices[p][j] = more
      BY <2>1, <2>13, <3>2
    <3>5. \A g \in Host : g # h /\ g # j => t.notices[p][g] = f[g]
      BY <2>13, <3>2
    <3> QED BY <3>1, <3>3, <3>4, <3>5
  <2>15. t.pages[p] = Invalidated(pg)
    BY <1>1, <1>2, <1>7 DEF PagesAfter
  <2>16. /\ t.pages[p] \in PageRecord /\ t.pages[p].state # "WRITE"
         /\ t.pages[p].state \in {pg.state, "INVALID"}
         /\ t.pages[p].state = "MISS" <=> pg.state = "MISS"
         /\ ~Faulting(h, p) => t.pages[p].twin = None /\ \A c \in Cell : SinceTwin(t.pages[p], c) = 0
    BY <1>4, <2>15, InvalidatedPage
  <2>17. \A g \in Host : \A i \in DOMAIN t.notices[p][g] :
             \/ Timed(f[g], t.notices[p][g][i].timestamp)
             \/ Told({k}, g, t.notices[p][g][i].timestamp, p)
    <3> TAKE g \in Host
    <3> TAKE i \in DOMAIN t.notices[p][g]
    <3>1. CASE g = h
      BY <1>5, <2>7, <2>8, <2>14, <3>1
    <3>2. CASE g = j
      BY <1>5, <2>3, <2>10, <2>12, <2>14, <3>2
    <3>3. CASE g # h /\ g # j
      BY <1>5, <2>14, <3>3
    <3> QED BY <3>1, <3>2, <3>3
  <2>18. \A i \in DOMAIN f[h] : Timed(own, f[h][i].timestamp)
    BY <2>7, <2>8 DEF Timed
  <2>19. ASSUME NEW c \in Cell, ~Faulting(h, p)
         PROVE Residue(WrittenIn(h, t, p, c)) = Residue(WrittenIn(h, s, p, c))
    <3>1. WrittenIn(h, s, p, c) = InDiffs(f[h], c) + SinceTwin(pg, c)
      BY <1>2, <1>3 DEF WrittenIn
    <3>2. WrittenIn(h, t, p, c) = InDiffs(own, c) + 0
      BY <2>14, <2>16, <2>19 DEF WrittenIn
    <3>3. InDiffs(own, c) \in Int
      BY <2>7, InDiffsType
    <3> QED BY <2>9, <2>19, <3>1, <3>2, <3>3
  <2> QED BY <1>2, <1>3, <2>7, <2>8, <2>14, <2>16, <2>17, <2>18, <2>19 DEF PageLearned
<1> QED BY <1>6, <1>7

(* One packet taken in keeps the structures in order and what was written. *)
LEMMA IncorporateOne ==
  ASSUME NEW h \in Host, NEW s \in LocalRecord, Twinned(h, s), NEW k \in PacketRecord, k.hostid # h,
         NEW t, t = incorporateWnPacket(h, s, k)
  PROVE t \in LocalRecord /\ Twinned(h, t) /\ Learned(h, s, t, {k})
<1>1. t.intervals \in [Host -> Seq(IntervalRecord)] /\ NewIntervals(h, s, t, {k})
  BY PacketIntervals
<1>2. t.notices = NoticesAfter(h, s, k) /\ t.pages = PagesAfter(s, k)
      /\ t = [intervals |-> t.intervals, notices |-> t.notices, pages |-> t.pages]
  BY PacketParts
<1>3. \A p \in PageIndex : PageLearned(h, s, t, k, p)
  <2> TAKE p \in PageIndex
  <2> QED BY PacketPage
<1>4. t.notices \in [PageIndex -> [Host -> Seq(NoticeRecord)]] /\ t.pages \in [PageIndex -> PageRecord]
  BY <1>2, <1>3 DEF NoticesAfter, PagesAfter, PageLearned
<1>5. t \in LocalRecord
  BY <1>1, <1>2, <1>4 DEF LocalRecord
<1>6. Twinned(h, t)
  BY <1>3 DEF Twinned, PageLearned
<1>7. NewNotices(h, s, t, {k})
  BY <1>3 DEF NewNotices, PageLearned
<1>8. NewPages(s, t)
  BY <1>3 DEF NewPages, PageLearned
<1>9. SameWritten(h, s, t)
  BY <1>3 DEF SameWritten, PageLearned
<1> QED BY <1>1, <1>5, <1>6, <1>7, <1>8, <1>9 DEF Learned

(* A host that takes in nothing. *)
LEMMA LearnedNothing ==
  ASSUME NEW h \in Host, NEW s \in LocalRecord, NEW news
  PROVE Learned(h, s, s, news)
<1>1. NewIntervals(h, s, s, news)
  BY DEF NewIntervals, Timed, Noted
<1>2. NewNotices(h, s, s, news)
  BY DEF NewNotices, Timed
<1>3. NewPages(s, s) /\ SameWritten(h, s, s)
  BY DEF NewPages, SameWritten
<1> QED BY <1>1, <1>2, <1>3 DEF Learned

(* Two lists of packets, one after the other. *)
LEMMA LearnedMore ==
  ASSUME NEW h \in Host, NEW s, NEW t, NEW u, NEW news, NEW k \in news,
         Learned(h, s, t, news), Learned(h, t, u, {k})
  PROVE Learned(h, s, u, news)
<1>1. \A j, ts : Sent({k}, j, ts) => Sent(news, j, ts)
  BY DEF Sent
<1>2. \A j, ts, p : Told({k}, j, ts, p) => Told(news, j, ts, p)
  BY DEF Told
<1>3. NewIntervals(h, s, u, news)
  <2>1. NewIntervals(h, s, t, news) /\ NewIntervals(h, t, u, {k})
    BY DEF Learned
  <2>2. u.intervals[h] = s.intervals[h]
    BY <2>1 DEF NewIntervals
  <2>3. ASSUME NEW j \in Host, NEW ts, Timed(t.intervals[j], ts)
        PROVE Timed(s.intervals[j], ts) \/ Sent(news, j, ts)
    BY <2>1, <2>3, Zenon DEF NewIntervals, Timed
  <2>4. ASSUME NEW j \in Host, NEW ts, NEW p, Noted(t.intervals[j], ts, p)
        PROVE Noted(s.intervals[j], ts, p) \/ Told(news, j, ts, p)
    <3>1. PICK i \in DOMAIN t.intervals[j] :
            t.intervals[j][i].timestamp = ts /\ p \in t.intervals[j][i].noticed
      BY <2>4 DEF Noted
    <3> QED BY <2>1, <3>1 DEF NewIntervals
  <2>5. ASSUME NEW j \in Host, NEW i \in DOMAIN u.intervals[j]
        PROVE /\ \/ Timed(s.intervals[j], u.intervals[j][i].timestamp)
                 \/ Sent(news, j, u.intervals[j][i].timestamp)
              /\ \A p \in u.intervals[j][i].noticed :
                   \/ Noted(s.intervals[j], u.intervals[j][i].timestamp, p)
                   \/ Told(news, j, u.intervals[j][i].timestamp, p)
    <3>1. /\ \/ Timed(t.intervals[j], u.intervals[j][i].timestamp)
             \/ Sent({k}, j, u.intervals[j][i].timestamp)
          /\ \A p \in u.intervals[j][i].noticed :
               \/ Noted(t.intervals[j], u.intervals[j][i].timestamp, p)
               \/ Told({k}, j, u.intervals[j][i].timestamp, p)
      BY <2>1 DEF NewIntervals
    <3> QED BY <1>1, <1>2, <2>3, <2>4, <3>1
  <2> QED BY <2>2, <2>5 DEF NewIntervals
<1>4. NewNotices(h, s, u, news)
  <2>1. NewNotices(h, s, t, news) /\ NewNotices(h, t, u, {k})
    BY DEF Learned
  <2>2. ASSUME NEW p \in PageIndex, NEW j \in Host, NEW ts, Timed(t.notices[p][j], ts)
        PROVE Timed(s.notices[p][j], ts) \/ Told(news, j, ts, p)
    BY <2>1, <2>2, Zenon DEF NewNotices, Timed
  <2>3. ASSUME NEW p \in PageIndex, NEW j \in Host, NEW i \in DOMAIN u.notices[p][j]
        PROVE \/ Timed(s.notices[p][j], u.notices[p][j][i].timestamp)
              \/ Told(news, j, u.notices[p][j][i].timestamp, p)
    <3>1. \/ Timed(t.notices[p][j], u.notices[p][j][i].timestamp)
          \/ Told({k}, j, u.notices[p][j][i].timestamp, p)
      BY <2>1 DEF NewNotices
    <3> QED BY <1>2, <2>2, <3>1
  <2>4. ASSUME NEW p \in PageIndex, NEW i \in DOMAIN s.notices[p][h]
        PROVE Timed(u.notices[p][h], s.notices[p][h][i].timestamp)
    <3>1. PICK l \in DOMAIN t.notices[p][h] : t.notices[p][h][l].timestamp = s.notices[p][h][i].timestamp
      BY <2>1 DEF NewNotices, Timed
    <3>2. Timed(u.notices[p][h], t.notices[p][h][l].timestamp)
      BY <2>1 DEF NewNotices
    <3> QED BY <3>1, <3>2
  <2> QED BY <2>3, <2>4 DEF NewNotices
<1>5. NewPages(s, u)
  BY DEF Learned, NewPages
<1>6. SameWritten(h, s, u)
  BY DEF Learned, SameWritten
<1> QED BY <1>3, <1>4, <1>5, <1>6 DEF Learned

(* All the packets of a message. *)
PacketsGiven(packets) == {packets[i] : i \in DOMAIN packets}

(* All packets of a message, by induction along the message. *)
LEMMA IncorporatedAll ==
  ASSUME NEW h \in Host, NEW base \in LocalRecord, Twinned(h, base),
         NEW packets \in Seq(PacketRecord), \A i \in DOMAIN packets : packets[i].hostid # h,
         NEW t, t = Incorporated(h, base, packets)
  PROVE t \in LocalRecord /\ Twinned(h, t) /\ Learned(h, base, t, PacketsGiven(packets))
<1> DEFINE c == CHOOSE f : f = [k \in 0 .. Len(packets) |->
                  IF k = 0 THEN base ELSE incorporateWnPacket(h, f[k - 1], packets[k])]
<1>1. PICK n \in Nat : n = Len(packets) /\ DOMAIN packets = 1 .. n /\ packets \in [1 .. n -> PacketRecord]
  OBVIOUS
<1>2. PICK news : news = PacketsGiven(packets)
  OBVIOUS
<1>3. PICK V : V = {s \in LocalRecord : Twinned(h, s) /\ Learned(h, base, s, news)}
  OBVIOUS
<1>4. base \in V
  BY <1>3, LearnedNothing
<1>5. ASSUME NEW s \in V, NEW i \in 1 .. n PROVE incorporateWnPacket(h, s, packets[i]) \in V
  <2>1. PICK k \in PacketRecord : k = packets[i] /\ k \in news /\ k.hostid # h
    BY <1>1, <1>2 DEF PacketsGiven
  <2>2. s \in LocalRecord /\ Twinned(h, s) /\ Learned(h, base, s, news)
    BY <1>3
  <2>3. PICK u : u = incorporateWnPacket(h, s, k)
    OBVIOUS
  <2>4. u \in LocalRecord /\ Twinned(h, u) /\ Learned(h, s, u, {k})
    BY <2>1, <2>2, <2>3, IncorporateOne
  <2>5. Learned(h, base, u, news)
    BY <2>1, <2>2, <2>4, LearnedMore
  <2> QED BY <1>3, <2>1, <2>3, <2>4, <2>5
<1>6. PICK G : G = [i \in 1 .. n |-> [s \in V |-> incorporateWnPacket(h, s, packets[i])]]
  OBVIOUS
<1>7. G \in [1 .. n -> [V -> V]]
  BY <1>5, <1>6
<1>8. PICK s : Solves(s, V, base, n, G)
  BY <1>4, <1>7, Recursion, Zenon
<1>9. \A i \in 1 .. n : s[i] = incorporateWnPacket(h, s[i - 1], packets[i])
  <2> TAKE i \in 1 .. n
  <2>1. s[i - 1] \in V /\ s[i] = G[i][s[i - 1]]
    BY <1>8 DEF Solves
  <2> QED BY <1>6, <2>1
<1>10. s = [k \in 0 .. n |-> IF k = 0 THEN base ELSE incorporateWnPacket(h, s[k - 1], packets[k])]
  <2>1. s[0] = base /\ s = [i \in 0 .. n |-> s[i]]
    BY <1>8 DEF Solves
  <2>2. \A i \in 0 .. n : s[i] = IF i = 0 THEN base ELSE incorporateWnPacket(h, s[i - 1], packets[i])
    <3> TAKE i \in 0 .. n
    <3>1. i # 0 => i \in 1 .. n
      OBVIOUS
    <3> QED BY <2>1, <1>9, <3>1
  <2> QED BY <2>1, <2>2
<1>11. c = [k \in 0 .. n |-> IF k = 0 THEN base ELSE incorporateWnPacket(h, c[k - 1], packets[k])]
  BY <1>1, <1>10, Zenon
<1>12. Incorporated(h, base, packets) = c[n]
  BY <1>1 DEF Incorporated
<1> HIDE DEF c
<1>13. c[0] \in V /\ \A i \in 1 .. n : c[i - 1] \in V => c[i] \in V
  <2>1. \A i \in 0 .. n : c[i] = IF i = 0 THEN base ELSE incorporateWnPacket(h, c[i - 1], packets[i])
    BY <1>11, Zenon
  <2>2. 0 \in 0 .. n /\ \A i \in 1 .. n : i \in 0 .. n /\ i # 0
    OBVIOUS
  <2>3. c[0] = base /\ \A i \in 1 .. n : c[i] = incorporateWnPacket(h, c[i - 1], packets[i])
    BY <2>1, <2>2
  <2> QED BY <1>4, <1>5, <2>3
<1>14. c[n] \in V
  <2>1. \A k \in 0 .. n : c[k] \in V
    BY <1>13, ValuesStay, Zenon
  <2> QED BY <2>1
<1> QED BY <1>2, <1>3, <1>12, <1>14

(* The host that fetchPage asks: the page's home, or one whose notice of the  *)
(* page is known.                                                             *)
LEMMA PageSourceIs ==
  ASSUME NEW h \in Host, NEW p \in PageIndex
  PROVE /\ PageSource(h, p) \in Host
        /\ PageSource(h, p) = p % hostnum \/ notices[h][p][PageSource(h, p)] # << >>
<1> DEFINE noticed == {j \in Host \ {h} : notices[h][p][j] # << >>}
           Top(j) == Head(notices[h][p][j]).timestamp
           Later(j, best) == best = NoHost \/ isAfterInterval(Top(j), Top(best))
           c == CHOOSE f : f = [i \in 0 .. hostnum |->
                  IF i = 0 THEN NoHost ELSE IF i - 1 \in noticed /\ Later(i - 1, f[i - 1])
                                            THEN i - 1 ELSE f[i - 1]]
<1>0. PICK n \in Nat : n = hostnum /\ n # 0
  BY HostNumAssumption
<1>1. p % hostnum \in Host
  BY HostNumAssumption, PageAssumption, ModRange DEF Host
<1>2. PageSource(h, p) = IF noticed = {} THEN p % hostnum ELSE c[hostnum]
  BY DEF PageSource
<1>3. PICK W : W = noticed /\ W \subseteq {j \in Host : notices[h][p][j] # << >>}
  OBVIOUS
<1>4. PICK later : later = [i \in 1 .. n |-> [b \in W \cup {NoHost} |-> Later(i - 1, b)]]
  OBVIOUS
<1> HIDE DEF noticed
<1>5. PICK V : V = W \cup {NoHost}
  OBVIOUS
<1>6. PICK G : G = [i \in 1 .. n |-> [b \in V |-> IF i - 1 \in noticed /\ Later(i - 1, b) THEN i - 1 ELSE b]]
  OBVIOUS
<1> HIDE DEF Later
<1>7. NoHost \in V /\ G \in [1 .. n -> [V -> V]]
  BY <1>3, <1>5, <1>6
<1>8. PICK s : Solves(s, V, NoHost, n, G)
  BY <1>7, Recursion, Zenon
<1>9. s = [i \in 0 .. n |-> IF i = 0 THEN NoHost ELSE IF i - 1 \in noticed /\ Later(i - 1, s[i - 1])
                                            THEN i - 1 ELSE s[i - 1]]
  <2>1. s[0] = NoHost /\ s = [i \in 0 .. n |-> s[i]]
    BY <1>8 DEF Solves
  <2>2. \A i \in 0 .. n : s[i] = IF i = 0 THEN NoHost ELSE IF i - 1 \in noticed /\ Later(i - 1, s[i - 1])
                                            THEN i - 1 ELSE s[i - 1]
    <3> TAKE i \in 0 .. n
    <3>1. i # 0 => i \in 1 .. n
      OBVIOUS
    <3>2. i # 0 => s[i - 1] \in V /\ s[i] = G[i][s[i - 1]]
      BY <1>8, <3>1 DEF Solves
    <3>3. i # 0 => s[i] = IF i - 1 \in noticed /\ Later(i - 1, s[i - 1]) THEN i - 1 ELSE s[i - 1]
      BY <1>6, <3>1, <3>2
    <3> QED BY <2>1, <3>3
  <2> QED BY <2>1, <2>2
<1>10. c = [i \in 0 .. n |-> IF i = 0 THEN NoHost ELSE IF i - 1 \in noticed /\ Later(i - 1, c[i - 1])
                                            THEN i - 1 ELSE c[i - 1]]
  BY <1>0, <1>9, Zenon
<1> HIDE DEF c
(* Once a noticed host has been met, the best one is noticed. *)
<1>11. PICK T : T = {k \in 0 .. n : c[k] \in V /\ ((\E j \in W : j < k) => c[k] \in W)}
  OBVIOUS
<1>12. \A i \in 1 .. n : /\ i - 1 \in 0 .. n /\ i \in 0 .. n /\ i # 0
                         /\ c[i] = IF i - 1 \in noticed /\ Later(i - 1, c[i - 1]) THEN i - 1 ELSE c[i - 1]
  <2>1. \A i \in 1 .. n : i \in 0 .. n /\ i # 0 /\ i - 1 \in 0 .. n
    OBVIOUS
  <2>2. \A i \in 0 .. n : c[i] = IF i = 0 THEN NoHost ELSE IF i - 1 \in noticed /\ Later(i - 1, c[i - 1])
                                            THEN i - 1 ELSE c[i - 1]
    BY <1>10, Zenon
  <2> QED BY <2>1, <2>2
<1>13. 0 \in T
  <2>1. 0 \in 0 .. n /\ c[0] = NoHost
    BY <1>10
  <2>2. ~\E j \in W : j < 0
    BY <1>0, <1>3 DEF Host
  <2> QED BY <1>5, <1>11, <2>1, <2>2
<1>14. ASSUME NEW i \in 1 .. n, i - 1 \in T PROVE i \in T
  <2>1. c[i - 1] \in V /\ ((\E j \in W : j < i - 1) => c[i - 1] \in W)
    BY <1>11, <1>14
  <2>2. \A j \in W : j \in Nat
    BY <1>0, <1>3 DEF Host
  <2>3. c[i] = IF i - 1 \in W /\ Later(i - 1, c[i - 1]) THEN i - 1 ELSE c[i - 1]
    BY <1>3, <1>12
  <2>4. c[i - 1] = NoHost => Later(i - 1, c[i - 1])
    BY DEF Later
  <2>5. c[i] \in V
    BY <1>5, <2>1, <2>3
  <2>6. ASSUME NEW j \in W, j < i PROVE c[i] \in W
    <3>1. j = i - 1 \/ j < i - 1
      BY <2>2, <2>6
    <3>2. CASE j < i - 1
      BY <2>1, <2>3, <3>2
    <3>3. CASE j = i - 1
      BY <1>5, <2>1, <2>3, <2>4, <3>3
    <3> QED BY <3>1, <3>2, <3>3
  <2> QED BY <1>11, <1>12, <2>5, <2>6
<1>15. n \in T
  <2>1. \A k \in 0 .. n : k \in T
    BY <1>13, <1>14, InductiveRange, Zenon
  <2> QED BY <2>1
<1>16. W # {} => c[n] \in W
  <2>1. \A j \in W : j < n
    BY <1>0, <1>3 DEF Host
  <2> QED BY <1>11, <1>15, <2>1
<1>17. CASE W = {}
  BY <1>1, <1>2, <1>3, <1>17
<1>18. CASE W # {}
  <2>1. PageSource(h, p) = c[n] /\ c[n] \in W
    BY <1>0, <1>2, <1>3, <1>16, <1>18
  <2> QED BY <1>3, <2>1
<1> QED BY <1>17, <1>18

(* While a host is inside segv_handler at a point where SIGIO may be open, no *)
(* handler changes the page or its notices at that host.                      *)
Undisturbed ==
  \A h \in Host : pc[h] \in FaultPoints /\ pc'[h] = pc[h] =>
    LET p == op[h].page IN pages'[h][p] = pages[h][p] /\ notices'[h][p] = notices[h][p]

-----------------------------------------------------------------------------
(* The shapes of messages and of requests still to be made *)

Info == [timestamp : Stamp, packets : Seq(PacketRecord)]

Letter(command, body) == [command : {command}, from : Host, to : Host, body : body]

Message ==
  UNION {Letter("FETCH_WN_I", Stamp), Letter("GRANT_WN_I", Info),
         Letter("FETCH_PAGE", PageIndex), Letter("GRANT_PAGE", [page : PageIndex, data : Page]),
         Letter("FETCH_DIFF", [page : PageIndex, timestamp : Stamp]),
         Letter("GRANT_DIFF", [page : PageIndex, timestamp : Stamp, diff : Page]),
         Letter("GRANT_ENTER_BARRIER_INFO", Info), Letter("GRANT_EXIT_BARRIER_INFO", Info)}

Command == {"FETCH_WN_I", "GRANT_WN_I", "FETCH_PAGE", "GRANT_PAGE", "FETCH_DIFF", "GRANT_DIFF",
            "GRANT_ENTER_BARRIER_INFO", "GRANT_EXIT_BARRIER_INFO"}

Missing == [hostid : Host, timestamp : Stamp]

(* The structures of mem.c, and what the program's thread of a host is doing. *)
DataTypes ==
  /\ intervals \in [Host -> [Host -> Seq(IntervalRecord)]]
  /\ now \in [Host -> Stamp]
  /\ notices \in [Host -> [PageIndex -> [Host -> Seq(NoticeRecord)]]]
  /\ pages \in [Host -> [PageIndex -> PageRecord]]
  /\ memory \in [PageIndex -> Page]

Point == {"app", "wni", "access", "page", "pageGot", "diff", "diffWait", "done", "barrier"}
         \cup FaultPoints

ThreadTypes ==
  /\ pc \in [Host -> Point]
  /\ op \in [Host -> Operation \cup {None}]
  /\ done \in [Host -> 0 .. MaxOps]
  /\ phase \in [Host -> 0 .. MaxBarrier]
  /\ stamps \in [Host -> Stamp \cup {None}]
  /\ holder \in [Lock -> Host \cup {NoHost}]
  /\ last \in [Lock -> Host \cup {NoHost}]
  /\ stuck \in [Host -> BOOLEAN]
  /\ todo \in [Host -> Seq(Missing)]

(* An operation is in progress outside mi_barrier and between calls. *)
Working == \A h \in Host :
  /\ pc[h] \notin {"app", "barrier"} => op[h] \in Operation /\ done[h] < MaxOps
  /\ pc[h] = "barrier" => phase[h] < MaxBarrier

Types == DataTypes /\ ThreadTypes /\ Working /\ msgs \subseteq Message

(* The host that a message is about: the one that asked, or entered a barrier. *)
Request == {"FETCH_WN_I", "FETCH_PAGE", "FETCH_DIFF", "GRANT_ENTER_BARRIER_INFO"}
Client(m) == IF m.command \in Request THEN m.from ELSE m.to

(* What its thread waits for meanwhile. *)
Expected(m) ==
  LET h == Client(m)
  IN /\ m.command \in {"FETCH_WN_I", "GRANT_WN_I"} => pc[h] = "wni"
     /\ m.command = "FETCH_WN_I" => m.body = now[h]
     /\ m.command \in {"FETCH_PAGE", "GRANT_PAGE"} => pc[h] = "page"
     /\ m.command = "FETCH_PAGE" => m.body = op[h].page
     /\ m.command = "GRANT_PAGE" => m.body.page = op[h].page
     /\ m.command \in {"FETCH_DIFF", "GRANT_DIFF"} => pc[h] = "diffWait"
     /\ m.command \in {"FETCH_DIFF", "GRANT_DIFF"} => m.body.page = op[h].page
     /\ m.command \in {"GRANT_ENTER_BARRIER_INFO", "GRANT_EXIT_BARRIER_INFO"} => pc[h] = "barrier"
     /\ m.command = "GRANT_ENTER_BARRIER_INFO" => m.body.timestamp = now[h] /\ m.to = 0

(* A host has at most one message under way, and none once host 0 has its    *)
(* timestamp of the barrier.                                                  *)
OneAtATime ==
  /\ \A m \in msgs : Expected(m) /\ stamps[Client(m)] = None
  /\ \A m1, m2 \in msgs : Client(m1) = Client(m2) => m1 = m2
  /\ \A h \in Host : stamps[h] # None => pc[h] = "barrier" /\ stamps[h] = now[h]

(* The newest of a host's own intervals is the current one. *)
OwnNewest == \A h \in Host : intervals[h][h] # << >> /\ Head(intervals[h][h]).timestamp = now[h]

(* Nobody knows an interval of a host that comes after its current one, or    *)
(* tells it of one of its own.                                                *)
KnownAhead == \A g, h \in Host : \A i \in DOMAIN intervals[g][h] :
                ~isAfterInterval(intervals[g][h][i].timestamp, now[h])

ToldAhead == \A m \in msgs : m.command \in {"GRANT_WN_I", "GRANT_ENTER_BARRIER_INFO",
                                            "GRANT_EXIT_BARRIER_INFO"} =>
  \A i \in DOMAIN m.body.packets :
    /\ m.body.packets[i].hostid # m.to
    /\ ~isAfterInterval(m.body.packets[i].timestamp, now[m.body.packets[i].hostid])

NoneAhead == KnownAhead /\ ToldAhead

(* The newest notice of a page has no diff. *)
Bare(h, p) == pages[h][p].state = "WRITE" \/ (pc[h] = "noticed" /\ p = op[h].page)

TwinsAt(h, p) ==
  /\ Faulting(h, p) => pages[h][p].state = "RDONLY"
  /\ pages[h][p].twin # None <=> (pages[h][p].state = "WRITE" \/ Faulting(h, p))
  /\ \A i \in DOMAIN notices[h][p][h] : notices[h][p][h][i].diff = None <=> (i = 1 /\ Bare(h, p))
  /\ Bare(h, p) => notices[h][p][h] # << >>

Twins == \A h \in Host, p \in PageIndex : TwinsAt(h, p)

(* A page that is being fetched, or whose diffs are, is not writable. *)
NotWriting ==
  \A h \in Host : pc[h] \in {"page", "pageGot", "diff", "diffWait"} => Cur(h).state # "WRITE"

(* What the program may do with page p of h is what its state says.          *)
Allowed(h, p) == /\ prot[h][p] = "WRITE" => pages[h][p].state = "WRITE"
                 /\ prot[h][p] = "READ" => pages[h][p].state \in {"RDONLY", "WRITE"}

(* So it is but for a page on its way through segv_handler, which has there  *)
(* the state that the handler has tested or set.                             *)
OnItsWay == {"page", "pageGot", "diff", "diffWait", "written", "readable"}

Guarded(h) ==
  /\ pc[h] \in {"tested", "readable"} => Cur(h).state = "RDONLY"
  /\ pc[h] = "written" => Cur(h).state = "WRITE"
  /\ \A p \in PageIndex : Allowed(h, p) \/ (p = op[h].page /\ pc[h] \in OnItsWay)

Rights == {"NONE", "READ", "WRITE"}

Protected ==
  /\ prot \in [Host -> [PageIndex -> Rights]]
  /\ turn \in [Host -> Nat]
  /\ \A h \in Host : Guarded(h)

MemInv == Types /\ OneAtATime /\ OwnNewest /\ NoneAhead /\ Twins /\ NotWriting /\ Protected

(* A step on which no host's timestamp goes back: TimestampsAdvance. *)
Advance == \A h \in Host : now'[h] = now[h] \/ isAfterInterval(now'[h], now[h])

-----------------------------------------------------------------------------
(* Functions changed in one place *)

(* A function changed at one place. *)
LEMMA Update1 ==
  ASSUME NEW A, NEW B, NEW f \in [A -> B], NEW a \in A, NEW v \in B,
         NEW g, g = [f EXCEPT ![a] = v]
  PROVE g \in [A -> B] /\ \A x \in A : g[x] = IF x = a THEN v ELSE f[x]
OBVIOUS

(* A function of functions changed at one place. *)
LEMMA Update2 ==
  ASSUME NEW A, NEW B, NEW C, NEW f \in [A -> [B -> C]], NEW a \in A, NEW b \in B, NEW v \in C,
         NEW g, g = [f EXCEPT ![a][b] = v]
  PROVE /\ g \in [A -> [B -> C]]
        /\ \A x \in A, y \in B : g[x][y] = IF x = a /\ y = b THEN v ELSE f[x][y]
OBVIOUS

Put3(g, f, a, b, c, v, A, B, C, D) ==
  /\ g \in [A -> [B -> [C -> D]]]
  /\ \A x \in A, y \in B, z \in C :
       g[x][y][z] = IF x = a /\ y = b /\ z = c THEN v ELSE f[x][y][z]

(* The same one level deeper. *)
LEMMA Update3 ==
  ASSUME NEW A, NEW B, NEW C, NEW D, NEW f \in [A -> [B -> [C -> D]]],
         NEW a \in A, NEW b \in B, NEW c \in C, NEW v \in D,
         NEW g, g = [f EXCEPT ![a][b][c] = v]
  PROVE Put3(g, f, a, b, c, v, A, B, C, D)
<1>1. PICK E : E = [C -> D]
  OBVIOUS
<1>2. PICK e : e = [f[a][b] EXCEPT ![c] = v]
  OBVIOUS
<1>3. e \in [C -> D] /\ \A z \in C : e[z] = IF z = c THEN v ELSE f[a][b][z]
  <2>1. PICK k \in [C -> D] : k = f[a][b]
    OBVIOUS
  <2>2. e = [k EXCEPT ![c] = v]
    BY <1>2, <2>1
  <2> QED BY <2>1, <2>2
<1>4. PICK G : G = [f EXCEPT ![a][b] = e]
  OBVIOUS
<1>5. G = g
  BY <1>2, <1>4
<1>6. f \in [A -> [B -> E]] /\ e \in E
  BY <1>1, <1>3
<1>7. G \in [A -> [B -> E]] /\ \A x \in A, y \in B : G[x][y] = IF x = a /\ y = b THEN e ELSE f[x][y]
  BY <1>4, <1>6, Update2, Zenon
<1>8. \A x \in A, y \in B, z \in C : G[x][y][z] = IF x = a /\ y = b /\ z = c THEN v ELSE f[x][y][z]
  <2> TAKE x \in A, y \in B, z \in C
  <2> QED BY <1>3, <1>7
<1> QED BY <1>1, <1>5, <1>7, <1>8 DEF Put3

-----------------------------------------------------------------------------
(* Timestamps *)

(* The next timestamp of a host. *)
LEMMA BumpedStamp ==
  ASSUME NEW t \in Stamp, NEW h \in Host
  PROVE Bumped(t, h) \in Stamp
<1>1. t[h] + 1 \in Int
  BY DEF Stamp
<1> QED BY <1>1 DEF Bumped, Stamp

(* What is not after a timestamp is not after a later one. *)
LEMMA NotAfterLater ==
  ASSUME NEW t \in Stamp, NEW u \in Stamp, NEW v \in Stamp,
         ~isAfterInterval(t, u), v = u \/ isAfterInterval(v, u)
  PROVE ~isAfterInterval(t, v)
<1>1. DOMAIN u = Host /\ DOMAIN v = Host
  BY DEF Stamp
<1>2. \A g \in Host : t[g] \in Int /\ u[g] \in Int /\ v[g] \in Int
  BY DEF Stamp
<1> QED BY <1>1, <1>2 DEF isAfterInterval

(* No timestamp is after itself. *)
LEMMA NotAfterItself ==
  ASSUME NEW t \in Stamp
  PROVE ~isAfterInterval(t, t)
<1>1. DOMAIN t = Host /\ \A g \in Host : t[g] \in Int
  BY DEF Stamp
<1> QED BY <1>1 DEF isAfterInterval

(* A timestamp is not None. *)
LEMMA StampIsSome == ASSUME NEW t \in Stamp PROVE t # None
<1>1. DOMAIN t = Host /\ DOMAIN None = {} /\ 0 \in Host
  BY HostNumAssumption DEF Stamp, None, Host
<1> QED BY <1>1

(* Host 0 exists, and -1 is no host. *)
LEMMA ZeroHost == 0 \in Host /\ Host \subseteq Int /\ NoHost \notin Host
BY HostNumAssumption DEF Host, NoHost

-----------------------------------------------------------------------------
(* Messages *)

(* What the messages of each command carry. *)
LEMMA Letters ==
  ASSUME NEW m \in Message
  PROVE /\ m.from \in Host /\ m.to \in Host /\ m.command \in Command /\ Client(m) \in Host
        /\ m = Msg(m.command, m.from, m.to, m.body)
        /\ m.command = "FETCH_WN_I" => m.body \in Stamp
        /\ m.command = "FETCH_PAGE" => m.body \in PageIndex
        /\ m.command = "GRANT_PAGE" => m.body.page \in PageIndex /\ m.body.data \in Page
        /\ m.command = "FETCH_DIFF" => m.body.page \in PageIndex /\ m.body.timestamp \in Stamp
        /\ m.command = "GRANT_DIFF" => /\ m.body.page \in PageIndex /\ m.body.timestamp \in Stamp
                                       /\ m.body.diff \in Page
        /\ m.command \in {"GRANT_WN_I", "GRANT_ENTER_BARRIER_INFO", "GRANT_EXIT_BARRIER_INFO"} =>
             m.body.timestamp \in Stamp /\ m.body.packets \in Seq(PacketRecord)
BY DEF Message, Letter, Info, Client, Msg, Command

(* The fields of a message. *)
LEMMA MsgFields ==
  ASSUME NEW command, NEW from, NEW to, NEW body, NEW m, m = Msg(command, from, to, body)
  PROVE m.command = command /\ m.from = from /\ m.to = to /\ m.body = body
BY DEF Msg

(* A message with a body of its kind is one. *)
LEMMA MsgIsMessage ==
  ASSUME NEW command, NEW from \in Host, NEW to \in Host, NEW body,
         \/ command = "FETCH_WN_I" /\ body \in Stamp
         \/ command = "FETCH_PAGE" /\ body \in PageIndex
         \/ command = "GRANT_PAGE" /\ body \in [page : PageIndex, data : Page]
         \/ command = "FETCH_DIFF" /\ body \in [page : PageIndex, timestamp : Stamp]
         \/ command = "GRANT_DIFF" /\ body \in [page : PageIndex, timestamp : Stamp, diff : Page]
         \/ /\ command \in {"GRANT_WN_I", "GRANT_ENTER_BARRIER_INFO", "GRANT_EXIT_BARRIER_INFO"}
            /\ body \in Info
  PROVE Msg(command, from, to, body) \in Message
<1>1. Msg(command, from, to, body) \in Letter(command, {body})
  BY DEF Msg, Letter
<1> QED BY <1>1 DEF Msg, Message, Letter

(* The structures of a host are as Twinned says. *)
LEMMA LocalIs ==
  ASSUME DataTypes, Twins, NEW h \in Host
  PROVE Local(h) \in LocalRecord /\ Twinned(h, Local(h))
<1>1. /\ Local(h).intervals = intervals[h] /\ Local(h).notices = notices[h]
      /\ Local(h).pages = pages[h]
  BY DEF Local
<1>2. Local(h) \in LocalRecord
  BY DEF Local, LocalRecord, DataTypes
<1>3. Twinned(h, Local(h))
  <2>1. ASSUME NEW p \in PageIndex
        PROVE IF Faulting(h, p) THEN pages[h][p].state # "WRITE"
              ELSE /\ pages[h][p].twin # None <=> pages[h][p].state = "WRITE"
                   /\ \A i \in DOMAIN notices[h][p][h] :
                        notices[h][p][h][i].diff = None <=> (i = 1 /\ pages[h][p].state = "WRITE")
                   /\ pages[h][p].state = "WRITE" => notices[h][p][h] # << >>
    <3>1. TwinsAt(h, p)
      BY DEF Twins
    <3>2. ~Faulting(h, p) => (Bare(h, p) <=> pages[h][p].state = "WRITE")
      BY DEF Faulting, Bare, FaultPoints
    <3> QED BY <3>1, <3>2 DEF TwinsAt
  <2> QED BY <1>1, <2>1 DEF Twinned
<1> QED BY <1>2, <1>3

(* What Incorporate does at host h: from its structures with the interval     *)
(* own, if any, to t.                                                         *)
Based(h, own, base) ==
  /\ base \in LocalRecord /\ base.notices = notices[h] /\ base.pages = pages[h]
  /\ base.intervals = IF own = None THEN intervals[h]
                      ELSE [intervals[h] EXCEPT ![h] = <<own>> \o @]

(* How the pages of h are protected once they are as in f. *)
ProtectedAs(h, f) ==
  [p \in PageIndex |->
     IF f[p].state = "INVALID" /\ pages[h][p].state # "INVALID" THEN "NONE" ELSE prot[h][p]]

Gains(h, own, packets, base, t) ==
  /\ Based(h, own, base)
  /\ t \in LocalRecord /\ Twinned(h, t) /\ Learned(h, base, t, PacketsGiven(packets))
  /\ intervals' = [intervals EXCEPT ![h] = t.intervals]
  /\ notices' = [notices EXCEPT ![h] = t.notices]
  /\ pages' = [pages EXCEPT ![h] = t.pages]
  /\ prot' = [prot EXCEPT ![h] = ProtectedAs(h, t.pages)]
  /\ now' = [now EXCEPT ![h] = IF own = None THEN now[h] ELSE own.timestamp]

(* The handlers that take notices in, at their host. *)
LEMMA IncorporateGains ==
  ASSUME DataTypes, Twins, NEW h \in Host,
         NEW own, own = None \/ own \in IntervalRecord,
         NEW packets \in Seq(PacketRecord), \A i \in DOMAIN packets : packets[i].hostid # h,
         Incorporate(h, own, packets)
  PROVE \E base, t : Gains(h, own, packets, base, t)
<1>1. Local(h) \in LocalRecord /\ Twinned(h, Local(h))
  BY LocalIs
<1>2. PICK base : base = IF own = None THEN Local(h) ELSE [Local(h) EXCEPT !.intervals[h] = <<own>> \o @]
  OBVIOUS
<1>3. PICK f \in [Host -> Seq(IntervalRecord)] : f = intervals[h]
  BY DEF DataTypes
<1>4. Local(h) = [intervals |-> f, notices |-> notices[h], pages |-> pages[h]]
  BY <1>3 DEF Local
<1>5. Based(h, own, base)
  <2>1. CASE own = None
    BY <1>1, <1>2, <1>3, <1>4, <2>1 DEF Based
  <2>2. CASE own # None
    <3>1. PICK g : g = [f EXCEPT ![h] = <<own>> \o @]
      OBVIOUS
    <3>2. g \in [Host -> Seq(IntervalRecord)]
      <4>1. PICK more : more = <<own>> \o f[h]
        OBVIOUS
      <4>2. own \in IntervalRecord
        BY <2>2
      <4>3. more \in Seq(IntervalRecord)
        BY <4>1, <4>2, SeqPrepend
      <4> QED BY <3>1, <4>1, <4>3
    <3>3. base = [intervals |-> g, notices |-> notices[h], pages |-> pages[h]]
      <4>1. PICK r : r = Local(h)
        OBVIOUS
      <4>2. base = [r EXCEPT !.intervals[h] = <<own>> \o @]
        BY <1>2, <2>2, <4>1, Zenon
      <4>3. r = [intervals |-> f, notices |-> notices[h], pages |-> pages[h]]
        BY <1>4, <4>1
      <4>4. PICK n, q : n = notices[h] /\ q = pages[h]
        OBVIOUS
      <4>5. base = [[intervals |-> f, notices |-> n, pages |-> q] EXCEPT !.intervals[h] = <<own>> \o @]
        BY <4>2, <4>3, <4>4
      <4>6. base = [intervals |-> g, notices |-> n, pages |-> q]
        BY <3>1, <4>5
      <4> QED BY <4>4, <4>6
    <3>4. base \in LocalRecord
      BY <1>1, <1>4, <3>2, <3>3 DEF LocalRecord
    <3> QED BY <1>3, <2>2, <3>1, <3>3, <3>4 DEF Based
  <2> QED BY <2>1, <2>2
<1>6. Twinned(h, base)
  <2>1. base.notices = Local(h).notices /\ base.pages = Local(h).pages
    BY <1>4, <1>5 DEF Based
  <2> QED BY <1>1, <2>1 DEF Twinned
<1>7. PICK t : t = Incorporated(h, base, packets)
  OBVIOUS
<1>8. base \in LocalRecord
  BY <1>5 DEF Based
<1>9. t \in LocalRecord /\ Twinned(h, t) /\ Learned(h, base, t, PacketsGiven(packets))
  BY <1>6, <1>7, <1>8, IncorporatedAll
<1>10. /\ intervals' = [intervals EXCEPT ![h] = t.intervals]
       /\ notices' = [notices EXCEPT ![h] = t.notices]
       /\ pages' = [pages EXCEPT ![h] = t.pages]
       /\ prot' = [prot EXCEPT ![h] = ProtectedAs(h, t.pages)]
       /\ now' = [now EXCEPT ![h] = IF own = None THEN now[h] ELSE own.timestamp]
  BY <1>2, <1>7 DEF Incorporate, ProtectedAs
<1> QED BY <1>5, <1>9, <1>10 DEF Gains

-----------------------------------------------------------------------------
(* Types of the structures of mem.c, where they change *)

(* addNewInterval puts an interval in front. *)
LEMMA OwnInterval ==
  ASSUME NEW ts \in Stamp, NEW b \in BOOLEAN
  PROVE /\ Interval(ts, b) \in IntervalRecord /\ Interval(ts, b).timestamp = ts
        /\ Interval(ts, b).noticed = {} /\ Interval(ts, b) # None
<1>1. DOMAIN Interval(ts, b) # DOMAIN None
  BY DEF Interval, None
<1> QED BY <1>1 DEF Interval, IntervalRecord

(* addNewInterval: the new list and timestamp. *)
LEMMA NewIntervalIs ==
  ASSUME DataTypes, OwnNewest, NEW h \in Host, addNewInterval(h)
  PROVE \E v \in IntervalRecord, more \in Seq(IntervalRecord) :
          /\ v.noticed = {} /\ v.timestamp = Bumped(now[h], h) /\ more = <<v>> \o intervals[h][h]
          /\ intervals' = [intervals EXCEPT ![h][h] = more]
          /\ now' = [now EXCEPT ![h] = v.timestamp]
<1>1. NextStamp(h) = Bumped(now[h], h) /\ NextStamp(h) \in Stamp
  BY BumpedStamp DEF NextStamp, OwnNewest, DataTypes
<1>2. PICK v \in IntervalRecord : v = Interval(NextStamp(h), FALSE) /\ v.timestamp = NextStamp(h)
                                  /\ v.noticed = {}
  BY <1>1, OwnInterval
<1>3. PICK list \in Seq(IntervalRecord) : list = intervals[h][h]
  BY DEF DataTypes
<1>4. PICK more : more = <<v>> \o list
  OBVIOUS
<1>5. more \in Seq(IntervalRecord)
  BY <1>4, SeqPrepend
<1>6. intervals' = [intervals EXCEPT ![h][h] = <<v>> \o @] /\ now' = [now EXCEPT ![h] = NextStamp(h)]
  BY <1>2 DEF addNewInterval
<1>7. intervals' = [intervals EXCEPT ![h][h] = more]
  BY <1>3, <1>4, <1>6
<1> QED BY <1>1, <1>2, <1>3, <1>4, <1>5, <1>6, <1>7

(* createWriteNotice: the page is named by the current interval, and gets a   *)
(* notice without a diff.                                                     *)
LEMMA NewNoticeIs ==
  ASSUME DataTypes, OwnNewest, NEW h \in Host, NEW p \in PageIndex, createWriteNotice(h, p)
  PROVE \E x \in NoticeRecord, more \in Seq(NoticeRecord), at \in DOMAIN intervals[h][h],
           next \in Seq(IntervalRecord) :
          /\ x.timestamp = now[h] /\ x.diff = None /\ more = <<x>> \o notices[h][p][h]
          /\ intervals[h][h][at].timestamp = now[h]
          /\ MoreNoticed(intervals[h][h], next, at, {p})
          /\ notices' = [notices EXCEPT ![h][p][h] = more]
          /\ intervals' = [intervals EXCEPT ![h][h] = next]
<1>1. PICK list \in Seq(IntervalRecord) : list = intervals[h][h] /\ list # << >>
                                          /\ Head(list).timestamp = now[h]
  BY DEF DataTypes, OwnNewest
<1>2. 1 \in DOMAIN list /\ list[1].timestamp = now[h]
  BY <1>1
<1>3. PICK at : at = CHOOSE i \in DOMAIN intervals[h][h] : intervals[h][h][i].timestamp = now[h]
  OBVIOUS
<1>4. at \in DOMAIN list /\ list[at].timestamp = now[h]
  BY <1>1, <1>2, <1>3
<1>5. PICK next : next = [list EXCEPT ![at].noticed = @ \cup {p}]
  OBVIOUS
<1>6. next \in Seq(IntervalRecord) /\ MoreNoticed(list, next, at, {p})
  <2>1. {p} \subseteq PageIndex
    OBVIOUS
  <2> QED BY <1>4, <1>5, <2>1, MorePages, Zenon
<1>7. intervals' = [intervals EXCEPT ![h][h] = next]
  <2>1. intervals' = [intervals EXCEPT ![h][h][at].noticed = @ \cup {p}]
    BY <1>3 DEF createWriteNotice
  <2> QED BY <1>1, <1>5, <2>1
<1>8. PICK x \in NoticeRecord : x = Notice(now[h]) /\ x.timestamp = now[h] /\ x.diff = None
  <2>1. Notice(now[h]) \in NoticeRecord /\ Notice(now[h]).timestamp = now[h] /\ Notice(now[h]).diff = None
    BY DEF Notice, NoticeRecord, DataTypes
  <2> QED BY <2>1
<1>9. PICK old \in Seq(NoticeRecord) : old = notices[h][p][h]
  BY DEF DataTypes
<1>10. PICK more : more = <<x>> \o old
  OBVIOUS
<1>11. more \in Seq(NoticeRecord)
  BY <1>10, SeqPrepend
<1>12. notices' = [notices EXCEPT ![h][p][h] = more]
  <2>1. notices' = [notices EXCEPT ![h][p][h] = <<x>> \o @]
    BY <1>8 DEF createWriteNotice
  <2> QED BY <1>9, <1>10, <2>1
<1> QED BY <1>1, <1>4, <1>6, <1>7, <1>8, <1>9, <1>10, <1>11, <1>12

-----------------------------------------------------------------------------
(* What the steps at one page do to it, and to the lists of its notices *)

(* A list with the diff d at one place. *)
Filled(list, next, at, d) ==
  /\ DOMAIN next = DOMAIN list /\ Len(next) = Len(list)
  /\ \A i \in DOMAIN list : /\ next[i].timestamp = list[i].timestamp
                            /\ next[i].diff = IF i = at THEN d ELSE list[i].diff

(* A diff put into a notice that has none. *)
LEMMA FillNotice ==
  ASSUME NEW list \in Seq(NoticeRecord), NEW at \in DOMAIN list, NEW d \in Page,
         NEW next, next = [list EXCEPT ![at].diff = d]
  PROVE next \in Seq(NoticeRecord) /\ Filled(list, next, at, d)
<1>1. PICK n \in Nat : list \in [1 .. n -> NoticeRecord] /\ n = Len(list) /\ DOMAIN list = 1 .. n
                       /\ at \in 1 .. n
  OBVIOUS
<1>2. PICK v : v = [list[at] EXCEPT !.diff = d]
  OBVIOUS
<1>3. v \in NoticeRecord /\ v.timestamp = list[at].timestamp /\ v.diff = d
  <2>1. list[at] \in NoticeRecord
    OBVIOUS
  <2> QED BY <1>2, <2>1 DEF NoticeRecord
<1>4. next = [list EXCEPT ![at] = v]
  BY <1>2
<1>5. next \in [1 .. n -> NoticeRecord] /\ \A i \in 1 .. n : next[i] = IF i = at THEN v ELSE list[i]
  BY <1>1, <1>3, <1>4
<1>6. next \in Seq(NoticeRecord) /\ Len(next) = n /\ DOMAIN next = 1 .. n
  BY <1>5
<1> QED BY <1>1, <1>3, <1>5, <1>6 DEF Filled

(* The first notice with a timestamp. *)
FirstAt(list, ts) ==
  CHOOSE i \in {k \in DOMAIN list : list[k].timestamp = ts} :
    \A k \in {l \in DOMAIN list : list[l].timestamp = ts} : i <= k

(* The notice that the loops of fetchDiff and grantDiff find. *)
LEMMA FirstAtIs ==
  ASSUME NEW list \in Seq(NoticeRecord), NEW ts, {k \in DOMAIN list : list[k].timestamp = ts} # {}
  PROVE FirstAt(list, ts) \in DOMAIN list /\ list[FirstAt(list, ts)].timestamp = ts
<1>1. PICK T : T = {k \in DOMAIN list : list[k].timestamp = ts}
  OBVIOUS
<1>2. T # {} /\ T \subseteq Nat
  BY <1>1
<1>3. (CHOOSE i \in T : \A k \in T : i <= k) \in T
  BY <1>2, FirstIsThere
<1>4. FirstAt(list, ts) \in T
  BY <1>1, <1>3 DEF FirstAt
<1> QED BY <1>1, <1>4

(* handleFetchDiffMsg *)
NoDiff(m) == /\ msgs' = msgs \ {m}
             /\ UNCHANGED <<notices, pages, prot>>
             /\ \/ pages[m.to][m.body.page].state = "MISS"
                \/ ~Timed(notices[m.to][m.body.page][m.to], m.body.timestamp)

GivesDiff(m, at, d, next, v) ==
  LET h == m.to
      p == m.body.page
      pg == pages[h][p]
      list == notices[h][p][h]
  IN /\ at \in DOMAIN list /\ list[at].timestamp = m.body.timestamp
     /\ d \in Page /\ next \in Seq(NoticeRecord) /\ v \in PageRecord
     /\ d = IF list[at].diff = None THEN createLocalDiff(pg.data, pg.twin) ELSE list[at].diff
     /\ v = IF list[at].diff = None THEN [pg EXCEPT !.twin = None, !.state = "RDONLY"] ELSE pg
     /\ list[at].diff = None => pg.state = "WRITE" /\ pg.twin \in Page /\ at = 1
     /\ Filled(list, next, at, d)
     /\ notices' = [notices EXCEPT ![h][p][h] = next]
     /\ pages' = [pages EXCEPT ![h][p] = v]
     /\ prot' = [prot EXCEPT ![h][p] = IF list[at].diff = None THEN "READ" ELSE @]
     /\ msgs' = (msgs \ {m}) \cup
          {Msg("GRANT_DIFF", h, m.from, [page |-> p, timestamp |-> m.body.timestamp, diff |-> d])}

(* handleFetchDiffMsg: nothing is found, or a diff is there, or it is made of the twin. *)
LEMMA HandleFetchDiffDoes ==
  ASSUME DataTypes, Twins, Undisturbed, NEW m \in Message, HandleFetchDiff(m)
  PROVE NoDiff(m) \/ \E at, d, next, v : GivesDiff(m, at, d, next, v)
<1>1. PICK h \in Host, p \in PageIndex : h = m.to /\ p = m.body.page
  BY Letters DEF HandleFetchDiff, Received
<1>2. PICK pg \in PageRecord : pg = pages[h][p]
  BY DEF DataTypes
<1>3. PICK list \in Seq(NoticeRecord) : list = notices[h][p][h]
  BY DEF DataTypes
<1>4. PICK found : found = {i \in DOMAIN list : list[i].timestamp = m.body.timestamp}
  OBVIOUS
<1>5. PICK at : at = FirstAt(list, m.body.timestamp)
  OBVIOUS
<1>6. PICK diff : diff = IF list[at].diff = None THEN createLocalDiff(pg.data, pg.twin) ELSE list[at].diff
  OBVIOUS
<1>7. IF pg.state = "MISS" \/ found = {}
      THEN msgs' = msgs \ {m} /\ UNCHANGED <<notices, pages, prot>>
      ELSE /\ notices' = [notices EXCEPT ![h][p][h][at].diff = diff]
           /\ pages' = [pages EXCEPT ![h][p] = IF list[at].diff = None THEN Downgraded(@) ELSE @]
           /\ prot' = [prot EXCEPT ![h][p] =
                         IF list[at].diff = None /\ pg.state = "WRITE" THEN "READ" ELSE @]
           /\ msgs' = (msgs \ {m}) \cup
                {Msg("GRANT_DIFF", h, m.from, [page |-> p, timestamp |-> m.body.timestamp, diff |-> diff])}
  <2> DEFINE own == notices[m.to][m.body.page][m.to]
             F == {i \in DOMAIN own : own[i].timestamp = m.body.timestamp}
             A == FirstAt(own, m.body.timestamp)
             M == F # {} /\ own[A].diff = None
             D == IF M THEN createLocalDiff(pages[m.to][m.body.page].data, pages[m.to][m.body.page].twin)
                  ELSE own[A].diff
  <2>1. IF pages[m.to][m.body.page].state = "MISS" \/ F = {}
        THEN msgs' = msgs \ {m} /\ UNCHANGED <<notices, pages, prot>>
        ELSE /\ notices' = [notices EXCEPT ![m.to][m.body.page][m.to][A].diff = D]
             /\ pages' = [pages EXCEPT ![m.to][m.body.page] = IF M THEN Downgraded(@) ELSE @]
             /\ prot' = [prot EXCEPT ![m.to][m.body.page] =
                           IF M /\ pages[m.to][m.body.page].state = "WRITE" THEN "READ" ELSE @]
             /\ msgs' = (msgs \ {m}) \cup
                {Msg("GRANT_DIFF", m.to, m.from,
                     [page |-> m.body.page, timestamp |-> m.body.timestamp, diff |-> D])}
    BY DEF HandleFetchDiff, FirstAt
  <2>2. own = list /\ pages[m.to][m.body.page] = pg
    BY <1>1, <1>2, <1>3
  <2>3. F = found /\ A = at
    BY <1>4, <1>5, <2>2
  <2>4. M <=> found # {} /\ list[at].diff = None
    BY <2>2, <2>3
  <2>5. found # {} => D = diff
    BY <1>6, <2>2, <2>3, <2>4
  <2> HIDE DEF own, F, A, M, D
  <2> QED BY <1>1, <2>1, <2>2, <2>3, <2>4, <2>5
<1>8. CASE pg.state = "MISS" \/ found = {}
  <2>1. pages[h][p].state = "MISS" \/ ~Timed(list, m.body.timestamp)
    BY <1>2, <1>4, <1>8 DEF Timed
  <2> QED BY <1>1, <1>3, <1>7, <1>8, <2>1 DEF NoDiff
<1>9. CASE pg.state # "MISS" /\ found # {}
  <2>1. at \in DOMAIN list /\ list[at].timestamp = m.body.timestamp /\ list[at] \in NoticeRecord
    <3>1. {k \in DOMAIN list : list[k].timestamp = m.body.timestamp} # {}
      BY <1>4, <1>9
    <3>2. at \in DOMAIN list /\ list[at].timestamp = m.body.timestamp
      BY <1>5, <3>1, FirstAtIs, Zenon
    <3> QED BY <3>2
  <2>2. list[at].diff = None => pg.state = "WRITE" /\ pg.twin \in Page /\ at = 1
    <3>1. TwinsAt(h, p)
      BY DEF Twins
    <3>2. ASSUME Faulting(h, p) PROVE list[at].diff # None
      <4>1. notices'[h][p] = notices[h][p]
        BY <3>2 DEF Undisturbed, Faulting, FaultPoints, HandleFetchDiff
      <4>2. notices' = [notices EXCEPT ![h][p][h][at].diff = diff]
        BY <1>7, <1>9
      <4>3. ASSUME list[at].diff = None PROVE diff = None
        <5>1. PICK next : next = [list EXCEPT ![at].diff = diff]
          OBVIOUS
        <5>2. notices' = [notices EXCEPT ![h][p][h] = next]
          BY <1>3, <4>2, <5>1
        <5>3. notices'[h][p][h] = next
          BY <5>2 DEF DataTypes
        <5>4. next[at].diff = diff
          BY <2>1, <5>1 DEF NoticeRecord
        <5> QED BY <1>3, <4>1, <4>3, <5>3, <5>4
      <4>4. ASSUME list[at].diff = None PROVE diff \in Page
        <5>1. pg.twin # None
          BY <1>2, <3>1, <3>2 DEF TwinsAt
        <5>2. pg.data \in Page /\ pg.twin \in Page
          BY <5>1 DEF PageRecord
        <5> QED BY <1>6, <4>4, <5>2, DiffType
      <4>5. None \notin Page
        BY PageIsSome
      <4> QED BY <4>3, <4>4, <4>5
    <3>3. ~Faulting(h, p) => ~(pc[h] = "noticed" /\ p = op[h].page)
      BY DEF Faulting, FaultPoints
    <3> QED BY <1>2, <1>3, <2>1, <3>1, <3>2, <3>3 DEF TwinsAt, Bare, PageRecord
  <2>3. diff \in Page
    <3>1. CASE list[at].diff = None
      <4>1. pg.data \in Page
        BY DEF PageRecord
      <4> QED BY <1>6, <2>2, <3>1, <4>1, DiffType
    <3>2. CASE list[at].diff # None
      BY <1>6, <2>1, <3>2 DEF NoticeRecord
    <3> QED BY <3>1, <3>2
  <2>4. PICK next : next = [list EXCEPT ![at].diff = diff]
    OBVIOUS
  <2>5. next \in Seq(NoticeRecord) /\ Filled(list, next, at, diff)
    BY <2>1, <2>3, <2>4, FillNotice
  <2>6. PICK v : v = IF list[at].diff = None THEN [pg EXCEPT !.twin = None, !.state = "RDONLY"] ELSE pg
    OBVIOUS
  <2>7. v \in PageRecord
    BY <2>6 DEF PageRecord
  <2>8. notices' = [notices EXCEPT ![h][p][h] = next]
    BY <1>3, <1>7, <1>9, <2>4
  <2>9. pages' = [pages EXCEPT ![h][p] = v]
    <3>1. pages' = [pages EXCEPT ![h][p] = IF list[at].diff = None THEN Downgraded(@) ELSE @]
      BY <1>7, <1>9
    <3>2. (IF list[at].diff = None THEN Downgraded(pg) ELSE pg) = v
      BY <2>2, <2>6 DEF Downgraded, freeTwinPage, PageRecord
    <3> QED BY <1>2, <3>1, <3>2
  <2>10. msgs' = (msgs \ {m}) \cup
           {Msg("GRANT_DIFF", h, m.from, [page |-> p, timestamp |-> m.body.timestamp, diff |-> diff])}
    BY <1>7, <1>9
  <2>11. prot' = [prot EXCEPT ![h][p] = IF list[at].diff = None THEN "READ" ELSE @]
    BY <1>7, <1>9, <2>2
  <2>12. GivesDiff(m, at, diff, next, v)
    BY <1>1, <1>2, <1>3, <1>6, <2>1, <2>2, <2>3, <2>5, <2>6, <2>7, <2>8, <2>9, <2>10, <2>11 DEF GivesDiff
  <2> QED BY <2>12
<1> QED BY <1>8, <1>9

(* handleGrantDiffMsg *)
NoPlace(m) == /\ UNCHANGED <<notices, pages>>

TakesDiff(m, at, d, next, v) ==
  LET h == m.to
      p == m.body.page
      pg == pages[h][p]
      list == notices[h][p][m.from]
  IN /\ at \in DOMAIN list /\ next \in Seq(NoticeRecord) /\ v \in PageRecord
     /\ d \in Page /\ d = IF list[at].diff = None THEN m.body.diff ELSE list[at].diff
     /\ Filled(list, next, at, d)
     /\ v.state = pg.state /\ v.twin = pg.twin /\ v.start = pg.start
     /\ notices' = [notices EXCEPT ![h][p][m.from] = next]
     /\ pages' = [pages EXCEPT ![h][p] = v]

(* handleGrantDiffMsg: a diff is put into the notice it was asked for, and applied. *)
LEMMA HandleGrantDiffDoes ==
  ASSUME DataTypes, NEW m \in Message, HandleGrantDiff(m)
  PROVE NoPlace(m) \/ \E at, d, next, v : TakesDiff(m, at, d, next, v)
<1>1. PICK h \in Host, p \in PageIndex, j \in Host : h = m.to /\ p = m.body.page /\ j = m.from
  BY Letters DEF HandleGrantDiff, Received
<1>2. PICK pg \in PageRecord : pg = pages[h][p]
  BY DEF DataTypes
<1>3. PICK list \in Seq(NoticeRecord) : list = notices[h][p][j]
  BY DEF DataTypes
<1>4. PICK found : found = {i \in DOMAIN list : list[i].timestamp = m.body.timestamp}
  OBVIOUS
<1>5. PICK at : at = FirstAt(list, m.body.timestamp)
  OBVIOUS
<1>6. m.body.diff \in Page
  BY Letters DEF HandleGrantDiff, Received
<1>7. IF found = {} THEN UNCHANGED <<notices, pages>>
      ELSE /\ notices' = [notices EXCEPT ![h][p][j][at].diff = IF @ = None THEN m.body.diff ELSE @]
           /\ pages' = [pages EXCEPT ![h][p].data = applyDiff(@, m.body.diff)]
  <2> DEFINE own == notices[m.to][m.body.page][m.from]
             F == {i \in DOMAIN own : own[i].timestamp = m.body.timestamp}
             A == FirstAt(own, m.body.timestamp)
  <2>1. IF F = {} THEN UNCHANGED <<notices, pages>>
        ELSE /\ notices' = [notices EXCEPT ![m.to][m.body.page][m.from][A].diff =
                               IF @ = None THEN m.body.diff ELSE @]
             /\ pages' = [pages EXCEPT ![m.to][m.body.page].data = applyDiff(@, m.body.diff)]
    BY DEF HandleGrantDiff, FirstAt
  <2>2. own = list
    BY <1>1, <1>3
  <2>3. F = found /\ A = at
    BY <1>4, <1>5, <2>2
  <2> HIDE DEF own, F, A
  <2> QED BY <1>1, <2>1, <2>3
<1>8. CASE found = {}
  BY <1>7, <1>8 DEF NoPlace
<1>9. CASE found # {}
  <2>1. at \in DOMAIN list /\ list[at] \in NoticeRecord
    <3>1. {k \in DOMAIN list : list[k].timestamp = m.body.timestamp} # {}
      BY <1>4, <1>9
    <3>2. at \in DOMAIN list /\ list[at].timestamp = m.body.timestamp
      BY <1>5, <3>1, FirstAtIs, Zenon
    <3> QED BY <3>2
  <2>2. PICK d : d = IF list[at].diff = None THEN m.body.diff ELSE list[at].diff
    OBVIOUS
  <2>3. d \in Page
    BY <1>6, <2>1, <2>2 DEF NoticeRecord
  <2>4. PICK next : next = [list EXCEPT ![at].diff = d]
    OBVIOUS
  <2>5. next \in Seq(NoticeRecord) /\ Filled(list, next, at, d)
    BY <2>1, <2>3, <2>4, FillNotice
  <2>6. PICK x : x = applyDiff(pg.data, m.body.diff)
    OBVIOUS
  <2>7. x \in Page
    <3>1. pg.data \in Page
      BY DEF PageRecord
    <3> QED BY <1>6, <2>6, <3>1, DiffType
  <2>8. PICK v : v = [pg EXCEPT !.data = x]
    OBVIOUS
  <2>9. v \in PageRecord /\ v.state = pg.state /\ v.twin = pg.twin /\ v.start = pg.start
    BY <2>7, <2>8 DEF PageRecord
  <2>10. notices' = [notices EXCEPT ![h][p][j] = next]
    <3>1. notices' = [notices EXCEPT ![h][p][j][at].diff = d]
      BY <1>3, <1>7, <1>9, <2>2
    <3> QED BY <1>3, <2>4, <3>1
  <2>11. pages' = [pages EXCEPT ![h][p] = v]
    <3>1. pages' = [pages EXCEPT ![h][p].data = x]
      BY <1>2, <1>7, <1>9, <2>6
    <3> QED BY <1>2, <2>8, <3>1
  <2>12. TakesDiff(m, at, d, next, v)
    BY <1>1, <1>2, <1>3, <2>1, <2>2, <2>3, <2>5, <2>9, <2>10, <2>11 DEF TakesDiff
  <2> QED BY <2>12
<1> QED BY <1>8, <1>9

(* The other steps that change one page. *)
LEMMA PageDoes ==
  ASSUME DataTypes, NEW h \in Host, NEW p \in PageIndex, NEW pg, pg = pages[h][p]
  PROVE /\ pg \in PageRecord
        /\ [pg EXCEPT !.state = "RDONLY"] \in PageRecord
        /\ [pg EXCEPT !.state = "WRITE"] \in PageRecord
        /\ createTwinPage(pg) \in PageRecord
        /\ \A x \in Page, t \in Stamp : [pg EXCEPT !.data = x, !.start = t] \in PageRecord
        /\ \A x \in Page : [pg EXCEPT !.data = x] \in PageRecord
<1>1. pg \in PageRecord
  BY DEF DataTypes
<1> QED BY <1>1 DEF PageRecord, createTwinPage

(* What hosts send: packets of intervals that they know. *)
LEMMA PacketsSent ==
  ASSUME DataTypes, NEW h \in Host, NEW ts
  PROVE /\ Packets(h, ts) \in Seq(PacketRecord)
        /\ \A i \in DOMAIN Packets(h, ts) : \E j \in Host : \E n \in DOMAIN intervals[h][j] :
             /\ Packets(h, ts)[i] = Packet(j, intervals[h][j][n])
             /\ isAfterInterval(intervals[h][j][n].timestamp, ts)
<1>1. PICK s : s = Packets(h, ts)
  OBVIOUS
<1>2. s \in Seq(NewsSet(h, ts))
  <2>1. \A j \in Host : intervals[h][j] \in Seq(IntervalRecord)
    BY DEF DataTypes
  <2> QED BY <1>1, <2>1, PacketsAre
<1>3. NewsSet(h, ts) \subseteq PacketRecord
  <2>1. ASSUME NEW j \in Host, NEW i \in DOMAIN intervals[h][j]
        PROVE Packet(j, intervals[h][j][i]) \in PacketRecord
    <3>1. intervals[h][j] \in Seq(IntervalRecord)
      BY DEF DataTypes
    <3>2. intervals[h][j][i] \in IntervalRecord
      BY <3>1
    <3> QED BY <3>2 DEF Packet, PacketRecord, IntervalRecord
  <2> QED BY <2>1 DEF NewsSet
<1>4. \A i \in DOMAIN s : s[i] \in NewsSet(h, ts)
  BY <1>2
<1>5. \A k \in NewsSet(h, ts) : \E j \in Host : \E n \in DOMAIN intervals[h][j] :
             /\ k = Packet(j, intervals[h][j][n])
             /\ isAfterInterval(intervals[h][j][n].timestamp, ts)
  BY DEF NewsSet
<1>6. s \in Seq(PacketRecord)
  BY <1>2, <1>3, SeqSubset
<1> QED BY <1>1, <1>4, <1>5, <1>6

(* The same for the messages of a barrier. *)
LEMMA BarrierPacketsSent ==
  ASSUME DataTypes, NEW h \in Host
  PROVE /\ BarrierPackets(h) \in Seq(PacketRecord)
        /\ \A i \in DOMAIN BarrierPackets(h) : \E n \in DOMAIN intervals[h][h] :
             BarrierPackets(h)[i] = Packet(h, intervals[h][h][n])
<1>1. PICK list \in Seq(IntervalRecord) : list = intervals[h][h]
  BY DEF DataTypes
<1>2. PICK S : S = 1 .. LatestBarrier(list)
  OBVIOUS
<1>3. PICK s : s = BarrierPackets(h) /\ s = PacketsIn(h, list, S)
  BY <1>1, <1>2 DEF BarrierPackets
<1>4. PICK X : X = PacketSet(h, list, S)
  OBVIOUS
<1>5. s \in Seq(X)
  BY <1>3, <1>4, PacketsInAre
<1>6. \A k \in X : \E n \in DOMAIN list : k = Packet(h, list[n])
  BY <1>4 DEF PacketSet
<1>7. \A n \in DOMAIN list : Packet(h, list[n]) \in PacketRecord
  <2> TAKE n \in DOMAIN list
  <2>1. list[n] \in IntervalRecord
    OBVIOUS
  <2> QED BY <2>1 DEF Packet, PacketRecord, IntervalRecord
<1>8. X \subseteq PacketRecord
  BY <1>6, <1>7
<1>9. s \in Seq(PacketRecord)
  BY <1>5, <1>8, SeqSubset
<1> QED BY <1>1, <1>3, <1>5, <1>6, <1>9

(* What fetchDiff asks for is on the lists of the page. *)
LEMMA MissingAsked ==
  ASSUME DataTypes, NEW h \in Host, NEW p \in PageIndex, NEW g \in Host
  PROVE /\ MissingFrom(h, p, g) \in Seq(Missing)
        /\ \A i \in DOMAIN MissingFrom(h, p, g) : \E j \in Host : \E n \in DOMAIN notices[h][p][j] :
             MissingFrom(h, p, g)[i] = [hostid |-> j, timestamp |-> notices[h][p][j][n].timestamp]
<1>1. PICK s : s = MissingFrom(h, p, g)
  OBVIOUS
<1>2. s \in Seq(MissingSet(h, p))
  <2>1. notices[h][p][g] \in Seq(NoticeRecord)
    BY DEF DataTypes
  <2> QED BY <1>1, <2>1, MissingFromAre
<1>3. \A k \in MissingSet(h, p) : \E j \in Host : \E n \in DOMAIN notices[h][p][j] :
        k = [hostid |-> j, timestamp |-> notices[h][p][j][n].timestamp]
  BY DEF MissingSet
<1>4. MissingSet(h, p) \subseteq Missing
  <2>1. ASSUME NEW j \in Host, NEW n \in DOMAIN notices[h][p][j]
        PROVE notices[h][p][j][n].timestamp \in Stamp
    <3>1. notices[h][p][j] \in Seq(NoticeRecord)
      BY DEF DataTypes
    <3>2. notices[h][p][j][n] \in NoticeRecord
      BY <3>1
    <3> QED BY <3>2 DEF NoticeRecord
  <2> QED BY <1>3, <2>1 DEF Missing
<1>5. s \in Seq(Missing)
  BY <1>2, <1>4, SeqSubset
<1> QED BY <1>1, <1>2, <1>3, <1>5

(* A handler runs for a host that expects its message; an answer is awaited   *)
(* outside a write fault.                                                     *)
LEMMA Handles ==
  ASSUME Types, OneAtATime, NEW m \in msgs, NEW command, Received(m, command)
  PROVE /\ m \in Message /\ m.command = command /\ m.to \in Host /\ m.from \in Host
        /\ ~stuck[m.to] /\ Expected(m) /\ stamps[Client(m)] = None
        /\ m.command \notin Request => pc[m.to] \notin FaultPoints
<1>1. /\ m \in Message /\ m.command = command /\ m.to \in Host /\ m.from \in Host
      /\ ~stuck[m.to] /\ Expected(m) /\ stamps[Client(m)] = None
  BY Letters DEF Types, OneAtATime, Received
<1>2. m.command \notin Request => pc[m.to] \notin FaultPoints
  <2>1. m.command \in Command
    BY <1>1, Letters
  <2>2. m.command \notin Request => Client(m) = m.to
    BY DEF Client
  <2> QED BY <1>1, <2>1, <2>2 DEF Expected, Command, Request, FaultPoints
<1> QED BY <1>1, <1>2

(* The page of an operation in progress. *)
LEMMA OpPage ==
  ASSUME Types, NEW h \in Host, pc[h] \notin {"app", "barrier"}
  PROVE op[h].page \in PageIndex /\ op[h].cell \in Cell /\ op[h] \in Operation
BY DEF Types, Working, Operation

-----------------------------------------------------------------------------
(* Types of the structures *)

(* The data of a host that a step leaves alone. *)
LEMMA DataFramed ==
  ASSUME DataTypes, UNCHANGED <<mem, memory>>
  PROVE DataTypes'
BY DEF DataTypes, mem

(* A step at one page of a host. *)
LEMMA DataPage ==
  ASSUME DataTypes, NEW h \in Host, NEW p \in PageIndex, NEW v \in PageRecord,
         pages' = [pages EXCEPT ![h][p] = v]
  PROVE /\ pages' \in [Host -> [PageIndex -> PageRecord]]
        /\ \A g \in Host, q \in PageIndex : pages'[g][q] = IF g = h /\ q = p THEN v ELSE pages[g][q]
<1>1. PICK f : f = pages
  OBVIOUS
<1>2. PICK g : g = pages'
  OBVIOUS
<1>3. f \in [Host -> [PageIndex -> PageRecord]] /\ g = [f EXCEPT ![h][p] = v]
  BY <1>1, <1>2 DEF DataTypes
<1>4. g \in [Host -> [PageIndex -> PageRecord]]
      /\ \A x \in Host, y \in PageIndex : g[x][y] = IF x = h /\ y = p THEN v ELSE f[x][y]
  BY <1>3, Update2, Zenon
<1> QED BY <1>1, <1>2, <1>4

(* A step at one list of notices. *)
LEMMA NoticesPut ==
  ASSUME DataTypes, NEW h \in Host, NEW p \in PageIndex, NEW j \in Host, NEW v \in Seq(NoticeRecord),
         notices' = [notices EXCEPT ![h][p][j] = v]
  PROVE Put3(notices', notices, h, p, j, v, Host, PageIndex, Host, Seq(NoticeRecord))
<1>1. PICK f : f = notices
  OBVIOUS
<1>2. PICK g : g = notices'
  OBVIOUS
<1>3. PICK D : D = Seq(NoticeRecord)
  OBVIOUS
<1>4. f \in [Host -> [PageIndex -> [Host -> D]]] /\ g = [f EXCEPT ![h][p][j] = v] /\ v \in D
  BY <1>1, <1>2, <1>3 DEF DataTypes
<1>5. Put3(g, f, h, p, j, v, Host, PageIndex, Host, D)
  BY <1>4, Update3, Zenon
<1> QED BY <1>1, <1>2, <1>3, <1>5

(* The two together. *)
LEMMA DataNotice ==
  ASSUME DataTypes, NEW h \in Host, NEW p \in PageIndex, NEW j \in Host, NEW v \in Seq(NoticeRecord),
         notices' = [notices EXCEPT ![h][p][j] = v]
  PROVE /\ notices' \in [Host -> [PageIndex -> [Host -> Seq(NoticeRecord)]]]
        /\ \A g \in Host, q \in PageIndex, i \in Host :
             notices'[g][q][i] = IF g = h /\ q = p /\ i = j THEN v ELSE notices[g][q][i]
<1>1. Put3(notices', notices, h, p, j, v, Host, PageIndex, Host, Seq(NoticeRecord))
  BY NoticesPut, Zenon
<1> QED BY <1>1 DEF Put3

(* A step at one list of intervals. *)
LEMMA DataInterval ==
  ASSUME DataTypes, NEW h \in Host, NEW j \in Host, NEW v \in Seq(IntervalRecord),
         intervals' = [intervals EXCEPT ![h][j] = v]
  PROVE /\ intervals' \in [Host -> [Host -> Seq(IntervalRecord)]]
        /\ \A g \in Host, i \in Host : intervals'[g][i] = IF g = h /\ i = j THEN v ELSE intervals[g][i]
<1>1. PICK f : f = intervals
  OBVIOUS
<1>2. PICK g : g = intervals'
  OBVIOUS
<1>3. PICK D : D = Seq(IntervalRecord)
  OBVIOUS
<1>4. f \in [Host -> [Host -> D]] /\ g = [f EXCEPT ![h][j] = v] /\ v \in D
  BY <1>1, <1>2, <1>3 DEF DataTypes
<1>5. g \in [Host -> [Host -> D]]
      /\ \A x \in Host, y \in Host : g[x][y] = IF x = h /\ y = j THEN v ELSE f[x][y]
  BY <1>4, Update2, Zenon
<1> QED BY <1>1, <1>2, <1>3, <1>5

(* A message with packets taken in. *)
LEMMA DataGains ==
  ASSUME DataTypes, NEW h \in Host, NEW own, own = None \/ own \in IntervalRecord,
         NEW packets, NEW base, NEW t, Gains(h, own, packets, base, t), memory' = memory
  PROVE /\ DataTypes'
        /\ intervals'[h] = t.intervals /\ notices'[h] = t.notices /\ pages'[h] = t.pages
        /\ now'[h] = IF own = None THEN now[h] ELSE own.timestamp
        /\ \A g \in Host : g # h =>
             /\ intervals'[g] = intervals[g] /\ notices'[g] = notices[g] /\ pages'[g] = pages[g]
             /\ now'[g] = now[g]
<1>1. PICK I, N, P : /\ I = [Host -> Seq(IntervalRecord)]
                     /\ N = [PageIndex -> [Host -> Seq(NoticeRecord)]]
                     /\ P = [PageIndex -> PageRecord]
  OBVIOUS
<1>2. intervals \in [Host -> I] /\ notices \in [Host -> N] /\ pages \in [Host -> P]
      /\ now \in [Host -> Stamp]
  BY <1>1 DEF DataTypes
<1>3. t.intervals \in I /\ t.notices \in N /\ t.pages \in P
  BY <1>1 DEF Gains, LocalRecord
<1>4. PICK ts \in Stamp : ts = IF own = None THEN now[h] ELSE own.timestamp
  BY <1>2 DEF IntervalRecord
<1>5. /\ intervals' = [intervals EXCEPT ![h] = t.intervals]
      /\ notices' = [notices EXCEPT ![h] = t.notices]
      /\ pages' = [pages EXCEPT ![h] = t.pages]
      /\ now' = [now EXCEPT ![h] = ts]
  BY <1>4 DEF Gains
<1>6. intervals' \in [Host -> I] /\ intervals'[h] = t.intervals
      /\ \A g \in Host : g # h => intervals'[g] = intervals[g]
  BY <1>2, <1>3, <1>5
<1>7. notices' \in [Host -> N] /\ notices'[h] = t.notices
      /\ \A g \in Host : g # h => notices'[g] = notices[g]
  BY <1>2, <1>3, <1>5
<1>8. pages' \in [Host -> P] /\ pages'[h] = t.pages
      /\ \A g \in Host : g # h => pages'[g] = pages[g]
  BY <1>2, <1>3, <1>5
<1>9. now' \in [Host -> Stamp] /\ now'[h] = ts
      /\ \A g \in Host : g # h => now'[g] = now[g]
  BY <1>2, <1>5
<1>10. DataTypes'
  BY <1>1, <1>6, <1>7, <1>8, <1>9 DEF DataTypes
<1> QED BY <1>4, <1>6, <1>7, <1>8, <1>9, <1>10

-----------------------------------------------------------------------------
(* Diffs and timestamps *)

(* A number below the modulus is its own remainder. *)
LEMMA ModSmall == ASSUME NEW n \in Nat \ {0}, NEW a \in 0 .. (n - 1) PROVE a % n = a
OBVIOUS

(* A difference added back gives the byte. *)
LEMMA ModRestore ==
  ASSUME NEW n \in Nat \ {0}, NEW a \in 0 .. (n - 1), NEW b \in 0 .. (n - 1)
  PROVE (a + ((b - a) % n)) % n = b
OBVIOUS

(* Two differences may be added in either order. *)
LEMMA ModSwap ==
  ASSUME NEW n \in Nat \ {0},
         NEW a \in 0 .. (n - 1), NEW b \in 0 .. (n - 1), NEW c \in 0 .. (n - 1)
  PROVE (((a + b) % n) + c) % n = (((a + c) % n) + b) % n
OBVIOUS

(* createLocalDiff and applyDiff are inverse: the diff of a page against    *)
(* its twin, applied to the twin, gives back the page byte by byte, also    *)
(* where the difference of two chars wraps around.                          *)
THEOREM DiffRestores ==
  ASSUME NEW page \in Page, NEW twin \in Page
  PROVE applyDiff(twin, createLocalDiff(page, twin)) = page
<1>1. ASSUME NEW c \in Cell PROVE (twin[c] + ((page[c] - twin[c]) % BYTE)) % BYTE = page[c]
  <2>1. page[c] \in 0 .. (BYTE - 1) /\ twin[c] \in 0 .. (BYTE - 1)
    BY DEF Page
  <2> QED BY <2>1, ModRestore, ByteAssumption
<1>2. \A c \in Cell : applyDiff(twin, createLocalDiff(page, twin))[c] = page[c]
  BY <1>1 DEF applyDiff, createLocalDiff
<1>3. applyDiff(twin, createLocalDiff(page, twin)) = [c \in Cell |-> page[c]]
  BY <1>2 DEF applyDiff
<1> QED BY <1>3 DEF Page

(* fetchDiff applies diffs in the order of their hosts, newest first, which *)
(* is not the order they were made in: the page does not depend on it.      *)
THEOREM DiffsCommute ==
  ASSUME NEW page \in Page, NEW d1 \in Page, NEW d2 \in Page
  PROVE applyDiff(applyDiff(page, d1), d2) = applyDiff(applyDiff(page, d2), d1)
<1>1. ASSUME NEW c \in Cell
      PROVE (((page[c] + d1[c]) % BYTE) + d2[c]) % BYTE = (((page[c] + d2[c]) % BYTE) + d1[c]) % BYTE
  <2>1. page[c] \in 0 .. (BYTE - 1) /\ d1[c] \in 0 .. (BYTE - 1) /\ d2[c] \in 0 .. (BYTE - 1)
    BY DEF Page
  <2> QED BY <2>1, ModSwap, ByteAssumption
<1>2. \A c \in Cell : applyDiff(applyDiff(page, d1), d2)[c] = applyDiff(applyDiff(page, d2), d1)[c]
  BY <1>1 DEF applyDiff
<1> QED BY <1>2 DEF applyDiff

(* Two hosts that change different bytes of a page do not disturb each      *)
(* other: a diff leaves alone every byte its writer left alone.             *)
THEOREM DiffLeavesAlone ==
  ASSUME NEW page \in Page, NEW twin \in Page, NEW other \in Page, NEW c \in Cell,
         page[c] = twin[c]
  PROVE applyDiff(other, createLocalDiff(page, twin))[c] = other[c]
<1>1. page[c] \in 0 .. (BYTE - 1) /\ other[c] \in 0 .. (BYTE - 1) /\ BYTE \in Nat \ {0}
  BY ByteAssumption DEF Page
<1>2. (page[c] - page[c]) % BYTE = 0
  <2>1. page[c] - page[c] = 0 /\ 0 \in 0 .. (BYTE - 1)
    BY <1>1
  <2> QED BY <2>1, <1>1, ModSmall
<1>3. (other[c] + 0) % BYTE = other[c]
  BY <1>1, ModSmall
<1> QED BY <1>2, <1>3 DEF applyDiff, createLocalDiff

(* isAfterInterval is a strict partial order on timestamps, and the next    *)
(* interval of a host comes after the one before: addNewInterval and the    *)
(* comparisons of grantWNI agree on what is new.                            *)
THEOREM AfterIsStrictOrder ==
  ASSUME NEW H, NEW t1 \in [H -> Int], NEW t2 \in [H -> Int], NEW t3 \in [H -> Int], NEW h \in H
  PROVE /\ ~isAfterInterval(t1, t1)
        /\ isAfterInterval(t1, t2) => ~isAfterInterval(t2, t1)
        /\ isAfterInterval(t1, t2) /\ isAfterInterval(t2, t3) => isAfterInterval(t1, t3)
        /\ isAfterInterval(Bumped(t1, h), t1)
<1>1. ~isAfterInterval(t1, t1)
  BY DEF isAfterInterval
<1>2. isAfterInterval(t1, t2) => ~isAfterInterval(t2, t1)
  BY DEF isAfterInterval
<1>3. isAfterInterval(t1, t2) /\ isAfterInterval(t2, t3) => isAfterInterval(t1, t3)
  BY DEF isAfterInterval
<1>4. isAfterInterval(Bumped(t1, h), t1)
  <2>1. \A g \in H : Bumped(t1, h)[g] = IF g = h THEN t1[h] + 1 ELSE t1[g]
    BY DEF Bumped
  <2>2. DOMAIN t1 = H
    OBVIOUS
  <2> QED BY <2>1, <2>2 DEF isAfterInterval
<1> QED BY <1>1, <1>2, <1>3, <1>4
=============================================================================
