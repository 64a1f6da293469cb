------------------------------ MODULE FfnLemmas ------------------------------
(***************************************************************************)
(* Facts the proofs of several components need: counters that wrap, one    *)
(* element of a sequence replaced, induction, and the values of a run that *)
(* is defined by recursion.                                                *)
(***************************************************************************)
EXTENDS Integers, Sequences, WellFoundedInduction, TLAPS

-----------------------------------------------------------------------------
(* Counters that wrap.                                                     *)

LEMMA DivMod ==
  ASSUME NEW a \in Int, NEW n \in Nat \ {0}
  PROVE  a \div n \in Int /\ a % n \in 0 .. n - 1 /\ a = n * (a \div n) + (a % n)
  OBVIOUS

LEMMA ModUnique ==
  ASSUME NEW n \in Nat \ {0}, NEW q \in Int, NEW r \in 0 .. n - 1
  PROVE  (n * q + r) % n = r
  OBVIOUS

LEMMA ModMod ==
  ASSUME NEW a \in Int, NEW n \in Nat \ {0}, NEW w \in Nat \ {0}, w % n = 0
  PROVE  (a % w) % n = a % n
<1> DEFINE b == a % w
           m == w \div n
           q == a \div w
           p == b \div n
           r == b % n
<1>1. b \in Int /\ q \in Int /\ a = w * q + b
  BY DivMod
<1>2. m \in Int /\ w = n * m
  BY DivMod
<1>3. p \in Int /\ r \in 0 .. n - 1 /\ b = n * p + r
  BY <1>1, DivMod
<1> HIDE DEF b, m, q, p, r
<1>4. a = n * (m * q + p) + r
  BY <1>1, <1>2, <1>3
<1>5. m * q + p \in Int
  BY <1>1, <1>2, <1>3
<1>6. a % n = r
  BY <1>3, <1>4, <1>5, ModUnique
<1> QED BY <1>6 DEF r, b

(* The distance of two counters that are less than the width apart.         *)
LEMMA ModDiff ==
  ASSUME NEW a \in Int, NEW b \in Int, NEW w \in Nat \ {0}, a - b \in 0 .. w - 1
  PROVE  ((a % w) - (b % w)) % w = a - b
<1> DEFINE p == a \div w
           q == b \div w
           r == a % w
           s == b % w
<1>1. p \in Int /\ r \in 0..w-1 /\ a = w * p + r
  BY DivMod
<1>2. q \in Int /\ s \in 0..w-1 /\ b = w * q + s
  BY DivMod
<1> HIDE DEF p, q, r, s
<1>3. r - s = w * (q - p) + (a - b)
  BY <1>1, <1>2
<1>4. (r - s) % w = a - b
  BY <1>1, <1>2, <1>3, ModUnique
<1> QED BY <1>4 DEF r, s

LEMMA ModSucc ==
  ASSUME NEW a \in Int, NEW w \in Nat \ {0}
  PROVE  ((a % w) + 1) % w = (a + 1) % w
<1> DEFINE p == (a+1) \div w
           q == a \div w
           r == (a+1) % w
           s == a % w
<1>1. p \in Int /\ r \in 0..w-1 /\ a + 1 = w * p + r
  BY DivMod
<1>2. q \in Int /\ s \in 0..w-1 /\ a = w * q + s
  BY DivMod
<1> HIDE DEF p, q, r, s
<1>3. s + 1 = w * (p - q) + r
  BY <1>1, <1>2
<1>4. (s + 1) % w = r
  BY <1>1, <1>2, <1>3, ModUnique
<1> QED BY <1>4 DEF r, s

(* Numbers less than n apart that share a slot are one number.             *)
LEMMA SlotsApart ==
  ASSUME NEW a \in Int, NEW b \in Int, NEW n \in Nat \ {0}, a - b \in 0 .. n - 1, a % n = b % n
  PROVE  a = b
<1>1. ((a % n) - (b % n)) % n = a - b
  BY ModDiff
<1>2. (a % n) - (b % n) = 0
  BY DivMod
<1>3. 0 % n = 0
  OBVIOUS
<1> QED BY <1>1, <1>2, <1>3

LEMMA SlotAfter ==
  ASSUME NEW a \in Int, NEW k \in Int, NEW n \in Nat \ {0}
  PROVE  ((a % n) + k) % n = (a + k) % n
<1> DEFINE p == (a+k) \div n
           q == a \div n
           r == (a+k) % n
           s == a % n
<1>1. p \in Int /\ r \in 0..n-1 /\ a + k = n * p + r
  BY DivMod
<1>2. q \in Int /\ s \in 0..n-1 /\ a = n * q + s
  BY DivMod
<1> HIDE DEF p, q, r, s
<1>3. s + k = n * (p - q) + r /\ p - q \in Int
  BY <1>1, <1>2
<1>4. (s + k) % n = r
  BY <1>1, <1>2, <1>3, ModUnique
<1> QED BY <1>4 DEF r, s

LEMMA SlotOfSum ==
  ASSUME NEW a \in Int, NEW k \in Int, NEW n \in Nat \ {0}, NEW w \in Nat \ {0}, w % n = 0
  PROVE  ((a % w) + k) % n = (a + k) % n
<1>1. a % w \in Int
  BY DivMod
<1>2. (((a % w) % n) + k) % n = ((a % w) + k) % n
  BY <1>1, SlotAfter
<1>3. ((a % n) + k) % n = (a + k) % n
  BY SlotAfter
<1> QED BY <1>2, <1>3, ModMod

LEMMA SmallMod == ASSUME NEW n \in Nat \ {0}, NEW r \in 0 .. n - 1 PROVE r % n = r
  OBVIOUS

-----------------------------------------------------------------------------
(* Sequences.                                                              *)

LEMMA SeqReplaced ==
  ASSUME NEW S, NEW q \in Seq(S), NEW i \in 1 .. Len(q), NEW x \in S
  PROVE  LET r == [q EXCEPT ![i] = x]
         IN  r \in Seq(S) /\ Len(r) = Len(q) /\ \A j \in 1 .. Len(q) : j # i => r[j] = q[j]
<1> DEFINE r == [q EXCEPT ![i] = x]
           n == Len(q)
<1>1. n \in Nat /\ q \in [1 .. n -> S]
  OBVIOUS
<1>2. r \in [1 .. n -> S]
  BY <1>1
<1>3. r \in Seq(S) /\ Len(r) = n
  <2> HIDE DEF r, n
  <2> QED BY <1>1, <1>2
<1> QED BY <1>1, <1>3

-----------------------------------------------------------------------------
(* Induction.  The well-founded order of the natural numbers gives every   *)
(* non-empty set of them a least element, and with it induction up to a    *)
(* bound for a property written as a set.                                  *)

LEMMA SmallestOf ==
  ASSUME NEW T, T \subseteq Nat, T # {}
  PROVE  \E x \in T : \A y \in T : x <= y
<1>1. IsWellFoundedOn(OpToRel(<, Nat), Nat)
  BY NatLessThanWellFounded
<1>2. PICK x \in T : \A y \in T : ~ (<<y, x>> \in OpToRel(<, Nat))
  BY <1>1, WFMin
<1>3. ASSUME NEW y \in T PROVE x <= y
  <2>1. ~ (<<y, x>> \in {ss \in Nat \X Nat : ss[1] < ss[2]})
    BY <1>2 DEF OpToRel
  <2>2. x \in Nat /\ y \in Nat
    OBVIOUS
  <2> QED BY <2>1, <2>2
<1> QED BY <1>3

LEMMA Inducts ==
  ASSUME NEW N \in Nat, NEW S, 0 \in S,
         \A n \in Nat : n \in S /\ n < N => n + 1 \in S
  PROVE  \A n \in 0 .. N : n \in S
<1> SUFFICES ASSUME NEW k \in 0 .. N, k \notin S PROVE FALSE
  OBVIOUS
<1> DEFINE T == {n \in 0 .. N : n \notin S}
<1>1. PICK x \in T : \A y \in T : x <= y
  <2> T \subseteq Nat /\ T # {} OBVIOUS
  <2> HIDE DEF T
  <2> QED BY SmallestOf
<1>2. x # 0 /\ x \in 0 .. N /\ x \notin S
  OBVIOUS
<1>3. x - 1 \in Nat /\ x - 1 < N /\ x - 1 \in 0 .. N
  BY <1>2
<1>4. x - 1 \in S
  BY <1>1, <1>3
<1>5. x - 1 + 1 \in S
  BY <1>3, <1>4
<1> QED BY <1>2, <1>5

\* The runs of M steps from a through St, each with its own function.
StepRuns(St, a, M, H) == {f \in [0 .. M -> St] : f[0] = a /\ \A n \in 1 .. M : f[n] = H[n][f[n - 1]]}

LEMMA StepsExist ==
  ASSUME NEW St, NEW a \in St, NEW M \in Nat, NEW H \in [1 .. M -> [St -> St]]
  PROVE  StepRuns(St, a, M, H) # {}
<1> DEFINE Upto(k) == \E f \in [0 .. k -> St] : f[0] = a /\ \A n \in 1 .. k : f[n] = H[n][f[n - 1]]
           S == {k \in 0 .. M : Upto(k)}
<1>1. 0 \in S
  <2> DEFINE f == [n \in 0 .. 0 |-> a]
  <2>1. f \in [0 .. 0 -> St] /\ f[0] = a /\ \A n \in 1 .. 0 : f[n] = H[n][f[n - 1]]
    OBVIOUS
  <2>2. Upto(0)
    <3> HIDE DEF f
    <3> QED BY <2>1
  <2> QED BY <2>2
<1>2. ASSUME NEW k \in Nat, k \in S, k < M PROVE k + 1 \in S
  <2>1. PICK f \in [0 .. k -> St] : f[0] = a /\ \A n \in 1 .. k : f[n] = H[n][f[n - 1]]
    BY <1>2
  <2> DEFINE g == [n \in 0 .. k + 1 |-> IF n = k + 1 THEN H[k + 1][f[k]] ELSE f[n]]
  <2>2. f[k] \in St /\ (\A n \in 0 .. k + 1 : n # k + 1 => n \in 0 .. k)
    BY <2>1
  <2>3. H[k + 1][f[k]] \in St
    <3>1. k + 1 \in 1 .. M
      BY <1>2
    <3> QED BY <2>2, <3>1
  <2>4. g \in [0 .. k + 1 -> St]
    BY <2>1, <2>2, <2>3
  <2>5. g[0] = a
    BY <2>1
  <2>6. ASSUME NEW n \in 1 .. k + 1 PROVE g[n] = H[n][g[n - 1]]
    <3>1. n - 1 \in 0 .. k + 1 /\ n - 1 # k + 1 /\ g[n - 1] = f[n - 1]
      OBVIOUS
    <3>2. CASE n = k + 1
      BY <3>1, <3>2
    <3>3. CASE n # k + 1
      <4>1. n \in 1 .. k /\ g[n] = f[n]
        BY <3>3
      <4> QED BY <2>1, <3>1, <4>1
    <3> QED BY <3>2, <3>3
  <2>7. Upto(k + 1)
    <3> HIDE DEF g
    <3> QED BY <2>4, <2>5, <2>6
  <2>8. k + 1 \in 0 .. M
    BY <1>2
  <2> HIDE DEF Upto
  <2> QED BY <2>7, <2>8
<1>3. M \in S
  <2> HIDE DEF S
  <2>1. \A n \in 0 .. M : n \in S
    BY <1>1, <1>2, Inducts
  <2> QED BY <2>1
<1> QED BY <1>3 DEF StepRuns

\* Two runs of the same steps from the same place are one.
LEMMA StepsUnique ==
  ASSUME NEW M \in Nat, NEW H, NEW f, NEW g, f[0] = g[0],
         \A n \in 1 .. M : f[n] = H[n][f[n - 1]] /\ g[n] = H[n][g[n - 1]]
  PROVE  \A n \in 0 .. M : f[n] = g[n]
<1> DEFINE S == {n \in 0 .. M : f[n] = g[n]}
<1>1. 0 \in S
  OBVIOUS
<1>2. ASSUME NEW n \in Nat, n \in S, n < M PROVE n + 1 \in S
  <2>1. n + 1 \in 1 .. M /\ (n + 1) - 1 = n
    BY <1>2
  <2> QED BY <1>2, <2>1
<1>3. \A n \in 0 .. M : n \in S
  <2> HIDE DEF S
  <2> QED BY <1>1, <1>2, Inducts
<1> QED BY <1>3

\* One step repeated M times.
LEMMA RunsExist ==
  ASSUME NEW St, NEW a \in St, NEW G \in [St -> St], NEW M \in Nat
  PROVE  \E f \in [0 .. M -> St] : f[0] = a /\ \A n \in 1 .. M : f[n] = G[f[n - 1]]
<1> DEFINE H == [n \in 1 .. M |-> G]
<1>1. H \in [1 .. M -> [St -> St]]
  OBVIOUS
<1>2. PICK f \in StepRuns(St, a, M, H) : TRUE
  BY <1>1, StepsExist
<1>3. f \in [0 .. M -> St] /\ f[0] = a /\ \A n \in 1 .. M : f[n] = H[n][f[n - 1]]
  <2> HIDE DEF H
  <2> QED BY DEF StepRuns
<1>4. \A n \in 1 .. M : f[n] = G[f[n - 1]]
  BY <1>3
<1> QED BY <1>3, <1>4

-----------------------------------------------------------------------------
(* Folding a sequence.  G takes a value and the next element to a value.   *)
Foldings(G, a, es) ==
  CHOOSE f : f = [n \in 0 .. Len(es) |-> IF n = 0 THEN a ELSE G[<<f[n - 1], es[n]>>]]
FoldOf(G, a, es) == Foldings(G, a, es)[Len(es)]
FoldArgs(St, E, G, a, es) == G \in [St \X E -> St] /\ a \in St /\ es \in Seq(E)

LEMMA FoldSteps ==
  ASSUME NEW St, NEW E, NEW G, NEW a, NEW es, FoldArgs(St, E, G, a, es)
  PROVE  /\ Foldings(G, a, es) \in [0 .. Len(es) -> St]
         /\ Foldings(G, a, es)[0] = a
         /\ \A n \in 1 .. Len(es) : Foldings(G, a, es)[n] = G[<<Foldings(G, a, es)[n - 1], es[n]>>]
<1> DEFINE M == Len(es)
           H == [n \in 1 .. M |-> [x \in St |-> G[<<x, es[n]>>]]]
           Is(f) == f = [n \in 0 .. M |-> IF n = 0 THEN a ELSE G[<<f[n - 1], es[n]>>]]
<1>0. G \in [St \X E -> St] /\ a \in St /\ es \in Seq(E)
  BY DEF FoldArgs
<1>1. M \in Nat /\ \A n \in 1 .. M : es[n] \in E
  BY <1>0
<1>2. H \in [1 .. M -> [St -> St]]
  BY <1>0, <1>1
<1>3. PICK f \in StepRuns(St, a, M, H) : TRUE
  <2> HIDE DEF H, M
  <2> QED BY <1>0, <1>1, <1>2, StepsExist
<1>4. f \in [0 .. M -> St] /\ f[0] = a /\ \A n \in 1 .. M : f[n] = H[n][f[n - 1]]
  <2> HIDE DEF H, M
  <2> QED BY DEF StepRuns
<1> HIDE DEF M
<1>5. ASSUME NEW n \in 1 .. M PROVE f[n - 1] \in St /\ f[n] = G[<<f[n - 1], es[n]>>]
  BY <1>1, <1>4
<1>6. ASSUME NEW n \in 0 .. M PROVE f[n] = IF n = 0 THEN a ELSE G[<<f[n - 1], es[n]>>]
  <2>1. n # 0 => n \in 1 .. M
    BY <1>1
  <2> QED BY <1>4, <1>5, <2>1
<1>7. Is(f)
  BY <1>4, <1>6
<1> DEFINE W == Foldings(G, a, es)
<1>8. W = CHOOSE g : Is(g)
  BY DEF Foldings, M
<1>9. Is(W)
  <2> HIDE DEF Is, W
  <2> QED BY <1>7, <1>8
<1> HIDE DEF W
<1>10. W[0] = a
  BY <1>1, <1>9
<1>11. ASSUME NEW n \in 1 .. M PROVE W[n] = G[<<W[n - 1], es[n]>>]
  <2>1. n \in 0 .. M /\ n # 0
    BY <1>1
  <2> QED BY <1>9, <2>1
<1> DEFINE S == {n \in 0 .. M : W[n] = f[n]}
<1>12. \A n \in 0 .. M : n \in S
  <2>1. 0 \in S
    BY <1>1, <1>4, <1>10
  <2>2. ASSUME NEW n \in Nat, n \in S, n < M PROVE n + 1 \in S
    <3>1. n + 1 \in 1 .. M /\ (n + 1) - 1 = n
      BY <1>1, <2>2
    <3>2. W[n + 1] = G[<<W[n], es[n + 1]>>] /\ f[n + 1] = G[<<f[n], es[n + 1]>>] /\ W[n] = f[n]
      BY <1>5, <1>11, <2>2, <3>1
    <3> QED BY <3>1, <3>2
  <2> HIDE DEF S
  <2> QED BY <1>1, <2>1, <2>2, Inducts
<1>13. \A n \in 0 .. M : W[n] = f[n]
  BY <1>12
<1>14. W = [n \in 0 .. M |-> W[n]]
  BY <1>9
<1>15. W \in [0 .. M -> St]
  BY <1>4, <1>13, <1>14
<1> QED BY <1>10, <1>11, <1>15 DEF M, W

LEMMA FoldType ==
  ASSUME NEW St, NEW E, NEW G, NEW a, NEW es, FoldArgs(St, E, G, a, es)
  PROVE  FoldOf(G, a, es) \in St
<1>1. Foldings(G, a, es) \in [0 .. Len(es) -> St]
  BY FoldSteps
<1>2. Len(es) \in 0 .. Len(es)
  BY DEF FoldArgs
<1> QED BY <1>1, <1>2 DEF FoldOf

LEMMA FoldNone ==
  ASSUME NEW St, NEW E, NEW G, NEW a, FoldArgs(St, E, G, a, <<>>)
  PROVE  FoldOf(G, a, <<>>) = a
<1>1. Len(<<>>) = 0
  OBVIOUS
<1>2. Foldings(G, a, <<>>)[0] = a
  BY FoldSteps
<1> QED BY <1>1, <1>2 DEF FoldOf

\* What a function that takes the same steps holds.
LEMMA FoldUnique ==
  ASSUME NEW St, NEW E, NEW G, NEW a, NEW es, FoldArgs(St, E, G, a, es),
         NEW M \in 0 .. Len(es), NEW f, f[0] = a, \A n \in 1 .. M : f[n] = G[<<f[n - 1], es[n]>>]
  PROVE  \A n \in 0 .. M : f[n] = Foldings(G, a, es)[n]
<1> DEFINE W == Foldings(G, a, es)
           S == {n \in 0 .. M : f[n] = W[n]}
<1>1. M \in Nat /\ M <= Len(es) /\ W[0] = a /\ \A n \in 1 .. M : W[n] = G[<<W[n - 1], es[n]>>]
  <2>1. W[0] = a /\ \A n \in 1 .. Len(es) : W[n] = G[<<W[n - 1], es[n]>>]
    BY FoldSteps
  <2>2. Len(es) \in Nat
    BY DEF FoldArgs
  <2> HIDE DEF W
  <2> QED BY <2>1, <2>2
<1> HIDE DEF W
<1>2. 0 \in S
  BY <1>1
<1>3. ASSUME NEW n \in Nat, n \in S, n < M PROVE n + 1 \in S
  <2>1. n + 1 \in 1 .. M /\ (n + 1) - 1 = n /\ n + 1 \in 0 .. M
    BY <1>1, <1>3
  <2>2. f[n + 1] = G[<<f[n], es[n + 1]>>] /\ W[n + 1] = G[<<W[n], es[n + 1]>>] /\ f[n] = W[n]
    BY <1>1, <1>3, <2>1
  <2> QED BY <2>1, <2>2
<1>4. \A n \in 0 .. M : n \in S
  <2> HIDE DEF S
  <2> QED BY <1>1, <1>2, <1>3, Inducts
<1> QED BY <1>4 DEF W

\* The first elements alone.
LEMMA FoldPrefix ==
  ASSUME NEW St, NEW E, NEW G, NEW a, NEW es, FoldArgs(St, E, G, a, es), NEW k \in 0 .. Len(es)
  PROVE  /\ FoldArgs(St, E, G, a, SubSeq(es, 1, k))
         /\ Foldings(G, a, es)[k] = FoldOf(G, a, SubSeq(es, 1, k))
<1> DEFINE fs == SubSeq(es, 1, k)
           W == Foldings(G, a, fs)
<1>1. fs \in Seq(E) /\ Len(fs) = k /\ \A n \in 1 .. k : fs[n] = es[n]
  BY DEF FoldArgs
<1>2. FoldArgs(St, E, G, a, fs)
  BY <1>1 DEF FoldArgs
<1> HIDE DEF fs
<1>3. W[0] = a /\ \A n \in 1 .. Len(fs) : W[n] = G[<<W[n - 1], fs[n]>>]
  BY <1>2, FoldSteps
<1> HIDE DEF W
<1>4. \A n \in 1 .. k : W[n] = G[<<W[n - 1], es[n]>>]
  BY <1>1, <1>3
<1>5. \A n \in 0 .. k : W[n] = Foldings(G, a, es)[n]
  BY <1>3, <1>4, FoldUnique
<1>6. FoldOf(G, a, fs) = W[k]
  BY <1>1 DEF FoldOf, W
<1>7. k \in 0 .. k
  OBVIOUS
<1> QED BY <1>2, <1>5, <1>6, <1>7 DEF fs

LEMMA FoldAppend ==
  ASSUME NEW St, NEW E, NEW G, NEW a, NEW es, FoldArgs(St, E, G, a, es), NEW e \in E
  PROVE  FoldOf(G, a, Append(es, e)) = G[<<FoldOf(G, a, es), e>>]
<1> DEFINE fs == Append(es, e)
           k == Len(es)
<1>1. fs \in Seq(E) /\ Len(fs) = k + 1 /\ fs[k + 1] = e /\ SubSeq(fs, 1, k) = es /\ k \in Nat
  BY DEF FoldArgs
<1>2. FoldArgs(St, E, G, a, fs)
  BY <1>1 DEF FoldArgs
<1> HIDE DEF fs, k
<1>3. k \in 0 .. Len(fs) /\ k + 1 \in 1 .. Len(fs) /\ (k + 1) - 1 = k
  BY <1>1
<1>4. Foldings(G, a, fs)[k] = FoldOf(G, a, SubSeq(fs, 1, k))
  BY <1>2, <1>3, FoldPrefix
<1>5. \A n \in 1 .. Len(fs) : Foldings(G, a, fs)[n] = G[<<Foldings(G, a, fs)[n - 1], fs[n]>>]
  BY <1>2, FoldSteps
<1>6. Foldings(G, a, fs)[k + 1] = G[<<Foldings(G, a, fs)[k], fs[k + 1]>>]
  BY <1>3, <1>5
<1> QED BY <1>1, <1>4, <1>6 DEF FoldOf, fs, k

\* The first k elements, then the others.
LEMMA FoldSplit ==
  ASSUME NEW St, NEW E, NEW G, NEW a, NEW es, FoldArgs(St, E, G, a, es), NEW k \in 0 .. Len(es)
  PROVE  LET b == FoldOf(G, a, SubSeq(es, 1, k))
             fs == SubSeq(es, k + 1, Len(es))
         IN  FoldArgs(St, E, G, b, fs) /\ FoldOf(G, a, es) = FoldOf(G, b, fs)
<1> DEFINE b == FoldOf(G, a, SubSeq(es, 1, k))
           fs == SubSeq(es, k + 1, Len(es))
           W == Foldings(G, a, es)
           m == Len(es) - k
           f == [n \in 0 .. m |-> W[k + n]]
<1>1. fs \in Seq(E) /\ Len(fs) = m /\ m \in Nat /\ k \in Nat /\ Len(es) \in Nat /\ \A n \in 1 .. m : fs[n] = es[k + n]
  BY DEF FoldArgs
<1>2. b \in St /\ W[k] = b
  BY FoldType, FoldPrefix
<1>3. \A n \in 1 .. Len(es) : W[n] = G[<<W[n - 1], es[n]>>]
  BY FoldSteps
<1> HIDE DEF W, b, fs
<1>4. FoldArgs(St, E, G, b, fs)
  BY <1>1, <1>2 DEF FoldArgs
<1>5. f[0] = b
  BY <1>1, <1>2
<1>6. ASSUME NEW n \in 1 .. m PROVE f[n] = G[<<f[n - 1], fs[n]>>]
  <2>1. n \in 0 .. m /\ n - 1 \in 0 .. m /\ k + n \in 1 .. Len(es) /\ (k + n) - 1 = k + (n - 1)
    BY <1>1
  <2>2. f[n] = W[k + n] /\ f[n - 1] = W[k + (n - 1)] /\ fs[n] = es[k + n]
    BY <1>1, <2>1
  <2>3. W[k + n] = G[<<W[(k + n) - 1], es[k + n]>>]
    BY <1>3, <2>1
  <2> QED BY <2>1, <2>2, <2>3
<1>7. m \in 0 .. Len(fs) /\ m \in 0 .. m
  BY <1>1
<1>8. f[m] = W[Len(es)]
  BY <1>1
<1> HIDE DEF f, m
<1>9. \A n \in 0 .. m : f[n] = Foldings(G, b, fs)[n]
  BY <1>4, <1>5, <1>6, <1>7, FoldUnique
<1> QED BY <1>1, <1>4, <1>7, <1>8, <1>9 DEF FoldOf, W, b, fs

LEMMA FoldCons ==
  ASSUME NEW St, NEW E, NEW G, NEW a, NEW es, FoldArgs(St, E, G, a, es), es # <<>>
  PROVE  /\ FoldArgs(St, E, G, G[<<a, Head(es)>>], Tail(es))
         /\ FoldOf(G, a, es) = FoldOf(G, G[<<a, Head(es)>>], Tail(es))
<1>1. es \in Seq(E) /\ a \in St /\ G \in [St \X E -> St]
  BY DEF FoldArgs
<1>2. 1 \in 0 .. Len(es) /\ Head(es) \in E /\ Tail(es) = SubSeq(es, 1 + 1, Len(es)) /\ Tail(es) \in Seq(E)
  BY <1>1
<1>3. 1 \in 1 .. Len(es) /\ 1 - 1 = 0 /\ es[1] = Head(es)
  BY <1>1
<1>4. Foldings(G, a, es)[1] = FoldOf(G, a, SubSeq(es, 1, 1))
  BY <1>2, FoldPrefix
<1>5. /\ Foldings(G, a, es)[0] = a
      /\ \A n \in 1 .. Len(es) : Foldings(G, a, es)[n] = G[<<Foldings(G, a, es)[n - 1], es[n]>>]
  BY FoldSteps
<1>7. FoldOf(G, a, SubSeq(es, 1, 1)) = G[<<a, Head(es)>>]
  BY <1>3, <1>4, <1>5
<1>8. LET b == FoldOf(G, a, SubSeq(es, 1, 1))
          fs == SubSeq(es, 1 + 1, Len(es))
      IN  FoldArgs(St, E, G, b, fs) /\ FoldOf(G, a, es) = FoldOf(G, b, fs)
  BY <1>2, FoldSplit
<1> QED BY <1>2, <1>7, <1>8
=============================================================================
