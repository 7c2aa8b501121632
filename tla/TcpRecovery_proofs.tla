------------------------- MODULE TcpRecovery_proofs -------------------------
(***************************************************************************)
(* The scoreboard of the sender and the blocks of the receiver, for any    *)
(* amount of data, any segment sizes, and any scenario of losses, early    *)
(* timeouts and changes of the segment size.                               *)
(*                                                                         *)
(* Fits is what every operation of the scoreboard keeps, Able and Counted  *)
(* what every operation of the sender keeps, Taking what every operation   *)
(* of the receiver keeps, and OnTheWay what both keep of the               *)
(* acknowledgements between them.  EvenFits is what holds besides when the *)
(* segment size never changes.  RecInv joins them.                         *)
(***************************************************************************)
EXTENDS TcpRecovery, FiniteSetTheorems, SequenceTheorems, TLAPS

-----------------------------------------------------------------------------
\* Sums over sequences.

\* Induction over the natural numbers, for a set.
LEMMA Induction ==
  ASSUME NEW S, 0 \in S, \A n \in Nat : n \in S => n + 1 \in S
  PROVE  Nat \subseteq S
<1> DEFINE R == {pair \in Nat \X Nat : pair[1] < pair[2]}
           T == Nat \ S
<1>1. IsWellFoundedOn(R, Nat) BY NatLessThanWellFounded DEF OpToRel
<1>2. SUFFICES ASSUME T # {} PROVE FALSE OBVIOUS
<1>3. PICK m \in T : \A n \in T : ~ (<<n, m>> \in R)
  <2>1. T \subseteq Nat OBVIOUS
  <2> HIDE DEF R, T
  <2> QED BY <1>1, <1>2, <2>1, WFMin
<1>4. m \in Nat /\ m \notin S BY DEF T
<1>5. m - 1 \in Nat BY <1>4
<1>6. <<m - 1, m>> \in R BY <1>4, <1>5
<1>7. m - 1 \in S BY <1>3, <1>5, <1>6
<1> QED BY <1>4, <1>5, <1>7

\* A function on 1..n is a sequence of length n.
LEMMA FunctionIsSeq ==
  ASSUME NEW n \in Nat, NEW T, NEW w \in [1..n -> T]
  PROVE  w \in Seq(T) /\ Len(w) = n /\ DOMAIN w = 1..n
<1>1. w \in Seq(T) BY SeqDef
<1> QED BY <1>1

\* g holds the sums of the first elements of w.
Sums(w, n, g) == g[0] = 0 /\ \A k \in 1..n : g[k] = g[k - 1] + w[k]

\* The sums of any sequence of numbers exist.
LEMMA SumsExist ==
  ASSUME NEW n \in Nat, NEW w \in [1..n -> Int]
  PROVE  \E g \in [0..n -> Int] : Sums(w, n, g)
<1> DEFINE S == {m \in Nat : m <= n => \E g \in [0..m -> Int] : Sums(w, m, g)}
<1>1. 0 \in S
  <2>1. Sums(w, 0, [k \in 0..0 |-> 0]) BY DEF Sums
  <2>2. [k \in 0..0 |-> 0] \in [0..0 -> Int] OBVIOUS
  <2> QED BY <2>1, <2>2
<1>2. ASSUME NEW m \in Nat, m \in S PROVE m + 1 \in S
  <2>1. SUFFICES ASSUME m + 1 <= n PROVE \E g \in [0..(m + 1) -> Int] : Sums(w, m + 1, g)
    OBVIOUS
  <2>2. PICK g \in [0..m -> Int] : Sums(w, m, g) BY <1>2, <2>1
  <2> DEFINE h == [k \in 0..(m + 1) |-> IF k <= m THEN g[k] ELSE g[m] + w[m + 1]]
  <2>3. w[m + 1] \in Int /\ g[m] \in Int BY <2>1
  <2>4. h \in [0..(m + 1) -> Int] BY <2>3
  <2>5. h[0] = 0 BY <2>2 DEF Sums
  <2>6. ASSUME NEW k \in 1..(m + 1) PROVE h[k] = h[k - 1] + w[k]
    <3>1. CASE k = m + 1 BY <3>1
    <3>2. CASE k # m + 1
      <4>1. k \in 1..m /\ k - 1 \in 0..m /\ k - 1 \in 0..(m + 1) BY <3>2
      <4> QED BY <2>2, <4>1 DEF Sums
    <3> QED BY <3>1, <3>2
  <2> HIDE DEF h
  <2>7. Sums(w, m + 1, h) BY <2>5, <2>6 DEF Sums
  <2> QED BY <2>4, <2>7
<1> HIDE DEF S
<1>3. Nat \subseteq S BY <1>1, <1>2, Induction
<1> QED BY <1>3 DEF S

\* Two functions that hold the sums of w agree.
LEMMA SumsUnique ==
  ASSUME NEW n \in Nat, NEW w, NEW g, NEW h, Sums(w, n, g), Sums(w, n, h)
  PROVE  g[n] = h[n]
<1> DEFINE S == {m \in Nat : m <= n => g[m] = h[m]}
<1>1. 0 \in S BY DEF Sums
<1>2. ASSUME NEW m \in Nat, m \in S PROVE m + 1 \in S
  <2>1. SUFFICES ASSUME m + 1 <= n PROVE g[m + 1] = h[m + 1] OBVIOUS
  <2>2. g[m] = h[m] /\ m + 1 \in 1..n BY <1>2, <2>1
  <2> QED BY <2>2 DEF Sums
<1> HIDE DEF S
<1>3. Nat \subseteq S BY <1>1, <1>2, Induction
<1> QED BY <1>3 DEF S

\* Total is the last of the sums.
LEMMA TotalIsSum ==
  ASSUME NEW n \in Nat, NEW w \in [1..n -> Int], NEW g, Sums(w, n, g)
  PROVE  Total(w) = g[n]
<1> DEFINE Rec(f) == f = [k \in 0..n |-> IF k = 0 THEN 0 ELSE f[k - 1] + w[k]]
           f == CHOOSE f : Rec(f)
<1>1. Len(w) = n BY FunctionIsSeq
<1>2. PICK h \in [0..n -> Int] : Sums(w, n, h) BY SumsExist
<1>3. Rec(h) BY <1>2 DEF Sums
<1>4. Rec(f) BY <1>3
<1>5. Total(w) = f[n] BY <1>1 DEF Total
<1> HIDE DEF f
<1>6. f[0] = 0 BY <1>4
<1>7. ASSUME NEW k \in 1..n PROVE f[k] = f[k - 1] + w[k]
  <2>1. k \in 0..n /\ k # 0 OBVIOUS
  <2> QED BY <1>4, <2>1
<1>8. Sums(w, n, f) BY <1>6, <1>7 DEF Sums
<1> QED BY <1>5, <1>8, SumsUnique

\* Total(w) is the last of sums that exist.
LEMMA TotalOf ==
  ASSUME NEW n \in Nat, NEW w \in [1..n -> Int]
  PROVE  \E g \in [0..n -> Int] : Sums(w, n, g) /\ Total(w) = g[n]
BY SumsExist, TotalIsSum

\* The sum of numbers is a number.
LEMMA TotalType ==
  ASSUME NEW n \in Nat, NEW w \in [1..n -> Int]
  PROVE  Total(w) \in Int
BY TotalOf

\* The sum of nothing is 0.
LEMMA TotalEmpty ==
  ASSUME NEW w \in [1..0 -> Int]
  PROVE  Total(w) = 0
<1>1. PICK g \in [0..0 -> Int] : Sums(w, 0, g) /\ Total(w) = g[0] BY TotalOf
<1> QED BY <1>1 DEF Sums

\* w holds the sums of the elements of u and v.
Adds(n, u, v, w) ==
  /\ n \in Nat /\ u \in [1..n -> Int] /\ v \in [1..n -> Int] /\ w \in [1..n -> Int]
  /\ \A k \in 1..n : w[k] = u[k] + v[k]

\* The sum of the sums, element by element.
LEMMA TotalAdd ==
  ASSUME NEW n, NEW u, NEW v, NEW w, Adds(n, u, v, w)
  PROVE  Total(w) = Total(u) + Total(v)
<1>0. /\ n \in Nat /\ u \in [1..n -> Int] /\ v \in [1..n -> Int] /\ w \in [1..n -> Int]
      /\ \A k \in 1..n : w[k] = u[k] + v[k]
  BY DEF Adds
<1>1. PICK g \in [0..n -> Int] : Sums(u, n, g) /\ Total(u) = g[n] BY <1>0, TotalOf
<1>2. PICK h \in [0..n -> Int] : Sums(v, n, h) /\ Total(v) = h[n] BY <1>0, TotalOf
<1> DEFINE f == [k \in 0..n |-> g[k] + h[k]]
<1>3. f[0] = 0 BY <1>0, <1>1, <1>2 DEF Sums
<1>4. ASSUME NEW k \in 1..n PROVE f[k] = f[k - 1] + w[k]
  <2>1. k - 1 \in 0..n /\ k \in 0..n BY <1>0
  <2>2. g[k] = g[k - 1] + u[k] /\ h[k] = h[k - 1] + v[k] BY <1>0, <1>1, <1>2 DEF Sums
  <2>3. g[k - 1] \in Int /\ h[k - 1] \in Int /\ u[k] \in Int /\ v[k] \in Int BY <1>0, <1>1, <1>2, <2>1
  <2> QED BY <1>0, <2>1, <2>2, <2>3
<1>5. f[n] = g[n] + h[n] BY <1>0
<1> HIDE DEF f
<1>6. Sums(w, n, f) BY <1>3, <1>4 DEF Sums
<1> QED BY <1>0, <1>1, <1>2, <1>5, <1>6, TotalIsSum

\* The sum of naturals is not negative.
LEMMA TotalNonneg ==
  ASSUME NEW n \in Nat, NEW w \in [1..n -> Nat]
  PROVE  Total(w) >= 0
<1>1. w \in [1..n -> Int] OBVIOUS
<1>2. PICK g \in [0..n -> Int] : Sums(w, n, g) /\ Total(w) = g[n] BY <1>1, TotalOf
<1> DEFINE S == {m \in Nat : m <= n => g[m] >= 0}
<1>3. 0 \in S BY <1>2 DEF Sums
<1>4. ASSUME NEW m \in Nat, m \in S PROVE m + 1 \in S
  <2>1. SUFFICES ASSUME m + 1 <= n PROVE g[m + 1] >= 0 OBVIOUS
  <2>2. g[m] >= 0 /\ g[m] \in Int /\ m + 1 \in 1..n BY <1>4, <2>1
  <2>3. w[m + 1] \in Nat /\ g[m + 1] = g[(m + 1) - 1] + w[m + 1] BY <1>2, <2>2 DEF Sums
  <2> QED BY <2>2, <2>3
<1> HIDE DEF S
<1>5. Nat \subseteq S BY <1>3, <1>4, Induction
<1> QED BY <1>2, <1>5 DEF S

\* One more element.
LEMMA TotalAppend ==
  ASSUME NEW n \in Nat, NEW u \in [1..n -> Int], NEW w \in [1..(n + 1) -> Int],
         \A k \in 1..n : w[k] = u[k]
  PROVE  Total(w) = Total(u) + w[n + 1]
<1>1. PICK g \in [0..(n + 1) -> Int] : Sums(w, n + 1, g) /\ Total(w) = g[n + 1] BY TotalOf
<1>2. Sums(u, n, g) BY <1>1 DEF Sums
<1>3. Total(u) = g[n] BY <1>2, TotalIsSum
<1>4. g[n + 1] = g[(n + 1) - 1] + w[n + 1] BY <1>1 DEF Sums
<1> QED BY <1>1, <1>3, <1>4

\* In w the elements i and i + 1 of u are one.
Merged(n, i, u, w) ==
  /\ n \in Nat /\ i \in 1..n
  /\ u \in [1..(n + 1) -> Int] /\ w \in [1..n -> Int]
  /\ \A k \in 1..(i - 1) : w[k] = u[k]
  /\ \A k \in (i + 1)..n : w[k] = u[k + 1]

\* Two elements made one: the sum differs by what these elements differ by.
LEMMA TotalMerge ==
  ASSUME NEW n, NEW i, NEW u, NEW w, Merged(n, i, u, w)
  PROVE  Total(w) = Total(u) + w[i] - u[i] - u[i + 1]
<1>0. n \in Nat /\ i \in 1..n /\ n + 1 \in Nat
      /\ u \in [1..(n + 1) -> Int] /\ w \in [1..n -> Int] BY DEF Merged
<1>1. PICK g \in [0..(n + 1) -> Int] : Sums(u, n + 1, g) /\ Total(u) = g[n + 1] BY <1>0, TotalOf
<1>2. w[i] \in Int /\ u[i] \in Int /\ u[i + 1] \in Int BY <1>0
<1>3. w[i] - u[i] - u[i + 1] \in Int BY <1>2
<1> DEFINE f == [k \in 0..n |-> IF k < i THEN g[k] ELSE g[k + 1] + (w[i] - u[i] - u[i + 1])]
<1>4. f[0] = 0 BY <1>0, <1>1 DEF Sums
<1>5. ASSUME NEW k \in 1..n PROVE f[k] = f[k - 1] + w[k]
  <2>1. k - 1 \in 0..n /\ k \in 0..n /\ k + 1 \in 1..(n + 1) BY <1>0
  <2>2. g[k] = g[k - 1] + u[k] /\ g[k + 1] = g[k] + u[k + 1]
    <3>1. k \in 1..(n + 1) /\ (k + 1) - 1 = k BY <1>0
    <3> QED BY <1>1, <2>1, <3>1 DEF Sums
  <2>3. g[k - 1] \in Int /\ g[k] \in Int /\ u[k] \in Int /\ u[k + 1] \in Int BY SMTT(30), <1>0, <2>1
  <2>4. CASE k < i
    <3>1. k \in 1..(i - 1) BY <1>0, <2>4
    <3>2. w[k] = u[k] BY <3>1 DEF Merged
    <3>3. f[k] = g[k] /\ f[k - 1] = g[k - 1] BY <1>0, <2>1, <2>4
    <3> QED BY <2>2, <3>2, <3>3, Zenon
  <2>5. CASE k = i
    <3>1. f[k] = g[k + 1] + (w[k] - u[k] - u[k + 1]) /\ f[k - 1] = g[k - 1] BY <1>0, <2>1, <2>5
    <3>4. w[k] \in Int BY <1>0
    <3>2. (g[k - 1] + u[k]) + u[k + 1] + (w[k] - u[k] - u[k + 1]) = g[k - 1] + w[k]
      BY <2>3, <3>4
    <3> QED BY <2>2, <3>1, <3>2, Zenon
  <2>6. CASE k > i
    <3>0. k \in (i + 1)..n BY <1>0, <2>6
    <3>1. w[k] = u[k + 1] /\ (k - 1) + 1 = k BY <3>0 DEF Merged
    <3>2. /\ f[k] = g[k + 1] + (w[i] - u[i] - u[i + 1])
          /\ f[k - 1] = g[k] + (w[i] - u[i] - u[i + 1])
      BY SMTT(30), <1>0, <2>1, <2>6, <3>1
    <3>3. \A x \in Int : (g[k] + u[k + 1]) + x = (g[k] + x) + u[k + 1] BY <2>3
    <3> QED BY <1>3, <2>2, <3>1, <3>2, <3>3, Zenon
  <2> QED BY <1>0, <2>4, <2>5, <2>6
<1>6. f[n] = Total(u) + (w[i] - u[i] - u[i + 1]) BY <1>0, <1>1
<1> HIDE DEF f
<1>7. Sums(w, n, f) BY <1>4, <1>5 DEF Sums
<1>8. Total(w) = Total(u) + (w[i] - u[i] - u[i + 1]) BY <1>0, <1>6, <1>7, TotalIsSum
<1>9. Total(u) \in Int BY <1>0, <1>1
<1> QED BY <1>2, <1>8, <1>9

\* u is w behind m zeros.
ZerosFirst(n, m, k, u, w) ==
  /\ n \in Nat /\ m \in Nat /\ k \in Nat /\ k + m = n
  /\ u \in [1..n -> Int] /\ w \in [1..k -> Int]
  /\ \A i \in 1..m : u[i] = 0
  /\ \A i \in 1..k : w[i] = u[i + m]

\* Zeros in front do not count.
LEMMA TotalSuffix ==
  ASSUME NEW n, NEW m, NEW r, NEW u, NEW w, ZerosFirst(n, m, r, u, w)
  PROVE  Total(w) = Total(u)
<1>0. /\ n \in Nat /\ m \in Nat /\ r \in Nat /\ r + m = n
      /\ u \in [1..n -> Int] /\ w \in [1..r -> Int]
      /\ \A k \in 1..m : u[k] = 0
      /\ \A k \in 1..r : w[k] = u[k + m]
  BY DEF ZerosFirst
<1>1. PICK g \in [0..n -> Int] : Sums(u, n, g) /\ Total(u) = g[n] BY <1>0, TotalOf
<1> DEFINE S == {k \in Nat : k <= m => g[k] = 0}
<1>2. 0 \in S BY <1>1 DEF Sums
<1>3. ASSUME NEW k \in Nat, k \in S PROVE k + 1 \in S
  <2>1. SUFFICES ASSUME k + 1 <= m PROVE g[k + 1] = 0 OBVIOUS
  <2>2. k <= m /\ k + 1 \in 1..n /\ k + 1 \in 1..m BY <1>0, <2>1
  <2>3. g[k] = 0 /\ u[k + 1] = 0 BY <1>0, <1>3, <2>2
  <2>4. g[k + 1] = g[(k + 1) - 1] + u[k + 1] BY <1>1, <2>2 DEF Sums
  <2> QED BY <2>3, <2>4
<1>4. Nat \subseteq S
  <2> HIDE DEF S
  <2> QED BY <1>2, <1>3, Induction
<1>5. g[m] = 0 BY <1>0, <1>4
<1> HIDE DEF S
<1> DEFINE f == [k \in 0..r |-> g[k + m]]
<1>6. f[0] = 0 BY <1>0, <1>5
<1>7. ASSUME NEW k \in 1..r PROVE f[k] = f[k - 1] + w[k]
  <2>1. k + m \in 1..n /\ k - 1 \in 0..r /\ k \in 0..r /\ (k + m) - 1 = (k - 1) + m BY <1>0
  <2>2. g[k + m] = g[(k + m) - 1] + u[k + m] BY <1>1, <2>1 DEF Sums
  <2>3. f[k] = g[k + m] /\ f[k - 1] = g[(k - 1) + m] /\ w[k] = u[k + m] BY <1>0, <2>1
  <2> HIDE DEF f
  <2> QED BY <2>1, <2>2, <2>3, Zenon
<1>8. f[r] = g[n]
  <2>1. r \in 0..r BY <1>0
  <2>2. f[r] = g[r + m] BY <2>1
  <2> HIDE DEF f
  <2> QED BY <1>0, <2>2
<1> HIDE DEF f
<1>9. Sums(w, r, f) BY <1>6, <1>7 DEF Sums
<1> QED BY <1>0, <1>1, <1>8, <1>9, TotalIsSum

\* The differences of a growing sequence add up to what it has grown by.
LEMMA TotalSteps ==
  ASSUME NEW n \in Nat, NEW e \in [0..n -> Int], NEW w \in [1..n -> Int],
         \A k \in 1..n : w[k] = e[k] - e[k - 1]
  PROVE  Total(w) = e[n] - e[0]
<1> DEFINE f == [k \in 0..n |-> e[k] - e[0]]
<1>1. f[0] = 0 OBVIOUS
<1>2. ASSUME NEW k \in 1..n PROVE f[k] = f[k - 1] + w[k]
  <2>1. k - 1 \in 0..n /\ k \in 0..n /\ 0 \in 0..n OBVIOUS
  <2>2. e[k] \in Int /\ e[k - 1] \in Int /\ e[0] \in Int BY <2>1
  <2>3. f[k] = e[k] - e[0] /\ f[k - 1] = e[k - 1] - e[0] /\ w[k] = e[k] - e[k - 1] BY <2>1
  <2> HIDE DEF f
  <2> QED BY <2>2, <2>3
<1>3. f[n] = e[n] - e[0] OBVIOUS
<1> HIDE DEF f
<1>4. Sums(w, n, f) BY <1>1, <1>2 DEF Sums
<1> QED BY <1>3, <1>4, TotalIsSum

-----------------------------------------------------------------------------
\* The items of a buffer.

\* Min is the least element of a set of naturals that is not empty.
LEMMA MinFacts ==
  ASSUME NEW S \in SUBSET Nat, S # {}
  PROVE  Min(S) \in S /\ \A y \in S : Min(S) <= y
<1> DEFINE R == {pair \in Nat \X Nat : pair[1] < pair[2]}
<1>1. IsWellFoundedOn(R, Nat) BY NatLessThanWellFounded DEF OpToRel
<1>2. PICK m \in S : \A y \in S : ~ (<<y, m>> \in R)
  <2> HIDE DEF R
  <2> QED BY <1>1, WFMin
<1>3. \A y \in S : m <= y
  <2> TAKE y \in S
  <2>1. y \in Nat /\ m \in Nat /\ ~(<<y, m>> \in R) BY <1>2
  <2> QED BY <2>1
<1>4. \E x \in S : \A y \in S : x <= y BY <1>3
<1> QED BY <1>4 DEF Min

\* Max is the greatest element of a finite set that is not empty.
LEMMA MaxFacts ==
  ASSUME NEW n \in Nat, NEW S \in SUBSET (1..n), S # {}
  PROVE  Max(S) \in S /\ \A y \in S : y <= Max(S)
<1> DEFINE Mirror == {n - s : s \in S}
<1>1. Mirror \in SUBSET Nat /\ Mirror # {}
  <2>1. \A s \in S : n - s \in Nat OBVIOUS
  <2> QED BY <2>1
<1>2. Min(Mirror) \in Mirror /\ \A y \in Mirror : Min(Mirror) <= y
  <2> HIDE DEF Mirror
  <2> QED BY <1>1, MinFacts
<1>3. PICK x \in S : Min(Mirror) = n - x BY <1>2
<1>4. ASSUME NEW y \in S PROVE y <= x
  <2>1. n - y \in Mirror OBVIOUS
  <2>2. n - x <= n - y BY <1>2, <1>3, <2>1
  <2>3. x \in Int /\ y \in Int OBVIOUS
  <2> QED BY <2>2, <2>3
<1>5. \E z \in S : \A y \in S : z >= y
  <2>1. \A y \in S : x >= y
    <3> TAKE y \in S
    <3>1. y <= x /\ x \in Int /\ y \in Int BY <1>4
    <3> QED BY <3>1
  <2> QED BY <2>1
<1>6. Max(S) \in S /\ \A y \in S : Max(S) >= y BY <1>5 DEF Max
<1>7. \A y \in S : y \in Int OBVIOUS
<1> QED BY <1>6, <1>7

\* Each item begins where the one before it ends, the first one at the head.
Contiguous(b) ==
  /\ b.sent # <<>> => b.sent[1].start = b.first
  /\ \A i \in 1..(Len(b.sent) - 1) : b.sent[i + 1].start = End(b.sent[i])

\* What is lost comes before what is not, but for what is sacked.
Ordered(b) ==
  \A i, j \in Indices(b) : i < j /\ b.sent[j].lost => b.sent[i].lost \/ b.sent[i].sacked

\* No item is sacked and lost.
Exclusive(b) == \A i \in Indices(b) : ~(b.sent[i].sacked /\ b.sent[i].lost)

\* The bytes of the sacked items.
SackedBytes(b) ==
  {x \in 1..Data : \E i \in Indices(b) : b.sent[i].sacked /\ b.sent[i].start <= x /\ x < End(b.sent[i])}

\* From the highest sacked item on, the sacked items leave no gap.
Topped(b) ==
  /\ SackedBytes(b) # {} => b.highest # NoSeq
  /\ \A x \in SackedBytes(b) : b.highest <= x => b.highest..x \subseteq SackedBytes(b)

\* The items lie one behind the other, and with the unsent bytes end at Data.
Laid(b) ==
  /\ b \in Buffer
  /\ b.first >= 1
  /\ SentEnd(b) + b.unsent = Data + 1
  /\ Contiguous(b)

\* The invariant of the scoreboard.
Fits(b) ==
  /\ Laid(b) /\ Ordered(b) /\ Exclusive(b) /\ Topped(b)
  /\ b.first \notin SackedBytes(b)
  /\ b.failed \subseteq {"merge lost"}
  /\ b.failed = {} => Consistent(b)

\* The fields of an item.
LEMMA ItemFacts ==
  ASSUME NEW q \in Seq(Item), NEW i \in 1..Len(q)
  PROVE  /\ q[i] \in Item /\ q[i].start \in Nat /\ q[i].len \in Nat \ {0}
         /\ q[i].lost \in BOOLEAN /\ q[i].retrans \in BOOLEAN /\ q[i].sacked \in BOOLEAN
         /\ End(q[i]) = q[i].start + q[i].len /\ End(q[i]) \in Nat /\ q[i].start < End(q[i])
<1>1. q[i] \in Item OBVIOUS
<1>2. q[i].start \in Nat /\ q[i].len \in Nat \ {0} BY <1>1 DEF Item
<1> QED BY <1>1, <1>2 DEF Item, End

\* The fields of a buffer.
LEMMA BufferFacts ==
  ASSUME NEW b \in Buffer
  PROVE  /\ b.first \in Nat /\ b.sent \in Seq(Item) /\ b.unsent \in Nat /\ b.sackedOut \in Int
         /\ b.lostOut \in Int /\ b.retrans \in Int /\ b.highest \in Nat
         /\ b.failed \in SUBSET Assertion
         /\ Len(b.sent) \in Nat /\ Indices(b) = 1..Len(b.sent) /\ DOMAIN b.sent = 1..Len(b.sent)
<1>1. b.sent \in Seq(Item) BY DEF Buffer
<1> QED BY <1>1 DEF Buffer, Indices

\* An item ends before any later one begins.
LEMMA ItemsInOrder ==
  ASSUME NEW b \in Buffer, Contiguous(b), NEW i \in Indices(b), NEW j \in Indices(b), i < j
  PROVE  End(b.sent[i]) <= b.sent[j].start
<1> DEFINE q == b.sent
           S == {m \in Nat : i + 1 + m <= Len(q) => End(q[i]) <= q[i + 1 + m].start}
<1>1. q \in Seq(Item) /\ Len(q) \in Nat /\ Indices(b) = 1..Len(q) BY BufferFacts
<1>2. i \in 1..Len(q) /\ j \in 1..Len(q) BY <1>1
<1>3. 0 \in S
  <2>1. SUFFICES ASSUME i + 1 <= Len(q) PROVE End(q[i]) <= q[i + 1].start BY <1>2
  <2>2. q[i + 1].start = End(q[i]) BY <1>1, <1>2, <2>1 DEF Contiguous
  <2>3. End(q[i]) \in Nat BY <1>1, <1>2, ItemFacts
  <2> QED BY <2>2, <2>3
<1>4. ASSUME NEW m \in Nat, m \in S PROVE m + 1 \in S
  <2> DEFINE k == i + 1 + m
  <2>1. SUFFICES ASSUME k + 1 <= Len(q) PROVE End(q[i]) <= q[k + 1].start
    <3>1. i + 1 + (m + 1) = k + 1 BY <1>2
    <3> QED BY <3>1
  <2>2. k \in 1..Len(q) /\ k + 1 \in 1..Len(q) /\ k \in 1..(Len(q) - 1) BY <1>1, <1>2, <2>1
  <2>3. End(q[i]) <= q[k].start BY <1>2, <1>4, <2>1, <2>2
  <2> HIDE DEF k, S
  <2>4. q[k + 1].start = End(q[k]) BY <2>2 DEF Contiguous
  <2>5. End(q[k]) \in Nat /\ q[k].start \in Nat /\ q[k].start < End(q[k]) /\ End(q[i]) \in Nat
    BY <1>1, <1>2, <2>2, ItemFacts
  <2> QED BY <2>3, <2>4, <2>5
<1> HIDE DEF S
<1>5. Nat \subseteq S BY <1>3, <1>4, Induction
<1>6. j - i - 1 \in Nat /\ i + 1 + (j - i - 1) = j BY <1>2
<1>7. j - i - 1 \in S BY <1>5, <1>6
<1>8. j <= Len(q) BY <1>1, <1>2
<1> QED BY <1>6, <1>7, <1>8 DEF S

\* The items lie between the head of the buffer and the end of what was sent.
LEMMA ItemsInside ==
  ASSUME NEW b \in Buffer, Contiguous(b), NEW i \in Indices(b)
  PROVE  b.first <= b.sent[i].start /\ End(b.sent[i]) <= SentEnd(b)
<1> DEFINE q == b.sent
<1>1. q \in Seq(Item) /\ Len(q) \in Nat /\ Indices(b) = 1..Len(q) /\ b.first \in Nat BY BufferFacts
<1>2. i \in 1..Len(q) /\ 1 \in 1..Len(q) /\ Len(q) \in 1..Len(q) /\ q # <<>> BY <1>1
<1>3. /\ q[i].start \in Nat /\ End(q[i]) \in Nat /\ q[1].start \in Nat /\ End(q[1]) \in Nat
      /\ q[Len(q)].start \in Nat /\ End(q[Len(q)]) \in Nat
      /\ q[1].start < End(q[1]) /\ q[Len(q)].start < End(q[Len(q)])
  BY <1>1, <1>2, ItemFacts
<1>4. q[1].start = b.first /\ SentEnd(b) = End(q[Len(q)]) BY <1>2 DEF Contiguous, SentEnd
<1>5. b.first <= q[i].start
  <2>1. CASE i = 1 BY <1>3, <1>4, <2>1
  <2>2. CASE i # 1
    <3>1. 1 < i BY <1>2, <2>2
    <3>2. End(q[1]) <= q[i].start BY <1>1, <1>2, <3>1, ItemsInOrder
    <3> QED BY <1>3, <1>4, <3>2
  <2> QED BY <2>1, <2>2
<1>6. End(q[i]) <= SentEnd(b)
  <2>1. CASE i = Len(q) BY <1>3, <1>4, <2>1
  <2>2. CASE i # Len(q)
    <3>1. i < Len(q) BY <1>2, <2>2
    <3>2. End(q[i]) <= q[Len(q)].start BY <1>1, <1>2, <3>1, ItemsInOrder
    <3> QED BY <1>3, <1>4, <3>2
  <2> QED BY <2>1, <2>2
<1> QED BY <1>5, <1>6

\* The end of what was sent is a byte behind the head.
LEMMA SentEndType ==
  ASSUME NEW b \in Buffer, Contiguous(b)
  PROVE  SentEnd(b) \in Nat /\ b.first <= SentEnd(b) /\ (b.sent # <<>> => b.first < SentEnd(b))
<1>1. b.sent \in Seq(Item) /\ Len(b.sent) \in Nat /\ Indices(b) = 1..Len(b.sent) /\ b.first \in Nat
  BY BufferFacts
<1>2. CASE b.sent = <<>> BY <1>1, <1>2 DEF SentEnd
<1>3. CASE b.sent # <<>>
  <2>1. Len(b.sent) \in 1..Len(b.sent) BY <1>1, <1>3
  <2>2. /\ SentEnd(b) = End(b.sent[Len(b.sent)]) /\ End(b.sent[Len(b.sent)]) \in Nat
        /\ b.sent[Len(b.sent)].start \in Nat
        /\ b.sent[Len(b.sent)].start < End(b.sent[Len(b.sent)])
    BY <1>1, <1>3, <2>1, ItemFacts DEF SentEnd
  <2>3. b.first <= b.sent[Len(b.sent)].start BY <1>1, <2>1, ItemsInside
  <2> QED BY <1>1, <2>2, <2>3
<1> QED BY <1>2, <1>3

\* Two items that hold the same byte are the same.
LEMMA ItemsDisjoint ==
  ASSUME NEW b \in Buffer, Contiguous(b), NEW i \in Indices(b), NEW j \in Indices(b), NEW x \in Int,
         b.sent[i].start <= x, x < End(b.sent[i]), b.sent[j].start <= x, x < End(b.sent[j])
  PROVE  i = j
<1>1. b.sent \in Seq(Item) /\ Len(b.sent) \in Nat /\ Indices(b) = 1..Len(b.sent) BY BufferFacts
<1>2. /\ b.sent[i].start \in Nat /\ End(b.sent[i]) \in Nat
      /\ b.sent[j].start \in Nat /\ End(b.sent[j]) \in Nat
  BY <1>1, ItemFacts
<1>3. ~(i < j)
  <2> SUFFICES ASSUME i < j PROVE FALSE OBVIOUS
  <2>1. End(b.sent[i]) <= b.sent[j].start BY ItemsInOrder
  <2> QED BY <1>2, <2>1
<1>4. ~(j < i)
  <2> SUFFICES ASSUME j < i PROVE FALSE OBVIOUS
  <2>1. End(b.sent[j]) <= b.sent[i].start BY ItemsInOrder
  <2> QED BY <1>2, <2>1
<1> QED BY <1>1, <1>3, <1>4

-----------------------------------------------------------------------------
\* Bytes of sets of items.

\* The lengths of the items of S, 0 for the others.
Weights(b, S) == [i \in Indices(b) |-> IF i \in S THEN b.sent[i].len ELSE 0]

\* SizeOf is a sum of weights.
LEMMA WeightsFacts ==
  ASSUME NEW b \in Buffer, NEW S
  PROVE  /\ Weights(b, S) \in [1..Len(b.sent) -> Nat]
         /\ Weights(b, S) \in [1..Len(b.sent) -> Int]
         /\ SizeOf(b, S) = Total(Weights(b, S))
         /\ SizeOf(b, S) \in Nat
<1>1. b.sent \in Seq(Item) /\ Len(b.sent) \in Nat /\ Indices(b) = 1..Len(b.sent) BY BufferFacts
<1>2. \A i \in 1..Len(b.sent) : b.sent[i].len \in Nat BY <1>1, ItemFacts
<1>3. Weights(b, S) \in [1..Len(b.sent) -> Nat] BY <1>1, <1>2 DEF Weights
<1>4. Weights(b, S) \in [1..Len(b.sent) -> Int]
  <2>1. \A w \in [1..Len(b.sent) -> Nat] : w \in [1..Len(b.sent) -> Int] OBVIOUS
  <2> QED BY <1>3, <2>1
<1>5. SizeOf(b, S) = Total(Weights(b, S)) BY DEF SizeOf, Weights
<1>6. Total(Weights(b, S)) \in Int BY <1>1, <1>4, TotalType
<1>7. Total(Weights(b, S)) >= 0 BY <1>1, <1>3, TotalNonneg
<1> QED BY <1>3, <1>4, <1>5, <1>6, <1>7

\* The bytes of two disjoint sets of items.
LEMMA SizeSplit ==
  ASSUME NEW b \in Buffer, NEW S, NEW T, S \cap T = {}
  PROVE  SizeOf(b, S \cup T) = SizeOf(b, S) + SizeOf(b, T)
<1> DEFINE u == Weights(b, S)
           v == Weights(b, T)
           w == Weights(b, S \cup T)
<1>1. Len(b.sent) \in Nat /\ Indices(b) = 1..Len(b.sent) BY BufferFacts
<1>2. \A k \in 1..Len(b.sent) : w[k] = u[k] + v[k]
  <2> TAKE k \in 1..Len(b.sent)
  <2>1. b.sent[k].len \in Nat BY ItemFacts, BufferFacts
  <2>2. /\ w[k] = IF k \in S \cup T THEN b.sent[k].len ELSE 0
        /\ u[k] = IF k \in S THEN b.sent[k].len ELSE 0
        /\ v[k] = IF k \in T THEN b.sent[k].len ELSE 0
    BY <1>1 DEF Weights
  <2> HIDE DEF u, v, w
  <2> QED BY <2>1, <2>2
<1>3. /\ u \in [1..Len(b.sent) -> Int] /\ v \in [1..Len(b.sent) -> Int]
      /\ w \in [1..Len(b.sent) -> Int]
  BY WeightsFacts
<1>4. SizeOf(b, S) = Total(u) /\ SizeOf(b, T) = Total(v) /\ SizeOf(b, S \cup T) = Total(w)
  BY WeightsFacts
<1> HIDE DEF u, v, w
<1>5. PICK n \in Nat : n = Len(b.sent) BY <1>1
<1>6. /\ u \in [1..n -> Int] /\ v \in [1..n -> Int] /\ w \in [1..n -> Int]
      /\ \A k \in 1..n : w[k] = u[k] + v[k]
  BY <1>2, <1>3, <1>5
<1>7. Adds(n, u, v, w) BY <1>6, Zenon DEF Adds
<1>8. Total(w) = Total(u) + Total(v) BY <1>7, TotalAdd
<1> QED BY <1>4, <1>8, Zenon

\* Together the items are all that is sent and not discarded.
LEMMA SizeOfAll ==
  ASSUME NEW b \in Buffer, Contiguous(b)
  PROVE  SizeOf(b, Indices(b)) = SentSize(b)
<1> DEFINE n == Len(b.sent)
           w == Weights(b, Indices(b))
           e == [k \in 0..n |-> IF k = 0 THEN b.first ELSE End(b.sent[k])]
<1>1. b.sent \in Seq(Item) /\ n \in Nat /\ Indices(b) = 1..n /\ b.first \in Nat BY BufferFacts
<1>2. \A k \in 1..n : /\ b.sent[k].start \in Nat /\ b.sent[k].len \in Nat
                      /\ End(b.sent[k]) \in Nat
                      /\ End(b.sent[k]) = b.sent[k].start + b.sent[k].len
  BY <1>1, ItemFacts
<1>3. e \in [0..n -> Int]
  <2>1. \A k \in 0..n : e[k] \in Int BY <1>1, <1>2
  <2> QED BY <2>1
<1>4. ASSUME NEW k \in 1..n PROVE w[k] = e[k] - e[k - 1]
  <2>1. k \in 0..n /\ k - 1 \in 0..n BY <1>1
  <2>2. w[k] = b.sent[k].len /\ e[k] = End(b.sent[k]) BY <1>1, <2>1 DEF Weights
  <2>3. e[k - 1] = b.sent[k].start
    <3>1. CASE k = 1
      <4>1. b.sent # <<>> BY <1>1
      <4>2. b.sent[1].start = b.first BY <4>1 DEF Contiguous
      <4> QED BY <2>1, <3>1, <4>2
    <3>2. CASE k # 1
      <4>1. k - 1 \in 1..(n - 1) /\ (k - 1) + 1 = k /\ k - 1 # 0 BY <1>1, <3>2
      <4>2. b.sent[(k - 1) + 1].start = End(b.sent[k - 1]) BY <4>1 DEF Contiguous
      <4> QED BY <2>1, <4>1, <4>2
    <3> QED BY <3>1, <3>2
  <2> HIDE DEF w, e
  <2> QED BY <1>2, <2>2, <2>3
<1>5. w \in [1..n -> Int] /\ SizeOf(b, Indices(b)) = Total(w) BY WeightsFacts
<1>6. e[0] = b.first /\ e[n] = SentEnd(b)
  <2>1. CASE b.sent = <<>>
    <3>1. n = 0 BY <2>1
    <3> QED BY <2>1, <3>1 DEF SentEnd
  <2>2. CASE b.sent # <<>>
    <3>1. n # 0 BY <1>1, <2>2
    <3> QED BY <1>1, <2>2, <3>1 DEF SentEnd
  <2> QED BY <2>1, <2>2
<1> HIDE DEF w, e
<1>7. Total(w) = e[n] - e[0] BY <1>1, <1>3, <1>4, <1>5, TotalSteps
<1> QED BY <1>5, <1>6, <1>7 DEF SentSize

\* c has the items of b, with other flags.
SameCut(b, c) ==
  /\ c.first = b.first /\ c.unsent = b.unsent /\ Len(c.sent) = Len(b.sent)
  /\ \A i \in Indices(b) : c.sent[i].start = b.sent[i].start /\ c.sent[i].len = b.sent[i].len

\* Flags do not move an item, nor change its bytes.
LEMMA SameCutLaid ==
  ASSUME NEW b, NEW c \in Buffer, Laid(b), SameCut(b, c)
  PROVE  /\ Laid(c) /\ SentEnd(c) = SentEnd(b) /\ Indices(c) = Indices(b)
         /\ \A i \in Indices(b) : End(c.sent[i]) = End(b.sent[i])
         /\ \A S : SizeOf(c, S) = SizeOf(b, S)
<1>1. /\ b \in Buffer /\ b.sent \in Seq(Item) /\ Len(b.sent) \in Nat /\ Indices(b) = 1..Len(b.sent)
      /\ c.sent \in Seq(Item) /\ Indices(c) = Indices(b)
  BY BufferFacts DEF Laid, SameCut
<1>2. \A i \in Indices(b) : End(c.sent[i]) = End(b.sent[i]) BY DEF SameCut, End
<1>3. (c.sent = <<>>) <=> (b.sent = <<>>) BY <1>1 DEF SameCut
<1>4. SentEnd(c) = SentEnd(b)
  <2>1. CASE b.sent = <<>> BY <1>3, <2>1 DEF SentEnd, SameCut
  <2>2. CASE b.sent # <<>>
    <3>1. Len(b.sent) \in Indices(b) BY <1>1, <2>2
    <3> QED BY <1>2, <1>3, <2>2, <3>1 DEF SentEnd, SameCut
  <2> QED BY <2>1, <2>2
<1>5. Contiguous(c)
  <2>1. c.sent # <<>> => c.sent[1].start = c.first
    <3> SUFFICES ASSUME c.sent # <<>> PROVE c.sent[1].start = c.first OBVIOUS
    <3>1. 1 \in Indices(b) /\ b.sent # <<>> BY <1>1, <1>3
    <3> QED BY <3>1 DEF SameCut, Laid, Contiguous
  <2>2. ASSUME NEW i \in 1..(Len(c.sent) - 1) PROVE c.sent[i + 1].start = End(c.sent[i])
    <3>1. i \in Indices(b) /\ i + 1 \in Indices(b) /\ i \in 1..(Len(b.sent) - 1)
      BY <1>1 DEF SameCut
    <3>2. b.sent[i + 1].start = End(b.sent[i]) BY <3>1 DEF Laid, Contiguous
    <3> QED BY <1>2, <3>1, <3>2 DEF SameCut
  <2> QED BY <2>1, <2>2 DEF Contiguous
<1>6. ASSUME NEW S PROVE SizeOf(c, S) = SizeOf(b, S)
  <2>1. Weights(c, S) = Weights(b, S)
    <3>1. \A i \in Indices(b) : c.sent[i].len = b.sent[i].len BY DEF SameCut
    <3> QED BY <1>1, <3>1 DEF Weights
  <2> QED BY <1>1, <2>1, WeightsFacts
<1> QED BY <1>1, <1>2, <1>4, <1>5, <1>6 DEF Laid, SameCut

\* An assertion adds nothing but itself.
LEMMA FailsFacts ==
  ASSUME NEW b \in Buffer, NEW a \in Assertion, NEW when
  PROVE  LET c == Fails(b, a, when)
         IN  /\ c \in Buffer /\ c.first = b.first /\ c.sent = b.sent /\ c.unsent = b.unsent
             /\ c.sackedOut = b.sackedOut /\ c.lostOut = b.lostOut /\ c.retrans = b.retrans
             /\ c.highest = b.highest
             /\ when => c.failed = b.failed \cup {a}
             /\ ~when => c = b
<1>1. CASE when
  <2>1. Fails(b, a, when) = [b EXCEPT !.failed = @ \cup {a}] BY <1>1 DEF Fails
  <2>2. b.failed \cup {a} \in SUBSET Assertion BY DEF Buffer
  <2> QED BY <1>1, <2>1, <2>2 DEF Buffer
<1>2. CASE ~when BY <1>2 DEF Fails
<1> QED BY <1>1, <1>2

\* Bytes, with the flag as a set of items.
LEMMA BytesFacts ==
  ASSUME NEW b \in Buffer
  PROVE  /\ Bytes(b, Sacked) = SizeOf(b, {i \in Indices(b) : b.sent[i].sacked})
         /\ Bytes(b, Lost) = SizeOf(b, {i \in Indices(b) : b.sent[i].lost})
         /\ Bytes(b, Retrans) = SizeOf(b, {i \in Indices(b) : b.sent[i].retrans})
BY DEF Bytes, Sacked, Lost, Retrans

-----------------------------------------------------------------------------
\* The operations that change flags.

\* Items of S are marked as lost.
LEMMA MarkLostChanges ==
  ASSUME NEW b \in Buffer, NEW S
  PROVE  /\ Changed(b, S, MarkLost) \in Seq(Item) /\ Len(Changed(b, S, MarkLost)) = Len(b.sent)
         /\ \A i \in Indices(b) :
              Changed(b, S, MarkLost)[i] = IF i \in S THEN [b.sent[i] EXCEPT !.lost = TRUE] ELSE b.sent[i]
<1> DEFINE q == [i \in Indices(b) |-> IF i \in S THEN [b.sent[i] EXCEPT !.lost = TRUE] ELSE b.sent[i]]
<1>1. b.sent \in Seq(Item) /\ Len(b.sent) \in Nat /\ Indices(b) = 1..Len(b.sent) BY BufferFacts
<1>2. \A i \in Indices(b) : b.sent[i] \in Item BY <1>1, ItemFacts
<1>3. ASSUME NEW x \in Item PROVE [x EXCEPT !.lost = TRUE] \in Item BY DEF Item
<1>4. q \in [1..Len(b.sent) -> Item] BY <1>1, <1>2, <1>3
<1>5. Changed(b, S, MarkLost) = q BY DEF Changed, MarkLost
<1>6. \A i \in Indices(b) : q[i] = IF i \in S THEN [b.sent[i] EXCEPT !.lost = TRUE] ELSE b.sent[i]
  OBVIOUS
<1> HIDE DEF q
<1>7. q \in Seq(Item) /\ Len(q) = Len(b.sent) BY <1>1, <1>4, FunctionIsSeq
<1> QED BY <1>5, <1>6, <1>7

\* Items of S are marked as sacked.
LEMMA MarkSackedChanges ==
  ASSUME NEW b \in Buffer, NEW S
  PROVE  /\ Changed(b, S, MarkSacked) \in Seq(Item) /\ Len(Changed(b, S, MarkSacked)) = Len(b.sent)
         /\ \A i \in Indices(b) :
              Changed(b, S, MarkSacked)[i] = IF i \in S THEN [b.sent[i] EXCEPT !.sacked = TRUE, !.lost = FALSE] ELSE b.sent[i]
<1> DEFINE q == [i \in Indices(b) |-> IF i \in S THEN [b.sent[i] EXCEPT !.sacked = TRUE, !.lost = FALSE] ELSE b.sent[i]]
<1>1. b.sent \in Seq(Item) /\ Len(b.sent) \in Nat /\ Indices(b) = 1..Len(b.sent) BY BufferFacts
<1>2. \A i \in Indices(b) : b.sent[i] \in Item BY <1>1, ItemFacts
<1>3. ASSUME NEW x \in Item PROVE [x EXCEPT !.sacked = TRUE, !.lost = FALSE] \in Item BY DEF Item
<1>4. q \in [1..Len(b.sent) -> Item] BY <1>1, <1>2, <1>3
<1>5. Changed(b, S, MarkSacked) = q BY DEF Changed, MarkSacked
<1>6. \A i \in Indices(b) : q[i] = IF i \in S THEN [b.sent[i] EXCEPT !.sacked = TRUE, !.lost = FALSE] ELSE b.sent[i]
  OBVIOUS
<1> HIDE DEF q
<1>7. q \in Seq(Item) /\ Len(q) = Len(b.sent) BY <1>1, <1>4, FunctionIsSeq
<1> QED BY <1>5, <1>6, <1>7

\* Items of S are marked as not retransmitted.
LEMMA NotRetransChanges ==
  ASSUME NEW b \in Buffer, NEW S
  PROVE  /\ Changed(b, S, NotRetrans) \in Seq(Item) /\ Len(Changed(b, S, NotRetrans)) = Len(b.sent)
         /\ \A i \in Indices(b) :
              Changed(b, S, NotRetrans)[i] = IF i \in S THEN [b.sent[i] EXCEPT !.retrans = FALSE] ELSE b.sent[i]
<1> DEFINE q == [i \in Indices(b) |-> IF i \in S THEN [b.sent[i] EXCEPT !.retrans = FALSE] ELSE b.sent[i]]
<1>1. b.sent \in Seq(Item) /\ Len(b.sent) \in Nat /\ Indices(b) = 1..Len(b.sent) BY BufferFacts
<1>2. \A i \in Indices(b) : b.sent[i] \in Item BY <1>1, ItemFacts
<1>3. ASSUME NEW x \in Item PROVE [x EXCEPT !.retrans = FALSE] \in Item BY DEF Item
<1>4. q \in [1..Len(b.sent) -> Item] BY <1>1, <1>2, <1>3
<1>5. Changed(b, S, NotRetrans) = q BY DEF Changed, NotRetrans
<1>6. \A i \in Indices(b) : q[i] = IF i \in S THEN [b.sent[i] EXCEPT !.retrans = FALSE] ELSE b.sent[i]
  OBVIOUS
<1> HIDE DEF q
<1>7. q \in Seq(Item) /\ Len(q) = Len(b.sent) BY <1>1, <1>4, FunctionIsSeq
<1> QED BY <1>5, <1>6, <1>7

\* What is marked as lost keeps its place; what is sacked stays as it is.
LEMMA UpdateLostCountFits ==
  ASSUME NEW b, NEW d \in Nat, Fits(b)
  PROVE  LET c == UpdateLostCount(b, d)
         IN  /\ Fits(c) /\ SameCut(b, c) /\ c.failed = b.failed /\ c.highest = b.highest
             /\ SackedBytes(c) = SackedBytes(b)
             /\ \A i \in Indices(b) : c.sent[i].sacked = b.sent[i].sacked
<1> DEFINE M == {i \in Indices(b) : /\ ~b.sent[i].sacked /\ ~b.sent[i].lost
                                    /\ SackedFrom(b, i) >= d}
           c == [b EXCEPT !.sent = Changed(b, M, MarkLost), !.lostOut = @ + SizeOf(b, M)]
<1>1. UpdateLostCount(b, d) = c BY DEF UpdateLostCount, Then
<1>2. /\ b \in Buffer /\ b.sent \in Seq(Item) /\ Len(b.sent) \in Nat /\ b.lostOut \in Int
      /\ Indices(b) = 1..Len(b.sent)
  BY BufferFacts DEF Fits, Laid
<1>3. /\ Changed(b, M, MarkLost) \in Seq(Item) /\ Len(Changed(b, M, MarkLost)) = Len(b.sent)
      /\ \A i \in Indices(b) : Changed(b, M, MarkLost)[i] =
           IF i \in M THEN [b.sent[i] EXCEPT !.lost = TRUE] ELSE b.sent[i]
  BY <1>2, MarkLostChanges
<1>4. SizeOf(b, M) \in Nat BY <1>2, WeightsFacts
<1>5. M \in SUBSET Indices(b) OBVIOUS
<1>6. \A i \in M : ~b.sent[i].sacked /\ ~b.sent[i].lost OBVIOUS
<1>7. ASSUME NEW i \in Indices(b), NEW j \in M, i < j, ~b.sent[i].sacked, ~b.sent[i].lost
      PROVE  i \in M
  <2> DEFINE A == {k \in i..Len(b.sent) : b.sent[k].sacked /\ b.sent[k].start <= b.highest}
             B == {k \in j..Len(b.sent) : b.sent[k].sacked /\ b.sent[k].start <= b.highest}
  <2>1. B \subseteq A BY <1>2, <1>7
  <2>2. IsFiniteSet(A)
    <3>1. IsFiniteSet(i..Len(b.sent)) BY <1>2, FS_Interval
    <3> QED BY <3>1, FS_Subset
  <2>3. Cardinality(B) <= Cardinality(A) /\ Cardinality(A) \in Nat /\ Cardinality(B) \in Nat
    <3> HIDE DEF A, B
    <3>1. IsFiniteSet(B) /\ Cardinality(B) <= Cardinality(A) BY <2>1, <2>2, FS_Subset
    <3> QED BY <2>2, <3>1, FS_CardinalityType
  <2>4. SackedFrom(b, i) = Cardinality(A) /\ SackedFrom(b, j) = Cardinality(B) BY DEF SackedFrom
  <2>5. SackedFrom(b, j) >= d OBVIOUS
  <2>6. SackedFrom(b, i) >= d
    <3> HIDE DEF A, B, M
    <3> QED BY <2>3, <2>4, <2>5
  <2> QED BY <1>7, <2>6
<1> HIDE DEF M
<1>8. c \in Buffer
  <2>1. b.lostOut + SizeOf(b, M) \in Int BY <1>2, <1>4
  <2> QED BY <1>2, <1>3, <2>1 DEF Buffer
<1>9. /\ c.sent = Changed(b, M, MarkLost) /\ c.first = b.first /\ c.unsent = b.unsent
      /\ c.failed = b.failed /\ c.highest = b.highest /\ c.sackedOut = b.sackedOut
      /\ c.retrans = b.retrans /\ c.lostOut = b.lostOut + SizeOf(b, M)
  BY <1>2 DEF Buffer
<1> HIDE DEF c
<1>10. \A i \in Indices(b) :
         /\ c.sent[i].start = b.sent[i].start /\ c.sent[i].len = b.sent[i].len
         /\ c.sent[i].sacked = b.sent[i].sacked /\ c.sent[i].retrans = b.sent[i].retrans
         /\ (c.sent[i].lost <=> b.sent[i].lost \/ i \in M)
  <2> TAKE i \in Indices(b)
  <2>1. b.sent[i] \in Item /\ b.sent[i].lost \in BOOLEAN BY <1>2, ItemFacts
  <2>2. c.sent[i] = IF i \in M THEN [b.sent[i] EXCEPT !.lost = TRUE] ELSE b.sent[i] BY <1>3, <1>9
  <2>3. CASE i \in M BY <2>1, <2>2, <2>3 DEF Item
  <2>4. CASE i \notin M BY <2>2, <2>4
  <2> QED BY <2>3, <2>4
<1>11. SameCut(b, c) BY <1>3, <1>9, <1>10 DEF SameCut
<1>12. /\ Laid(c) /\ Indices(c) = Indices(b) /\ \A S : SizeOf(c, S) = SizeOf(b, S)
       /\ \A i \in Indices(b) : End(c.sent[i]) = End(b.sent[i])
  BY <1>8, <1>11, SameCutLaid DEF Fits
<1>13. SackedBytes(c) = SackedBytes(b) BY <1>10, <1>12 DEF SackedBytes
<1>14. Ordered(c)
  <2> SUFFICES ASSUME NEW i \in Indices(b), NEW j \in Indices(b), i < j, c.sent[j].lost
               PROVE  c.sent[i].lost \/ c.sent[i].sacked
    BY <1>12 DEF Ordered
  <2>1. CASE b.sent[j].lost BY <1>10, <2>1 DEF Fits, Ordered
  <2>2. CASE j \in M BY <1>7, <1>10, <2>2
  <2> QED BY <1>10, <2>1, <2>2
<1>15. Exclusive(c) BY <1>6, <1>10, <1>12 DEF Fits, Exclusive
<1>16. Consistent(b) => Consistent(c)
  <2> DEFINE L == {i \in Indices(b) : b.sent[i].lost}
  <2>1. {i \in Indices(c) : c.sent[i].sacked} = {i \in Indices(b) : b.sent[i].sacked}
    BY <1>10, <1>12
  <2>2. {i \in Indices(c) : c.sent[i].retrans} = {i \in Indices(b) : b.sent[i].retrans}
    BY <1>10, <1>12
  <2>3. {i \in Indices(c) : c.sent[i].lost} = L \cup M BY <1>5, <1>10, <1>12
  <2>4. SizeOf(b, L \cup M) = SizeOf(b, L) + SizeOf(b, M)
    <3>1. L \cap M = {} BY <1>6
    <3> QED BY <1>2, <3>1, SizeSplit
  <2>5. /\ Bytes(c, Sacked) = Bytes(b, Sacked) /\ Bytes(c, Retrans) = Bytes(b, Retrans)
        /\ Bytes(c, Lost) = Bytes(b, Lost) + SizeOf(b, M)
    BY <1>2, <1>8, <1>12, <2>1, <2>2, <2>3, <2>4, BytesFacts
  <2> QED BY <1>9, <2>5 DEF Consistent
<1> QED BY <1>1, <1>9, <1>10, <1>11, <1>12, <1>13, <1>14, <1>15, <1>16 DEF Fits, Topped

\* The bytes of a block.
BytesOf(block) == {x \in 1..Data : block.first <= x /\ x < block.second}

\* The bytes of a sacked item are sacked bytes.
LEMMA SackedByte ==
  ASSUME NEW b, Laid(b), NEW i \in Indices(b), b.sent[i].sacked, NEW x \in Int,
         b.sent[i].start <= x, x < End(b.sent[i])
  PROVE  x \in SackedBytes(b)
<1>1. /\ b \in Buffer /\ b.sent \in Seq(Item) /\ Len(b.sent) \in Nat /\ b.first \in Nat
      /\ b.first >= 1 /\ Indices(b) = 1..Len(b.sent) /\ b.unsent \in Nat
  BY BufferFacts DEF Laid
<1>2. b.first <= b.sent[i].start /\ End(b.sent[i]) <= SentEnd(b) BY ItemsInside DEF Laid
<1>3. b.sent[i].start \in Nat /\ End(b.sent[i]) \in Nat /\ SentEnd(b) \in Nat
  BY <1>1, ItemFacts, SentEndType DEF Laid
<1>4. SentEnd(b) + b.unsent = Data + 1 /\ Data \in Nat
  BY TcpRecoveryAssumption DEF Laid
<1>5. x \in 1..Data BY SMTT(30), <1>1, <1>2, <1>3, <1>4
<1> QED BY <1>5 DEF SackedBytes

\* The items that a block covers are sacked, and no others.
LEMMA SackItemsFits ==
  ASSUME NEW b, Fits(b), NEW M \in SUBSET Indices(b), M # {},
         \A i \in M : ~b.sent[i].sacked /\ b.first < b.sent[i].start
  PROVE  LET c == SackItems(b, M)
         IN  /\ Fits(c) /\ SameCut(b, c) /\ c.failed = b.failed
             /\ \A i \in Indices(b) : c.sent[i].sacked <=> b.sent[i].sacked \/ i \in M
<1> DEFINE top == b.sent[Max(M)]
           gone == {i \in M : b.sent[i].lost}
           c == [b EXCEPT !.sent = Changed(b, M, MarkSacked),
                          !.sackedOut = @ + SizeOf(b, M),
                          !.lostOut = @ - SizeOf(b, gone),
                          !.highest = IF @ = NoSeq \/ @ <= End(top) THEN top.start ELSE @]
<1>1. SackItems(b, M) = c BY DEF SackItems
<1>2. /\ b \in Buffer /\ b.sent \in Seq(Item) /\ Len(b.sent) \in Nat /\ b.lostOut \in Int
      /\ b.sackedOut \in Int /\ Indices(b) = 1..Len(b.sent) /\ b.highest \in Nat /\ b.first \in Nat
  BY BufferFacts DEF Fits, Laid
<1>3. /\ Changed(b, M, MarkSacked) \in Seq(Item) /\ Len(Changed(b, M, MarkSacked)) = Len(b.sent)
      /\ \A i \in Indices(b) : Changed(b, M, MarkSacked)[i] =
           IF i \in M THEN [b.sent[i] EXCEPT !.sacked = TRUE, !.lost = FALSE] ELSE b.sent[i]
  BY <1>2, MarkSackedChanges
<1>4. SizeOf(b, M) \in Nat /\ SizeOf(b, gone) \in Nat BY <1>2, WeightsFacts
<1>5. Max(M) \in M /\ \A i \in M : i <= Max(M) BY <1>2, MaxFacts
<1>6. top.start \in Nat /\ End(top) \in Nat /\ top.start < End(top) /\ b.first < top.start
  BY <1>2, <1>5, ItemFacts
<1>7. c \in Buffer
  <2>1. b.sackedOut + SizeOf(b, M) \in Int /\ b.lostOut - SizeOf(b, gone) \in Int BY <1>2, <1>4
  <2>2. (IF b.highest = NoSeq \/ b.highest <= End(top) THEN top.start ELSE b.highest) \in Nat
    BY <1>2, <1>6
  <2> QED BY <1>2, <1>3, <2>1, <2>2 DEF Buffer
<1>8. /\ c.sent = Changed(b, M, MarkSacked) /\ c.first = b.first /\ c.unsent = b.unsent
      /\ c.failed = b.failed /\ c.sackedOut = b.sackedOut + SizeOf(b, M)
      /\ c.retrans = b.retrans /\ c.lostOut = b.lostOut - SizeOf(b, gone)
      /\ c.highest = IF b.highest = NoSeq \/ b.highest <= End(top) THEN top.start ELSE b.highest
  BY <1>2 DEF Buffer
<1> HIDE DEF c
<1>9. \A i \in Indices(b) :
         /\ c.sent[i].start = b.sent[i].start /\ c.sent[i].len = b.sent[i].len
         /\ c.sent[i].retrans = b.sent[i].retrans
         /\ c.sent[i].sacked <=> b.sent[i].sacked \/ i \in M
         /\ c.sent[i].lost <=> b.sent[i].lost /\ i \notin M
  <2> TAKE i \in Indices(b)
  <2>1. b.sent[i] \in Item /\ b.sent[i].lost \in BOOLEAN BY <1>2, ItemFacts
  <2>2. c.sent[i] = IF i \in M THEN [b.sent[i] EXCEPT !.sacked = TRUE, !.lost = FALSE] ELSE b.sent[i]
    BY <1>3, <1>8
  <2>3. CASE i \in M BY <2>1, <2>2, <2>3 DEF Item
  <2>4. CASE i \notin M BY <2>2, <2>4
  <2> QED BY <2>3, <2>4
<1>10. SameCut(b, c) BY <1>3, <1>8, <1>9 DEF SameCut
<1>11. /\ Laid(c) /\ Indices(c) = Indices(b) /\ \A S : SizeOf(c, S) = SizeOf(b, S)
       /\ \A i \in Indices(b) : End(c.sent[i]) = End(b.sent[i])
  BY <1>7, <1>10, SameCutLaid DEF Fits
<1>12. \A x \in SackedBytes(b) : x \in SackedBytes(c)
  BY <1>9, <1>11 DEF SackedBytes
<1>13. ASSUME NEW x \in SackedBytes(c)
       PROVE  \/ x \in SackedBytes(b)
              \/ x \in Int /\ \E i \in M : b.sent[i].start <= x /\ x < End(b.sent[i])
  <2>1. PICK i \in Indices(b) : /\ c.sent[i].sacked /\ b.sent[i].start <= x /\ x < End(b.sent[i])
                                /\ x \in 1..Data
    BY <1>9, <1>11 DEF SackedBytes
  <2>2. CASE i \in M BY <2>1, <2>2
  <2>3. CASE i \notin M BY <1>9, <2>1, <2>3 DEF SackedBytes
  <2> QED BY <2>2, <2>3
<1>14. \A x \in Int : top.start <= x /\ x < End(top) => x \in SackedBytes(c)
  <2>1. /\ Max(M) \in Indices(c) /\ c.sent[Max(M)].sacked
        /\ c.sent[Max(M)].start = top.start /\ End(c.sent[Max(M)]) = End(top)
    BY <1>5, <1>9, <1>11
  <2> QED BY <1>11, <2>1, SackedByte
\* Beyond the highest of the new items there is nothing new.
<1>15. ASSUME NEW x \in SackedBytes(c), x >= End(top)
       PROVE  x \in SackedBytes(b)
  <2> SUFFICES ASSUME NEW i \in M, x \in Int, b.sent[i].start <= x, x < End(b.sent[i])
               PROVE  FALSE
    BY <1>13
  <2>1. i \in Indices(b) /\ Max(M) \in Indices(b) /\ i <= Max(M) BY <1>5
  <2>2. End(b.sent[i]) \in Nat BY <1>2, <2>1, ItemFacts
  <2>3. CASE i = Max(M) BY <1>6, <1>15, <2>2, <2>3
  <2>4. CASE i # Max(M)
    <3>1. i < Max(M) BY <1>2, <2>1, <2>4
    <3>2. End(b.sent[i]) <= top.start BY <1>2, <2>1, <3>1, ItemsInOrder DEF Fits, Laid
    <3> QED BY <1>6, <1>15, <2>2, <3>2
  <2> QED BY <2>3, <2>4
<1>16. Topped(c)
  <2>1. c.highest # NoSeq
    BY <1>2, <1>6, <1>8 DEF NoSeq
  <2>2. ASSUME NEW x \in SackedBytes(c), c.highest <= x, NEW y \in c.highest..x
        PROVE  y \in SackedBytes(c)
    <3>1. x \in Int /\ y \in Int /\ y <= x /\ c.highest <= y
      BY <1>6, <1>8, <1>2, <2>2 DEF SackedBytes
    <3>2. CASE b.highest = NoSeq \/ b.highest <= End(top)
      <4>1. c.highest = top.start BY <1>8, <3>2
      <4>2. CASE y < End(top) BY <1>14, <3>1, <4>1, <4>2
      <4>3. CASE y >= End(top)
        <5>1. x >= End(top) BY <1>6, <3>1, <4>3
        <5>2. x \in SackedBytes(b) BY <1>15, <5>1
        <5>3. b.highest # NoSeq /\ b.highest <= End(top) BY <3>2, <5>2 DEF Fits, Topped
        <5>4. b.highest <= x /\ y \in b.highest..x BY <1>2, <1>6, <3>1, <4>3, <5>1, <5>3
        <5> QED BY <1>12, <5>2, <5>4 DEF Fits, Topped
      <4> QED BY <1>6, <3>1, <4>2, <4>3
    <3>3. CASE ~(b.highest = NoSeq \/ b.highest <= End(top))
      <4>1. c.highest = b.highest /\ b.highest > End(top) BY <1>2, <1>6, <1>8, <3>3
      <4>2. x >= End(top) BY <1>2, <1>6, <3>1, <4>1
      <4>3. x \in SackedBytes(b) BY <1>15, <4>2
      <4> QED BY <1>12, <2>2, <4>1, <4>3 DEF Fits, Topped
    <3> QED BY <3>2, <3>3
  <2> QED BY <2>1, <2>2 DEF Topped
<1>17. Ordered(c) BY <1>9, <1>11 DEF Fits, Ordered
<1>18. Exclusive(c) BY <1>9, <1>11 DEF Fits, Exclusive
<1>19. c.first \notin SackedBytes(c)
  <2> SUFFICES ASSUME b.first \in SackedBytes(c) PROVE FALSE BY <1>8
  <2>1. PICK i \in M : b.sent[i].start <= b.first BY <1>13 DEF Fits
  <2>2. b.first < b.sent[i].start /\ b.sent[i].start \in Nat BY <1>2, ItemFacts
  <2> QED BY <1>2, <2>1, <2>2
<1>20. Consistent(b) => Consistent(c)
  <2> DEFINE L == {i \in Indices(b) : b.sent[i].lost}
             A == {i \in Indices(b) : b.sent[i].sacked}
             K == {i \in Indices(c) : c.sent[i].lost}
  <2>1. {i \in Indices(c) : c.sent[i].retrans} = {i \in Indices(b) : b.sent[i].retrans}
    BY <1>9, <1>11
  <2>2. {i \in Indices(c) : c.sent[i].sacked} = A \cup M BY <1>9, <1>11
  <2>3. L = K \cup gone /\ K \cap gone = {} BY <1>9, <1>11
  <2>4. SizeOf(b, A \cup M) = SizeOf(b, A) + SizeOf(b, M)
    <3>1. A \cap M = {} OBVIOUS
    <3> QED BY <1>2, <3>1, SizeSplit
  <2>5. SizeOf(b, L) = SizeOf(b, K) + SizeOf(b, gone)
    <3> HIDE DEF K, gone, L
    <3> QED BY <1>2, <2>3, SizeSplit
  <2>6. /\ SizeOf(b, A) \in Nat /\ SizeOf(b, L) \in Nat /\ SizeOf(b, K) \in Nat
    BY <1>2, WeightsFacts
  <2>7. /\ Bytes(c, Sacked) = SizeOf(b, A \cup M) /\ Bytes(c, Retrans) = Bytes(b, Retrans)
        /\ Bytes(c, Lost) = SizeOf(b, K)
        /\ Bytes(b, Sacked) = SizeOf(b, A) /\ Bytes(b, Lost) = SizeOf(b, L)
    BY <1>2, <1>7, <1>11, <2>1, <2>2, BytesFacts
  <2> HIDE DEF K, A, L, gone
  <2> QED BY <1>4, <1>8, <2>4, <2>5, <2>6, <2>7 DEF Consistent
<1> QED BY <1>1, <1>8, <1>9, <1>10, <1>11, <1>16, <1>17, <1>18, <1>19, <1>20 DEF Fits

\* A block sacks the items it covers and keeps the scoreboard's invariant.
LEMMA SackBlockFits ==
  ASSUME NEW b, Fits(b), NEW block \in Block, b.first < block.first
  PROVE  LET c == SackBlock(b, block)
         IN  /\ Fits(c) /\ SameCut(b, c) /\ c.failed = b.failed
             /\ \A i \in Indices(b) :
                  c.sent[i].sacked <=> b.sent[i].sacked \/ Covers(block, b.sent[i])
<1> DEFINE M == {i \in Indices(b) : Covers(block, b.sent[i]) /\ ~b.sent[i].sacked}
<1>1. SackBlock(b, block) = IF M = {} THEN b ELSE SackItems(b, M) BY DEF SackBlock, Then
<1>2. b \in Buffer /\ b.sent \in Seq(Item) /\ Indices(b) = 1..Len(b.sent) /\ b.first \in Nat
  BY BufferFacts DEF Fits, Laid
<1>3. \A i \in M : ~b.sent[i].sacked /\ b.first < b.sent[i].start
  <2> TAKE i \in M
  <2>1. b.sent[i].start \in Nat BY <1>2, ItemFacts
  <2>2. block.first <= b.sent[i].start /\ block.first \in Nat BY DEF Covers, Block
  <2> QED BY <1>2, <2>1, <2>2
<1>4. CASE M = {}
  <2>1. SackBlock(b, block) = b BY <1>1, <1>4
  <2>2. \A i \in Indices(b) : Covers(block, b.sent[i]) => b.sent[i].sacked BY <1>4
  <2> QED BY <2>1, <2>2 DEF SameCut
<1>5. CASE M # {}
  <2>1. SackBlock(b, block) = SackItems(b, M) BY <1>1, <1>5
  <2>2. M \in SUBSET Indices(b) OBVIOUS
  <2>3. LET c == SackItems(b, M)
        IN  /\ Fits(c) /\ SameCut(b, c) /\ c.failed = b.failed
            /\ \A i \in Indices(b) : c.sent[i].sacked <=> b.sent[i].sacked \/ i \in M
    <3> HIDE DEF M
    <3> QED BY <1>3, <1>5, <2>2, SackItemsFits
  <2> QED BY <2>1, <2>3
<1> QED BY <1>4, <1>5

-----------------------------------------------------------------------------
\* The SACK list of an acknowledgement.

\* h[k] is b after the first k blocks.
SacksTo(b, blocks, n, h) ==
  /\ h[0] = b
  /\ \A k \in 1..n : h[k] = SackBlock(h[k - 1], blocks[k])
  /\ \A k \in 0..n :
       /\ Fits(h[k]) /\ SameCut(b, h[k]) /\ h[k].failed = b.failed
       /\ \A i \in Indices(b) :
            h[k].sent[i].sacked <=> b.sent[i].sacked \/ \E j \in 1..k : Covers(blocks[j], b.sent[i])

\* The buffers after the first blocks of a list exist.
LEMMA SacksExist ==
  ASSUME NEW b, Fits(b), NEW n \in Nat, NEW blocks \in [1..n -> Block],
         \A k \in 1..n : b.first < blocks[k].first
  PROVE  \E h \in [0..n -> Buffer] : SacksTo(b, blocks, n, h)
<1> DEFINE S == {m \in Nat : m <= n => \E h \in [0..m -> Buffer] : SacksTo(b, blocks, m, h)}
<1>0. b \in Buffer BY DEF Fits, Laid
<1>1. 0 \in S
  <2> DEFINE h == [k \in 0..0 |-> b]
  <2>1. h \in [0..0 -> Buffer] /\ h[0] = b BY <1>0
  <2>2. \A k \in 0..0 : k = 0 OBVIOUS
  <2>3. SameCut(b, b) BY DEF SameCut
  <2> HIDE DEF h
  <2>4. \A k \in 0..0 :
          /\ Fits(h[k]) /\ SameCut(b, h[k]) /\ h[k].failed = b.failed
          /\ \A i \in Indices(b) :
               h[k].sent[i].sacked <=> b.sent[i].sacked \/ \E j \in 1..k : Covers(blocks[j], b.sent[i])
    <3> TAKE k \in 0..0
    <3>1. k = 0 /\ h[k] = b /\ 1..k = {} BY <2>1, <2>2
    <3>2. b.failed = b.failed OBVIOUS
    <3> QED BY <2>3, <3>1, Zenon
  <2>5. SacksTo(b, blocks, 0, h) BY <2>1, <2>4 DEF SacksTo
  <2> QED BY <2>1, <2>5
<1>2. ASSUME NEW m \in Nat, m \in S PROVE m + 1 \in S
  <2>1. SUFFICES ASSUME m + 1 <= n
                 PROVE \E h \in [0..(m + 1) -> Buffer] : SacksTo(b, blocks, m + 1, h)
    OBVIOUS
  <2>2. PICK g \in [0..m -> Buffer] : SacksTo(b, blocks, m, g) BY <1>2, <2>1
  <2> HIDE DEF S
  <2> DEFINE c == SackBlock(g[m], blocks[m + 1])
             h == [k \in 0..(m + 1) |-> IF k <= m THEN g[k] ELSE c]
  <2>3. /\ Fits(g[m]) /\ SameCut(b, g[m]) /\ g[m].failed = b.failed
        /\ \A i \in Indices(b) :
             g[m].sent[i].sacked <=> b.sent[i].sacked \/ \E j \in 1..m : Covers(blocks[j], b.sent[i])
    <3>1. m \in 0..m OBVIOUS
    <3> QED BY <2>2, <3>1 DEF SacksTo
  <2>4. g[m].first = b.first /\ Indices(g[m]) = Indices(b) BY <2>3 DEF SameCut, Indices
  <2>5. blocks[m + 1] \in Block /\ g[m].first < blocks[m + 1].first
    <3>1. m + 1 \in 1..n BY <2>1
    <3> QED BY <2>4, <3>1
  <2>6. /\ Fits(c) /\ SameCut(g[m], c) /\ c.failed = g[m].failed
        /\ \A i \in Indices(g[m]) :
             c.sent[i].sacked <=> g[m].sent[i].sacked \/ Covers(blocks[m + 1], g[m].sent[i])
    BY <2>3, <2>5, SackBlockFits
  <2> HIDE DEF c
  <2>7. SameCut(b, c) BY <2>3, <2>4, <2>6 DEF SameCut
  <2>8. ASSUME NEW i \in Indices(b)
        PROVE  c.sent[i].sacked <=> b.sent[i].sacked \/ \E j \in 1..(m + 1) : Covers(blocks[j], b.sent[i])
    <3>1. Covers(blocks[m + 1], g[m].sent[i]) <=> Covers(blocks[m + 1], b.sent[i])
      <4>1. g[m].sent[i].start = b.sent[i].start /\ g[m].sent[i].len = b.sent[i].len
        BY <2>3 DEF SameCut
      <4> QED BY <4>1 DEF Covers, End
    <3>2. \A j : j \in 1..(m + 1) <=> j \in 1..m \/ j = m + 1 OBVIOUS
    <3> QED BY <2>3, <2>4, <2>6, <3>1, <3>2
  <2>9. h \in [0..(m + 1) -> Buffer]
    <3>1. c \in Buffer BY <2>6 DEF Fits, Laid
    <3> QED BY <3>1
  <2>10. (\A k \in 0..m : h[k] = g[k]) /\ h[m + 1] = c OBVIOUS
  <2> HIDE DEF h
  <2>11. SacksTo(b, blocks, m + 1, h)
    <3>1. h[0] = b
      <4>1. 0 \in 0..m OBVIOUS
      <4> QED BY <2>2, <2>10, <4>1 DEF SacksTo
    <3>2. ASSUME NEW k \in 1..(m + 1) PROVE h[k] = SackBlock(h[k - 1], blocks[k])
      <4>1. CASE k = m + 1
        <5>1. k - 1 = m /\ m \in 0..m BY <4>1
        <5> QED BY <2>10, <4>1, <5>1 DEF c
      <4>2. CASE k # m + 1
        <5>1. k \in 1..m /\ k \in 0..m /\ k - 1 \in 0..m BY <4>2
        <5> QED BY <2>2, <2>10, <5>1 DEF SacksTo
      <4> QED BY <4>1, <4>2
    <3>3. ASSUME NEW k \in 0..(m + 1)
          PROVE  /\ Fits(h[k]) /\ SameCut(b, h[k]) /\ h[k].failed = b.failed
                 /\ \A i \in Indices(b) :
                      h[k].sent[i].sacked <=> b.sent[i].sacked \/ \E j \in 1..k : Covers(blocks[j], b.sent[i])
      <4>1. CASE k = m + 1
        <5>1. h[k] = c BY <2>10, <4>1
        <5>2. c.failed = b.failed BY <2>3, <2>6
        <5> QED BY <2>6, <2>7, <2>8, <4>1, <5>1, <5>2, Zenon
      <4>2. CASE k # m + 1
        <5>1. k \in 0..m BY <4>2
        <5>2. h[k] = g[k] BY <2>10, <5>1
        <5> QED BY <2>2, <5>1, <5>2, Zenon DEF SacksTo
      <4> QED BY <4>1, <4>2
    <3> QED BY <3>1, <3>2, <3>3 DEF SacksTo
  <2> QED BY <2>9, <2>11
<1> HIDE DEF S
<1>3. Nat \subseteq S BY <1>1, <1>2, Induction
<1> QED BY <1>3 DEF S

\* A list of blocks sacks the items that one of them covers.
LEMMA SackBlocksFits ==
  ASSUME NEW b, Fits(b), NEW blocks \in Seq(Block),
         \A k \in DOMAIN blocks : b.first < blocks[k].first
  PROVE  LET c == SackBlocks(b, blocks)
         IN  /\ Fits(c) /\ SameCut(b, c) /\ c.failed = b.failed
             /\ \A i \in Indices(b) :
                  c.sent[i].sacked <=>
                    b.sent[i].sacked \/ \E k \in DOMAIN blocks : Covers(blocks[k], b.sent[i])
<1>1. PICK n \in Nat : n = Len(blocks) OBVIOUS
<1>2. blocks \in [1..n -> Block] /\ DOMAIN blocks = 1..n BY <1>1
<1> DEFINE Rec(f) == f = [k \in 0..n |-> IF k = 0 THEN b ELSE SackBlock(f[k - 1], blocks[k])]
           f == CHOOSE f : Rec(f)
<1>3. PICK h \in [0..n -> Buffer] : SacksTo(b, blocks, n, h) BY <1>2, SacksExist
<1>4. Rec(h) BY <1>3 DEF SacksTo
<1>5. Rec(f) BY <1>4
<1>6. SackBlocks(b, blocks) = f[n] BY <1>1 DEF SackBlocks
<1> HIDE DEF f
<1>7. f[n] = h[n]
  <2> DEFINE S == {m \in Nat : m <= n => f[m] = h[m]}
  <2>1. 0 \in S BY <1>3, <1>5 DEF SacksTo
  <2>2. ASSUME NEW m \in Nat, m \in S PROVE m + 1 \in S
    <3>1. SUFFICES ASSUME m + 1 <= n PROVE f[m + 1] = h[m + 1] OBVIOUS
    <3>2. f[m] = h[m] /\ m + 1 \in 1..n /\ m + 1 \in 0..n /\ (m + 1) - 1 = m /\ m + 1 # 0
      BY <2>2, <3>1
    <3>3. h[m + 1] = SackBlock(h[m], blocks[m + 1]) BY <1>3, <3>2 DEF SacksTo
    <3>4. f[m + 1] = SackBlock(f[m], blocks[m + 1]) BY <1>5, <3>2
    <3> QED BY <3>2, <3>3, <3>4
  <2> HIDE DEF S
  <2>3. Nat \subseteq S BY <2>1, <2>2, Induction
  <2> QED BY <2>3 DEF S
<1>8. n \in 0..n OBVIOUS
<1>9. /\ Fits(h[n]) /\ SameCut(b, h[n]) /\ h[n].failed = b.failed
      /\ \A i \in Indices(b) :
           h[n].sent[i].sacked <=> b.sent[i].sacked \/ \E j \in 1..n : Covers(blocks[j], b.sent[i])
  BY <1>3, <1>8 DEF SacksTo
<1> QED BY <1>2, <1>6, <1>7, <1>9, Zenon

\* The counters never exceed what is in flight.
LEMMA InSyncHolds ==
  ASSUME NEW b, Laid(b), Exclusive(b), b.sackedOut = Bytes(b, Sacked), b.lostOut = Bytes(b, Lost)
  PROVE  InSync(b) = b /\ b.sackedOut + b.lostOut <= SentSize(b)
<1> DEFINE A == {i \in Indices(b) : b.sent[i].sacked}
           L == {i \in Indices(b) : b.sent[i].lost}
           O == Indices(b) \ (A \cup L)
<1>1. b \in Buffer /\ Contiguous(b) /\ b.first \in Nat BY BufferFacts DEF Laid
<1>2. A \cap L = {} /\ (A \cup L) \cap O = {} /\ (A \cup L) \cup O = Indices(b) BY DEF Exclusive
<1>3. b.sackedOut = SizeOf(b, A) /\ b.lostOut = SizeOf(b, L) BY <1>1, BytesFacts
<1> HIDE DEF A, L, O
<1>4. SizeOf(b, A \cup L) = SizeOf(b, A) + SizeOf(b, L) BY <1>1, <1>2, SizeSplit
<1>5. SizeOf(b, Indices(b)) = SizeOf(b, A \cup L) + SizeOf(b, O) BY <1>1, <1>2, SizeSplit
<1>6. /\ SizeOf(b, A) \in Nat /\ SizeOf(b, L) \in Nat /\ SizeOf(b, O) \in Nat
      /\ SizeOf(b, Indices(b)) \in Nat /\ SizeOf(b, A \cup L) \in Nat
  BY <1>1, WeightsFacts
<1>7. SizeOf(b, Indices(b)) = SentSize(b) BY <1>1, SizeOfAll
<1>8. b.sackedOut + b.lostOut <= SentSize(b) BY <1>3, <1>4, <1>5, <1>6, <1>7
<1>9. ~(b.sackedOut + b.lostOut > SentSize(b)) BY <1>3, <1>6, <1>7, <1>8
<1> QED BY <1>8, <1>9 DEF InSync, Fails

\* No assertion fails while the scoreboard is brought up to date.
LEMMA UpdateFits ==
  ASSUME NEW b, Fits(b), b.failed = {}, NEW blocks \in Seq(Block), NEW d \in Nat,
         \A k \in DOMAIN blocks : b.first < blocks[k].first
  PROVE  LET c == Update(b, blocks, d)
         IN  /\ Fits(c) /\ SameCut(b, c) /\ c.failed = {}
             /\ \A x \in SackedBytes(c) :
                  x \in SackedBytes(b) \/ \E k \in DOMAIN blocks : x \in BytesOf(blocks[k])
<1>0. b \in Buffer /\ b.sent \in Seq(Item) /\ Len(b.sent) \in Nat /\ Indices(b) = 1..Len(b.sent)
  BY BufferFacts DEF Fits, Laid
<1>1. CASE ~Modifies(b, blocks)
  <2>1. Update(b, blocks, d) = b BY <1>1 DEF Update
  <2>2. SameCut(b, b) BY DEF SameCut
  <2> QED BY <2>1, <2>2
<1>2. CASE Modifies(b, blocks)
  <2> DEFINE c == SackBlocks(b, blocks)
             e == UpdateLostCount(c, d)
             g == Fails(e, "no highest", c.highest = NoSeq)
             h == Fails(g, "sacked head", Head(c.sent).sacked)
  <2>1. Update(b, blocks, d) = InSync(h) BY <1>2 DEF Update, Then
  <2>2. /\ Fits(c) /\ SameCut(b, c) /\ c.failed = b.failed
        /\ \A i \in Indices(b) :
             c.sent[i].sacked <=>
               b.sent[i].sacked \/ \E k \in DOMAIN blocks : Covers(blocks[k], b.sent[i])
    BY SackBlocksFits
  <2> HIDE DEF c
  <2>3. /\ Fits(e) /\ SameCut(c, e) /\ e.failed = c.failed /\ SackedBytes(e) = SackedBytes(c)
    BY <2>2, UpdateLostCountFits
  <2> HIDE DEF e
  <2>4. Indices(c) = Indices(b) BY <2>2 DEF SameCut, Indices
  <2>5. PICK k \in DOMAIN blocks, i \in Indices(b) : Covers(blocks[k], b.sent[i])
    BY <1>2 DEF Modifies
  <2>6. c.sent[i].sacked /\ i \in Indices(c) BY <2>2, <2>4, <2>5
  <2>7. c \in Buffer /\ c.sent \in Seq(Item) /\ Len(c.sent) \in Nat /\ Indices(c) = 1..Len(c.sent) /\ Laid(c)
    BY <2>2, BufferFacts DEF Fits, Laid
  <2>8. c.highest # NoSeq
    <3>1. c.sent[i].start \in Nat /\ c.sent[i].start < End(c.sent[i])
      BY <2>6, <2>7, ItemFacts
    <3>2. c.sent[i].start \in SackedBytes(c) BY SMTT(30), <2>6, <2>7, <3>1, SackedByte
    <3> QED BY <2>2, <3>2 DEF Fits, Topped
  <2>9. ~Head(c.sent).sacked
    <3>1. 1 \in Indices(c) /\ c.sent # <<>> BY <2>6, <2>7
    <3>2. Head(c.sent) = c.sent[1] BY <2>7, <3>1
    <3>3. c.sent[1].start = c.first BY <2>7, <3>1 DEF Laid, Contiguous
    <3>4. c.sent[1].start \in Nat /\ c.sent[1].start < End(c.sent[1]) BY <2>7, <3>1, ItemFacts
    <3>5. c.sent[1].sacked => c.first \in SackedBytes(c) BY <2>7, <3>1, <3>3, <3>4, SackedByte
    <3> QED BY <2>2, <3>2, <3>5 DEF Fits
  <2>10. h = e BY <2>8, <2>9 DEF Fails
  <2> HIDE DEF g, h
  <2>11. Consistent(e) BY <2>2, <2>3 DEF Fits
  <2>12. InSync(e) = e BY <2>3, <2>11, InSyncHolds DEF Fits, Consistent
  <2>13. SameCut(b, e) BY <2>2, <2>3, <2>4 DEF SameCut
  <2>14. ASSUME NEW x \in SackedBytes(c)
         PROVE  x \in SackedBytes(b) \/ \E j \in DOMAIN blocks : x \in BytesOf(blocks[j])
    <3>1. PICK j \in Indices(b) : c.sent[j].sacked /\ c.sent[j].start <= x /\ x < End(c.sent[j]) /\ x \in 1..Data
      BY <2>4 DEF SackedBytes
    <3>2. c.sent[j].start = b.sent[j].start /\ End(c.sent[j]) = End(b.sent[j])
      BY <2>2 DEF SameCut, End
    <3>3. CASE b.sent[j].sacked BY <3>1, <3>2, <3>3 DEF SackedBytes
    <3>4. CASE ~b.sent[j].sacked
      <4>1. PICK m \in DOMAIN blocks : Covers(blocks[m], b.sent[j]) BY <2>2, <3>1, <3>4
      <4>2. blocks[m].first \in Int /\ blocks[m].second \in Int
        <5>1. blocks[m] \in Block OBVIOUS
        <5> QED BY <5>1 DEF Block
      <4>3. b.sent[j].start \in Nat /\ End(b.sent[j]) \in Nat BY <1>0, ItemFacts
      <4>4. blocks[m].first <= x /\ x < blocks[m].second BY <3>1, <3>2, <4>1, <4>2, <4>3 DEF Covers
      <4> QED BY <3>1, <4>4 DEF BytesOf
    <3> QED BY <3>3, <3>4
  <2> QED BY <2>1, <2>2, <2>3, <2>10, <2>12, <2>13, <2>14
<1> QED BY <1>1, <1>2

-----------------------------------------------------------------------------
\* Loss.

\* The head alone changes its flags.
HeadChanged(b, c) ==
  /\ SameCut(b, c) /\ c.failed = b.failed /\ c.highest = b.highest
  /\ \A i \in Indices(b) : c.sent[i].sacked = b.sent[i].sacked
  /\ SackedBytes(c) = SackedBytes(b)

\* The first item is never sacked.
LEMMA HeadNotSacked ==
  ASSUME NEW b, Fits(b), b.sent # <<>>
  PROVE  /\ 1 \in Indices(b) /\ Head(b.sent) = b.sent[1] /\ b.sent[1].start = b.first
         /\ b.sent[1] \in Item /\ b.sent[1].len \in Nat \ {0} /\ ~b.sent[1].sacked
         /\ b.sent[1].lost \in BOOLEAN /\ b.sent[1].retrans \in BOOLEAN
<1>1. b \in Buffer /\ b.sent \in Seq(Item) /\ Len(b.sent) \in Nat /\ Indices(b) = 1..Len(b.sent)
  BY BufferFacts DEF Fits, Laid
<1>2. 1 \in Indices(b) /\ Head(b.sent) = b.sent[1] BY <1>1
<1>3. b.sent[1].start = b.first BY DEF Fits, Laid, Contiguous
<1>4. /\ b.sent[1] \in Item /\ b.sent[1].len \in Nat \ {0} /\ b.sent[1].start \in Nat
      /\ b.sent[1].start < End(b.sent[1])
      /\ b.sent[1].lost \in BOOLEAN /\ b.sent[1].retrans \in BOOLEAN
  BY <1>1, <1>2, ItemFacts
<1>5. b.sent[1].sacked => b.first \in SackedBytes(b)
  <2> SUFFICES ASSUME b.sent[1].sacked PROVE b.first \in SackedBytes(b) OBVIOUS
  <2>1. Laid(b) BY DEF Fits
  <2>3. \A x \in Nat : x \in Int /\ x <= x OBVIOUS
  <2>2. b.sent[1].start \in SackedBytes(b) BY <1>2, <1>4, <2>1, <2>3, SackedByte
  <2> QED BY <1>3, <2>2
<1> QED BY <1>2, <1>3, <1>4, <1>5 DEF Fits

\* The bytes of a set of items with the item h put in or taken out.
LEMMA SizeWithItem ==
  ASSUME NEW b \in Buffer, NEW h \in Indices(b), NEW S, h \notin S
  PROVE  /\ SizeOf(b, S \cup {h}) = SizeOf(b, S) + b.sent[h].len
         /\ SizeOf(b, S) \in Nat
<1>1. PICK n \in Nat : n = Len(b.sent) BY BufferFacts
<1>0. b.sent \in Seq(Item) /\ Indices(b) = 1..n BY <1>1, BufferFacts
<1>2. PICK p \in Nat : p = b.sent[h].len BY <1>0, <1>1, ItemFacts
<1>3. SizeOf(b, S \cup {h}) = SizeOf(b, S) + SizeOf(b, {h}) BY SizeSplit
<1>4. SizeOf(b, {h}) = p
  <2> DEFINE u == Weights(b, {h})
             e == [k \in 0..n |-> IF k < h THEN 0 ELSE p]
  <2>1. \A k \in 1..n : u[k] = IF k = h THEN p ELSE 0 BY <1>0, <1>2 DEF Weights
  <2>7. h \in 1..n BY <1>0
  <2>2. e \in [0..n -> Int]
    <3>1. \A k \in 0..n : (IF k < h THEN 0 ELSE p) \in Int BY <1>2
    <3> QED BY <3>1
  <2>3. ASSUME NEW k \in 1..n PROVE u[k] = e[k] - e[k - 1]
    <3>1. k \in 0..n /\ k - 1 \in 0..n BY <1>1
    <3>2. CASE k = h
      <4>0. k - 1 < h /\ ~(k < h) BY <2>7, <3>2
      <4>1. e[k] = p /\ e[k - 1] = 0 /\ u[k] = p BY <2>1, <3>1, <3>2, <4>0
      <4> HIDE DEF e, u
      <4> QED BY <1>2, <4>1
    <3>3. CASE k < h
      <4>0. k - 1 < h /\ k < h /\ k # h BY <2>7, <3>3
      <4>1. e[k] = 0 /\ e[k - 1] = 0 /\ u[k] = 0 BY <2>1, <3>1, <4>0
      <4> HIDE DEF e, u
      <4> QED BY <4>1
    <3>4. CASE k > h
      <4>0. ~(k - 1 < h) /\ ~(k < h) /\ k # h BY <2>7, <3>4
      <4>1. e[k] = p /\ e[k - 1] = p /\ u[k] = 0 BY <2>1, <3>1, <4>0
      <4> HIDE DEF e, u
      <4> QED BY <1>2, <4>1
    <3> QED BY <2>7, <3>2, <3>3, <3>4
  <2>4. u \in [1..n -> Int] /\ SizeOf(b, {h}) = Total(u) BY <1>1, WeightsFacts
  <2>5. e[0] = 0 /\ e[n] = p
    <3>1. 0 < h /\ ~(n < h) /\ 0 \in 0..n /\ n \in 0..n BY <1>1, <2>7
    <3> QED BY <3>1
  <2> HIDE DEF u, e
  <2>6. Total(u) = e[n] - e[0] BY <1>1, <2>2, <2>3, <2>4, TotalSteps
  <2> QED BY <1>2, <2>4, <2>5, <2>6
<1>5. SizeOf(b, S) \in Nat BY WeightsFacts
<1> QED BY <1>2, <1>3, <1>4, <1>5

\* The head is marked as lost (TcpTxBuffer::MarkHeadAsLost).
LEMMA MarkHeadAsLostFits ==
  ASSUME NEW b, Fits(b)
  PROVE  Fits(MarkHeadAsLost(b)) /\ HeadChanged(b, MarkHeadAsLost(b))
<1> DEFINE c == [b EXCEPT
             !.sent = [@ EXCEPT ![1] = [b.sent[1] EXCEPT !.sacked = FALSE, !.retrans = FALSE, !.lost = TRUE]],
             !.retrans = @ - IF b.sent[1].retrans THEN b.sent[1].len ELSE 0,
             !.lostOut = @ + IF b.sent[1].lost THEN 0 ELSE b.sent[1].len]
<1>1. CASE b.sent = <<>>
  <2>1. MarkHeadAsLost(b) = b BY <1>1 DEF MarkHeadAsLost
  <2>2. HeadChanged(b, b) BY DEF HeadChanged, SameCut
  <2> QED BY <2>1, <2>2
<1>2. CASE b.sent # <<>>
  <2>1. /\ b \in Buffer /\ b.sent \in Seq(Item) /\ Len(b.sent) \in Nat /\ b.lostOut \in Int
        /\ b.retrans \in Int /\ b.sackedOut \in Int /\ Indices(b) = 1..Len(b.sent)
    BY BufferFacts DEF Fits, Laid
  <2>2. /\ 1 \in Indices(b) /\ Head(b.sent) = b.sent[1] /\ b.sent[1].start = b.first
        /\ b.sent[1] \in Item /\ b.sent[1].len \in Nat \ {0} /\ ~b.sent[1].sacked
        /\ b.sent[1].lost \in BOOLEAN /\ b.sent[1].retrans \in BOOLEAN
    BY <1>2, HeadNotSacked
  <2> DEFINE x == [b.sent[1] EXCEPT !.sacked = FALSE, !.retrans = FALSE, !.lost = TRUE]
             r == IF b.sent[1].retrans THEN b.sent[1].len ELSE 0
             l == IF b.sent[1].lost THEN 0 ELSE b.sent[1].len
             q == [b.sent EXCEPT ![1] = x]
  <2>3. r \in Nat /\ l \in Nat BY <2>2
  <2>4. x \in Item /\ x.start = b.sent[1].start /\ x.len = b.sent[1].len /\ ~x.sacked /\ x.lost /\ ~x.retrans
    BY <2>2 DEF Item
  <2>5. MarkHeadAsLost(b) = [b EXCEPT !.sent = q, !.sackedOut = @ - 0, !.retrans = @ - r, !.lostOut = @ + l]
    BY <1>2, <2>2 DEF MarkHeadAsLost
  <2> HIDE DEF x, r, l
  <2>6. q \in Seq(Item) /\ Len(q) = Len(b.sent) /\ q[1] = x /\ \A i \in Indices(b) : i # 1 => q[i] = b.sent[i]
    BY <2>1, <2>2, <2>4
  <2> HIDE DEF q
  <2>7. PICK d : d = MarkHeadAsLost(b) OBVIOUS
  <2>8. /\ d.sent = q /\ d.first = b.first /\ d.unsent = b.unsent /\ d.failed = b.failed
        /\ d.highest = b.highest /\ d.sackedOut = b.sackedOut
        /\ d.retrans = b.retrans - r /\ d.lostOut = b.lostOut + l
    <3>1. d = [b EXCEPT !.sent = q, !.sackedOut = @ - 0, !.retrans = @ - r, !.lostOut = @ + l]
      BY <2>5, <2>7
    <3>2. b.sackedOut - 0 = b.sackedOut BY <2>1
    <3> QED BY <2>1, <3>1, <3>2 DEF Buffer
  <2>9. d \in Buffer
    <3>1. b.retrans - r \in Int /\ b.lostOut + l \in Int /\ b.sackedOut - 0 \in Int BY <2>1, <2>3
    <3>2. d = [b EXCEPT !.sent = q, !.sackedOut = @ - 0, !.retrans = @ - r, !.lostOut = @ + l]
      BY <2>5, <2>7
    <3> QED BY <2>1, <2>6, <3>1, <3>2 DEF Buffer
  <2>10. \A i \in Indices(b) :
           /\ d.sent[i].start = b.sent[i].start /\ d.sent[i].len = b.sent[i].len
           /\ d.sent[i].sacked <=> b.sent[i].sacked
           /\ d.sent[i].retrans <=> b.sent[i].retrans /\ i # 1
           /\ d.sent[i].lost <=> b.sent[i].lost \/ i = 1
    BY <2>2, <2>4, <2>6, <2>8
  <2>11. SameCut(b, d) BY <2>6, <2>8, <2>10 DEF SameCut
  <2>12. /\ Laid(d) /\ Indices(d) = Indices(b) /\ \A S : SizeOf(d, S) = SizeOf(b, S)
         /\ \A i \in Indices(b) : End(d.sent[i]) = End(b.sent[i])
    BY <2>9, <2>11, SameCutLaid DEF Fits
  <2>13. SackedBytes(d) = SackedBytes(b) BY <2>10, <2>12 DEF SackedBytes
  <2>14. Ordered(d)
    <3> SUFFICES ASSUME NEW i \in Indices(b), NEW j \in Indices(b), i < j, d.sent[j].lost
                 PROVE  d.sent[i].lost \/ d.sent[i].sacked
      BY <2>12 DEF Ordered
    <3>1. j # 1 BY <2>1
    <3> QED BY <2>10, <3>1 DEF Fits, Ordered
  <2>15. Exclusive(d) BY <2>2, <2>10, <2>12 DEF Fits, Exclusive
  <2>16. \A i \in Indices(b) : d.sent[i].sacked = b.sent[i].sacked
    <3> TAKE i \in Indices(b)
    <3>1. /\ i \in 1..Len(b.sent) /\ i \in 1..Len(d.sent) /\ d.sent \in Seq(Item)
      BY <2>1, <2>6, <2>8
    <3>2. b.sent[i].sacked \in BOOLEAN /\ d.sent[i].sacked \in BOOLEAN BY <2>1, <3>1, ItemFacts
    <3> QED BY <2>10, <3>2
  <2>17. Consistent(b) => Consistent(d)
    <3> DEFINE L == {i \in Indices(b) : b.sent[i].lost}
               R == {i \in Indices(b) : b.sent[i].retrans}
    <3>1. {i \in Indices(d) : d.sent[i].sacked} = {i \in Indices(b) : b.sent[i].sacked}
      BY <2>10, <2>12
    <3>2. {i \in Indices(d) : d.sent[i].lost} = L \cup {1} BY <2>2, <2>10, <2>12
    <3>3. {i \in Indices(d) : d.sent[i].retrans} = R \ {1} BY <2>10, <2>12
    <3>4. SizeOf(b, L \cup {1}) = SizeOf(b, L) + l
      <4>0. SizeOf(b, L) \in Nat BY <2>1, WeightsFacts
      <4>1. CASE b.sent[1].lost
        <5>1. L \cup {1} = L /\ l = 0 BY <2>2, <4>1 DEF l
        <5> HIDE DEF L
        <5>2. SizeOf(b, L) + 0 = SizeOf(b, L) BY <4>0
        <5> QED BY <5>1, <5>2, Zenon
      <4>2. CASE ~b.sent[1].lost
        <5>1. 1 \notin L /\ l = b.sent[1].len BY <4>2 DEF l
        <5> HIDE DEF L
        <5> QED BY <2>1, <2>2, <5>1, SizeWithItem
      <4> QED BY <4>1, <4>2
    <3>5. SizeOf(b, R \ {1}) = SizeOf(b, R) - r
      <4>0. SizeOf(b, R) \in Nat /\ SizeOf(b, R \ {1}) \in Nat BY <2>1, WeightsFacts
      <4>1. CASE ~b.sent[1].retrans
        <5>1. R \ {1} = R /\ r = 0 BY <4>1 DEF r
        <5> HIDE DEF R
        <5> QED BY <4>0, <5>1
      <4>2. CASE b.sent[1].retrans
        <5>1. 1 \notin R \ {1} /\ r = b.sent[1].len /\ (R \ {1}) \cup {1} = R BY <2>2, <4>2 DEF r
        <5>2. SizeOf(b, (R \ {1}) \cup {1}) = SizeOf(b, R \ {1}) + b.sent[1].len
          <6> HIDE DEF R
          <6> QED BY <2>1, <2>2, <5>1, SizeWithItem
        <5> HIDE DEF R
        <5> QED BY <2>2, <4>0, <5>1, <5>2
      <4> QED BY <4>1, <4>2
    <3>6. /\ Bytes(d, Sacked) = Bytes(b, Sacked) /\ Bytes(d, Lost) = Bytes(b, Lost) + l
          /\ Bytes(d, Retrans) = Bytes(b, Retrans) - r
      BY ZenonT(60), <2>1, <2>9, <2>12, <3>1, <3>2, <3>3, <3>4, <3>5, BytesFacts
    <3> QED BY <2>8, <3>6 DEF Consistent
  <2>18. Fits(d) BY <2>8, <2>12, <2>13, <2>14, <2>15, <2>17 DEF Fits, Topped
  <2>19. HeadChanged(b, d) BY <2>8, <2>11, <2>13, <2>16 DEF HeadChanged
  <2> QED BY <2>7, <2>18, <2>19
<1> QED BY <1>1, <1>2

\* The head is marked as not retransmitted.
LEMMA DeleteRetransmittedFits ==
  ASSUME NEW b, Fits(b)
  PROVE  /\ Fits(DeleteRetransmittedFlagFromHead(b))
         /\ HeadChanged(b, DeleteRetransmittedFlagFromHead(b))
<1>1. CASE ~(b.sent # <<>> /\ Head(b.sent).retrans)
  <2>1. DeleteRetransmittedFlagFromHead(b) = b BY <1>1 DEF DeleteRetransmittedFlagFromHead
  <2>2. HeadChanged(b, b) BY DEF HeadChanged, SameCut
  <2> QED BY <2>1, <2>2
<1>2. CASE b.sent # <<>> /\ Head(b.sent).retrans
  <2>1. /\ b \in Buffer /\ b.sent \in Seq(Item) /\ Len(b.sent) \in Nat
        /\ b.retrans \in Int /\ Indices(b) = 1..Len(b.sent)
    BY BufferFacts DEF Fits, Laid
  <2>2. /\ 1 \in Indices(b) /\ Head(b.sent) = b.sent[1]
        /\ b.sent[1] \in Item /\ b.sent[1].len \in Nat \ {0} /\ b.sent[1].retrans
    BY <1>2, HeadNotSacked
  <2> DEFINE x == [b.sent[1] EXCEPT !.retrans = FALSE]
             r == b.sent[1].len
             q == [b.sent EXCEPT ![1] = x]
  <2>4. /\ x \in Item /\ x.start = b.sent[1].start /\ x.len = b.sent[1].len /\ ~x.retrans
        /\ x.sacked = b.sent[1].sacked /\ x.lost = b.sent[1].lost
    BY <2>2 DEF Item
  <2>5. DeleteRetransmittedFlagFromHead(b) = [b EXCEPT !.sent = q, !.retrans = @ - r]
    BY <1>2, <2>2 DEF DeleteRetransmittedFlagFromHead
  <2>3. r \in Nat BY <2>2
  <2> HIDE DEF x, r
  <2>6. q \in Seq(Item) /\ Len(q) = Len(b.sent) /\ q[1] = x /\ \A i \in Indices(b) : i # 1 => q[i] = b.sent[i]
    BY <2>1, <2>2, <2>4
  <2> HIDE DEF q
  <2>7. PICK d : d = DeleteRetransmittedFlagFromHead(b) OBVIOUS
  <2>8. /\ d.sent = q /\ d.first = b.first /\ d.unsent = b.unsent /\ d.failed = b.failed
        /\ d.highest = b.highest /\ d.sackedOut = b.sackedOut
        /\ d.retrans = b.retrans - r /\ d.lostOut = b.lostOut
    BY <2>1, <2>5, <2>7 DEF Buffer
  <2>9. d \in Buffer
    <3>1. b.retrans - r \in Int BY <2>1, <2>3
    <3> QED BY <2>1, <2>5, <2>6, <2>7, <3>1 DEF Buffer
  <2>10. \A i \in Indices(b) :
           /\ d.sent[i].start = b.sent[i].start /\ d.sent[i].len = b.sent[i].len
           /\ d.sent[i].sacked = b.sent[i].sacked /\ d.sent[i].lost = b.sent[i].lost
           /\ d.sent[i].retrans <=> b.sent[i].retrans /\ i # 1
    BY <2>2, <2>4, <2>6, <2>8
  <2>11. SameCut(b, d) BY <2>6, <2>8, <2>10 DEF SameCut
  <2>12. /\ Laid(d) /\ Indices(d) = Indices(b) /\ \A S : SizeOf(d, S) = SizeOf(b, S)
         /\ \A i \in Indices(b) : End(d.sent[i]) = End(b.sent[i])
    BY <2>9, <2>11, SameCutLaid DEF Fits
  <2>13. SackedBytes(d) = SackedBytes(b) BY <2>10, <2>12 DEF SackedBytes
  <2>14. Ordered(d) BY <2>10, <2>12 DEF Fits, Ordered
  <2>15. Exclusive(d) BY <2>10, <2>12 DEF Fits, Exclusive
  <2>17. Consistent(b) => Consistent(d)
    <3> DEFINE R == {i \in Indices(b) : b.sent[i].retrans}
    <3>1. /\ {i \in Indices(d) : d.sent[i].sacked} = {i \in Indices(b) : b.sent[i].sacked}
          /\ {i \in Indices(d) : d.sent[i].lost} = {i \in Indices(b) : b.sent[i].lost}
      BY <2>10, <2>12
    <3>3. {i \in Indices(d) : d.sent[i].retrans} = R \ {1} BY <2>10, <2>12
    <3>5. SizeOf(b, R \ {1}) = SizeOf(b, R) - r
      <4>0. SizeOf(b, R) \in Nat /\ SizeOf(b, R \ {1}) \in Nat BY <2>1, WeightsFacts
      <4>1. 1 \notin R \ {1} /\ (R \ {1}) \cup {1} = R BY <2>2
      <4>2. SizeOf(b, (R \ {1}) \cup {1}) = SizeOf(b, R \ {1}) + b.sent[1].len
        <5> HIDE DEF R
        <5> QED BY <2>1, <2>2, <4>1, SizeWithItem
      <4> HIDE DEF R
      <4> QED BY <2>3, <4>0, <4>1, <4>2 DEF r
    <3>6. /\ Bytes(d, Sacked) = Bytes(b, Sacked) /\ Bytes(d, Lost) = Bytes(b, Lost)
          /\ Bytes(d, Retrans) = Bytes(b, Retrans) - r
      BY ZenonT(60), <2>1, <2>9, <2>12, <3>1, <3>3, <3>5, BytesFacts
    <3> QED BY <2>8, <3>6 DEF Consistent
  <2>18. Fits(d) BY <2>8, <2>12, <2>13, <2>14, <2>15, <2>17 DEF Fits, Topped
  <2>19. HeadChanged(b, d) BY <2>8, <2>10, <2>11, <2>13 DEF HeadChanged
  <2> QED BY <2>7, <2>18, <2>19
<1> QED BY <1>1, <1>2

\* Nothing was sent twice, and what is not sacked is lost.
AllLost(b) ==
  \A i \in Indices(b) : /\ ~b.sent[i].retrans
                        /\ b.sent[i].lost <=> ~b.sent[i].sacked

\* After a timeout every item is lost or sacked.
LEMMA SetSentListLostFits ==
  ASSUME NEW b, Fits(b), b.failed = {}
  PROVE  LET c == SetSentListLost(b)
         IN  /\ Fits(c) /\ SameCut(b, c) /\ c.failed = {} /\ c.highest = b.highest
             /\ SackedBytes(c) = SackedBytes(b) /\ c.retrans = 0
             /\ AllLost(c)
<1> DEFINE q == Changed(b, Indices(b), NotRetrans)
           c == [b EXCEPT !.sent = q, !.retrans = 0]
           U == {i \in Indices(c) : ~c.sent[i].sacked}
           d == [c EXCEPT !.sent = Changed(c, U, MarkLost), !.lostOut = SizeOf(c, U)]
<1>1. SetSentListLost(b) = InSync(d) BY DEF SetSentListLost, Then
<1>2. /\ b \in Buffer /\ b.sent \in Seq(Item) /\ Len(b.sent) \in Nat /\ b.retrans \in Int
      /\ Indices(b) = 1..Len(b.sent)
  BY BufferFacts DEF Fits, Laid
<1>3. /\ q \in Seq(Item) /\ Len(q) = Len(b.sent)
      /\ \A i \in Indices(b) : q[i] = IF i \in Indices(b) THEN [b.sent[i] EXCEPT !.retrans = FALSE] ELSE b.sent[i]
  BY <1>2, NotRetransChanges
<1> HIDE DEF q
<1>4. /\ c.sent = q /\ c.first = b.first /\ c.unsent = b.unsent /\ c.failed = b.failed
      /\ c.highest = b.highest /\ c.sackedOut = b.sackedOut /\ c.retrans = 0
  BY <1>2 DEF Buffer
<1>0. c \in Buffer
  <2>1. 0 \in Int OBVIOUS
  <2> QED BY <1>2, <1>3, <2>1 DEF Buffer
<1> HIDE DEF c
<1>5. \A i \in Indices(b) :
         /\ c.sent[i].start = b.sent[i].start /\ c.sent[i].len = b.sent[i].len
         /\ c.sent[i].sacked = b.sent[i].sacked /\ ~c.sent[i].retrans
  <2> TAKE i \in Indices(b)
  <2>1. b.sent[i] \in Item BY <1>2, ItemFacts
  <2>2. c.sent[i] = [b.sent[i] EXCEPT !.retrans = FALSE] BY <1>3, <1>4
  <2> QED BY <2>1, <2>2 DEF Item
<1>6. c.sent \in Seq(Item) /\ Len(c.sent) = Len(b.sent) /\ Indices(c) = Indices(b)
  BY <1>2, <1>3, <1>4 DEF Indices
<1>7. /\ Changed(c, U, MarkLost) \in Seq(Item) /\ Len(Changed(c, U, MarkLost)) = Len(b.sent)
      /\ \A i \in Indices(b) : Changed(c, U, MarkLost)[i] =
           IF i \in U THEN [c.sent[i] EXCEPT !.lost = TRUE] ELSE c.sent[i]
  BY <1>0, <1>6, MarkLostChanges
<1>8. U = {i \in Indices(b) : ~b.sent[i].sacked} BY <1>5, <1>6
<1> HIDE DEF U
<1>9. SizeOf(c, U) \in Nat BY <1>0, WeightsFacts
<1>10. /\ d.sent = Changed(c, U, MarkLost) /\ d.first = b.first /\ d.unsent = b.unsent
       /\ d.failed = b.failed /\ d.highest = b.highest /\ d.sackedOut = b.sackedOut
       /\ d.retrans = c.retrans /\ d.lostOut = SizeOf(c, U) /\ d \in Buffer
  <2>1. SizeOf(c, U) \in Int BY <1>9
  <2>2. d \in Buffer BY <1>0, <1>7, <2>1 DEF Buffer
  <2> QED BY <1>0, <1>4, <2>2 DEF Buffer
<1> HIDE DEF d
<1>11. \A i \in Indices(b) :
         /\ d.sent[i].start = b.sent[i].start /\ d.sent[i].len = b.sent[i].len
         /\ d.sent[i].sacked = b.sent[i].sacked /\ ~d.sent[i].retrans
         /\ i \in U => d.sent[i].lost
         /\ i \notin U => d.sent[i].lost = c.sent[i].lost
  <2> TAKE i \in Indices(b)
  <2>1. c.sent[i] \in Item BY <1>2, <1>6, ItemFacts
  <2>2. d.sent[i] = IF i \in U THEN [c.sent[i] EXCEPT !.lost = TRUE] ELSE c.sent[i] BY <1>7, <1>10
  <2> QED BY <1>5, <2>1, <2>2 DEF Item
<1>12. \A i \in Indices(b) : c.sent[i].lost = b.sent[i].lost
  <2> TAKE i \in Indices(b)
  <2>1. b.sent[i] \in Item BY <1>2, ItemFacts
  <2>2. c.sent[i] = [b.sent[i] EXCEPT !.retrans = FALSE] BY <1>3, <1>4
  <2> QED BY <2>1, <2>2 DEF Item
<1>13. \A i \in Indices(b) : d.sent[i].lost <=> ~b.sent[i].sacked
  <2> TAKE i \in Indices(b)
  <2>1. CASE i \in U BY <1>8, <1>11, <2>1
  <2>2. CASE i \notin U
    <3>1. b.sent[i].sacked BY <1>8, <2>2
    <3>2. ~b.sent[i].lost BY <3>1 DEF Fits, Exclusive
    <3> QED BY <1>11, <1>12, <2>2, <3>1, <3>2
  <2> QED BY <2>1, <2>2
<1>14. SameCut(b, d) BY <1>7, <1>10, <1>11 DEF SameCut
<1>15. SameCut(b, c) BY <1>4, <1>5, <1>6 DEF SameCut
<1>16. /\ Laid(d) /\ Indices(d) = Indices(b) /\ \A S : SizeOf(d, S) = SizeOf(b, S)
       /\ \A i \in Indices(b) : End(d.sent[i]) = End(b.sent[i])
       /\ \A S : SizeOf(c, S) = SizeOf(b, S)
  BY <1>0, <1>10, <1>14, <1>15, SameCutLaid DEF Fits
<1>17. SackedBytes(d) = SackedBytes(b) BY <1>11, <1>16 DEF SackedBytes
<1>18. Ordered(d) BY <1>11, <1>13, <1>16 DEF Ordered
<1>19. Exclusive(d) BY <1>11, <1>13, <1>16 DEF Exclusive
<1>20. Consistent(d)
  <2>1. {i \in Indices(d) : d.sent[i].sacked} = {i \in Indices(b) : b.sent[i].sacked}
    BY <1>11, <1>16
  <2>2. {i \in Indices(d) : d.sent[i].lost} = U BY <1>8, <1>13, <1>16
  <2>3. {i \in Indices(d) : d.sent[i].retrans} = {} BY <1>11, <1>16
  <2>4. SizeOf(d, {}) = 0
    <3>1. SizeOf(d, {} \cup {}) = SizeOf(d, {}) + SizeOf(d, {}) BY <1>10, SizeSplit
    <3>2. {} \cup {} = {} OBVIOUS
    <3>3. SizeOf(d, {}) \in Nat BY <1>10, WeightsFacts
    <3>4. SizeOf(d, {}) = SizeOf(d, {}) + SizeOf(d, {}) BY <3>1, <3>2, Zenon
    <3>5. \A x \in Nat : x = x + x => x = 0 OBVIOUS
    <3> QED BY <3>3, <3>4, <3>5, Zenon
  <2>5. /\ Bytes(d, Sacked) = Bytes(b, Sacked) /\ Bytes(d, Lost) = SizeOf(c, U)
        /\ Bytes(d, Retrans) = 0
    BY <1>2, <1>10, <1>16, <2>1, <2>2, <2>3, <2>4, BytesFacts
  <2> QED BY <1>4, <1>10, <2>5 DEF Fits, Consistent
<1>21. Fits(d) BY <1>10, <1>16, <1>17, <1>18, <1>19, <1>20 DEF Fits, Topped
<1>22. InSync(d) = d BY <1>16, <1>19, <1>20, InSyncHolds DEF Consistent
<1>23. d.retrans = 0 BY <1>4, <1>10
<1>24. AllLost(d) BY <1>11, <1>13, <1>16 DEF AllLost
<1>25. d.failed = {} BY <1>10
<1> QED BY <1>1, <1>10, <1>14, <1>17, <1>21, <1>22, <1>23, <1>24, <1>25

-----------------------------------------------------------------------------
\* Bytes are discarded.

\* c has the items of b from m on, the first one cut at seq.
Rest(b, c, seq, m) ==
  /\ Len(c.sent) = Len(b.sent) + 1 - m
  /\ \A k \in Indices(b) : End(b.sent[k]) > seq <=> m <= k
  /\ \A i \in Indices(c) :
       /\ c.sent[i].start = Larger(b.sent[m - 1 + i].start, seq)
       /\ End(c.sent[i]) = End(b.sent[m - 1 + i])
       /\ c.sent[i].lost = b.sent[m - 1 + i].lost
       /\ c.sent[i].retrans = b.sent[m - 1 + i].retrans
       /\ c.sent[i].sacked = b.sent[m - 1 + i].sacked

\* The bytes before seq of the items in S.
Before(b, seq, S) ==
  [i \in Indices(b) |-> IF b.sent[i].start < seq /\ i \in S
                        THEN Smaller(End(b.sent[i]), seq) - b.sent[i].start ELSE 0]

\* BytesBefore, with the flag as a set of items.
LEMMA BytesBeforeFacts ==
  ASSUME NEW b \in Buffer, NEW seq
  PROVE  /\ BytesBefore(b, seq, Sacked) = Total(Before(b, seq, {i \in Indices(b) : b.sent[i].sacked}))
         /\ BytesBefore(b, seq, Lost) = Total(Before(b, seq, {i \in Indices(b) : b.sent[i].lost}))
         /\ BytesBefore(b, seq, Retrans) = Total(Before(b, seq, {i \in Indices(b) : b.sent[i].retrans}))
<1> DEFINE A == {i \in Indices(b) : b.sent[i].sacked}
           L == {i \in Indices(b) : b.sent[i].lost}
           R == {i \in Indices(b) : b.sent[i].retrans}
           W(S) == [i \in Indices(b) |-> IF b.sent[i].start < seq /\ i \in S
                        THEN Smaller(End(b.sent[i]), seq) - b.sent[i].start ELSE 0]
<1>1. [i \in Indices(b) |-> IF b.sent[i].start < seq /\ b.sent[i].sacked
           THEN Smaller(End(b.sent[i]), seq) - b.sent[i].start ELSE 0] = W(A)
  OBVIOUS
<1>2. [i \in Indices(b) |-> IF b.sent[i].start < seq /\ b.sent[i].lost
           THEN Smaller(End(b.sent[i]), seq) - b.sent[i].start ELSE 0] = W(L)
  OBVIOUS
<1>3. [i \in Indices(b) |-> IF b.sent[i].start < seq /\ b.sent[i].retrans
           THEN Smaller(End(b.sent[i]), seq) - b.sent[i].start ELSE 0] = W(R)
  OBVIOUS
<1>4. BytesBefore(b, seq, Sacked) = Total(W(A)) BY <1>1 DEF BytesBefore, Sacked
<1>5. BytesBefore(b, seq, Lost) = Total(W(L)) BY <1>2 DEF BytesBefore, Lost
<1>6. BytesBefore(b, seq, Retrans) = Total(W(R)) BY <1>3 DEF BytesBefore, Retrans
<1> QED BY <1>4, <1>5, <1>6 DEF Before

\* A piece before seq and one from seq on.
LEMMA CutInTwo ==
  ASSUME NEW s \in Nat, NEW e \in Nat, NEW seq \in Nat, s < e
  PROVE  /\ e - s = (IF s < seq THEN Smaller(e, seq) - s ELSE 0)
                    + (IF e > seq THEN e - Larger(s, seq) ELSE 0)
         /\ (IF s < seq THEN Smaller(e, seq) - s ELSE 0) \in Nat
         /\ (IF e > seq THEN e - Larger(s, seq) ELSE 0) \in Nat
BY DEF Smaller, Larger

\* The bytes of S are those before seq and those that are left.
LEMMA RestBytes ==
  ASSUME NEW b, Laid(b), NEW c \in Buffer, NEW seq \in Nat, NEW m \in 1..(Len(b.sent) + 1),
         Rest(b, c, seq, m), NEW S
  PROVE  /\ SizeOf(b, S) = Total(Before(b, seq, S)) + SizeOf(c, {i \in Indices(c) : m - 1 + i \in S})
         /\ Total(Before(b, seq, S)) \in Int
<1> DEFINE T == {i \in Indices(c) : m - 1 + i \in S}
           n == Len(b.sent)
           u == Weights(b, S)
           v == Before(b, seq, S)
           After(k) == IF End(b.sent[k]) > seq THEN End(b.sent[k]) - Larger(b.sent[k].start, seq) ELSE 0
           w == [k \in 1..n |-> IF k \in S THEN After(k) ELSE 0]
           x == Weights(c, T)
<1>1. /\ b \in Buffer /\ b.sent \in Seq(Item) /\ n \in Nat /\ Indices(b) = 1..n
      /\ c.sent \in Seq(Item) /\ Indices(c) = 1..Len(c.sent) /\ Len(c.sent) \in Nat
  BY BufferFacts DEF Laid
<1>2. ASSUME NEW k \in 1..n
      PROVE  v[k] \in Int /\ w[k] \in Int /\ u[k] = v[k] + w[k] /\ (k < m => w[k] = 0)
  <2>1. /\ b.sent[k].start \in Nat /\ End(b.sent[k]) \in Nat /\ b.sent[k].start < End(b.sent[k])
        /\ b.sent[k].len \in Nat /\ End(b.sent[k]) = b.sent[k].start + b.sent[k].len
    BY <1>1, ItemFacts
  <2>2. b.sent[k].len = End(b.sent[k]) - b.sent[k].start BY <2>1
  <2>3. /\ u[k] = IF k \in S THEN End(b.sent[k]) - b.sent[k].start ELSE 0
        /\ v[k] = IF k \in S THEN (IF b.sent[k].start < seq
                                   THEN Smaller(End(b.sent[k]), seq) - b.sent[k].start ELSE 0) ELSE 0
        /\ w[k] = IF k \in S THEN After(k) ELSE 0
    BY <1>1, <2>2 DEF Weights, Before
  <2>4. k < m => After(k) = 0
    <3>1. k < m => ~(m <= k) BY <1>1
    <3>2. k < m => ~(End(b.sent[k]) > seq) BY <1>1, <3>1 DEF Rest
    <3> QED BY <3>2
  <2>5. /\ End(b.sent[k]) - b.sent[k].start =
             (IF b.sent[k].start < seq THEN Smaller(End(b.sent[k]), seq) - b.sent[k].start ELSE 0) + After(k)
        /\ (IF b.sent[k].start < seq THEN Smaller(End(b.sent[k]), seq) - b.sent[k].start ELSE 0) \in Nat
        /\ After(k) \in Nat
    BY <2>1, CutInTwo
  <2> HIDE DEF u, v, w, After
  <2>6. CASE k \in S BY <2>3, <2>4, <2>5, <2>6
  <2>7. CASE k \notin S BY <2>3, <2>7
  <2> QED BY <2>6, <2>7
<1>3. /\ u \in [1..n -> Int] /\ SizeOf(b, S) = Total(u)
      /\ x \in [1..Len(c.sent) -> Int] /\ SizeOf(c, T) = Total(x) /\ SizeOf(c, T) \in Nat
  BY <1>1, WeightsFacts
<1>4. v \in [1..n -> Int]
  <2>1. v = [k \in 1..n |-> v[k]] BY <1>1 DEF Before
  <2> HIDE DEF v
  <2> QED BY <1>2, <2>1
<1>5. w \in [1..n -> Int]
  <2>1. w = [k \in 1..n |-> w[k]] OBVIOUS
  <2> HIDE DEF w
  <2> QED BY <1>2, <2>1
<1>6. ASSUME NEW i \in 1..Len(c.sent) PROVE m - 1 + i \in 1..n /\ x[i] = w[m - 1 + i]
  <2>1. m - 1 + i \in 1..n /\ m <= m - 1 + i BY <1>1 DEF Rest
  <2>2. /\ End(c.sent[i]) = End(b.sent[m - 1 + i])
        /\ c.sent[i].start = Larger(b.sent[m - 1 + i].start, seq)
    BY <1>1 DEF Rest
  <2>3. End(b.sent[m - 1 + i]) > seq BY <1>1, <2>1 DEF Rest
  <2>4. c.sent[i].len = End(c.sent[i]) - c.sent[i].start
    <3>1. /\ c.sent[i].start \in Nat /\ c.sent[i].len \in Nat
          /\ End(c.sent[i]) = c.sent[i].start + c.sent[i].len
      BY <1>1, ItemFacts
    <3> QED BY <3>1
  <2>5. c.sent[i].len = After(m - 1 + i) BY <2>2, <2>3, <2>4
  <2>6. x[i] = IF m - 1 + i \in S THEN c.sent[i].len ELSE 0 BY <1>1 DEF Weights
  <2>7. w[m - 1 + i] = IF m - 1 + i \in S THEN After(m - 1 + i) ELSE 0 BY <2>1
  <2> QED BY <2>1, <2>5, <2>6, <2>7, Zenon
<1>7. Total(u) = Total(v) + Total(w)
  <2>1. \A k \in 1..n : u[k] = v[k] + w[k] BY <1>2
  <2> HIDE DEF u, v, w, n
  <2>2. Adds(n, v, w, u) BY <1>1, <1>3, <1>4, <1>5, <2>1 DEF Adds
  <2> QED BY <2>2, TotalAdd
<1>8. Total(x) = Total(w)
  <2>1. m - 1 \in 0..n /\ n - (m - 1) = Len(c.sent) BY <1>1 DEF Rest
  <2>2. \A k \in 1..(m - 1) : w[k] = 0
    <3> TAKE k \in 1..(m - 1)
    <3>1. k \in 1..n /\ k < m BY <1>1
    <3> HIDE DEF w
    <3> QED BY <1>2, <3>1
  <2>3. \A i \in 1..Len(c.sent) : x[i] = w[i + (m - 1)]
    <3> TAKE i \in 1..Len(c.sent)
    <3>1. i + (m - 1) = m - 1 + i BY <1>1
    <3> HIDE DEF x, w
    <3> QED BY <1>6, <3>1
  <2> HIDE DEF x, w, n
  <2>4. PICK p \in Nat : p = m - 1 BY <2>1
  <2>5. PICK k \in Nat : k = Len(c.sent) BY <1>1
  <2>6. k + p = n BY <1>1, <2>1, <2>4, <2>5
  <2>7. /\ x \in [1..k -> Int] /\ \A i \in 1..k : x[i] = w[i + p]
        /\ \A i \in 1..p : w[i] = 0
    BY <1>3, <2>2, <2>3, <2>4, <2>5
  <2>8. ZerosFirst(n, p, k, w, x) BY <1>1, <1>5, <2>6, <2>7 DEF ZerosFirst
  <2> QED BY <2>8, TotalSuffix
<1>9. Total(v) \in Int
  <2> HIDE DEF v, n
  <2> QED BY <1>1, <1>4, TotalType
<1> HIDE DEF u, v, w, x, T
<1>10. SizeOf(b, S) = Total(v) + SizeOf(c, T) BY <1>3, <1>7, <1>8, Zenon
<1> QED BY <1>9, <1>10 DEF v, T

\* What is left of the list.
LEMMA ListFromRest ==
  ASSUME NEW b, Laid(b), NEW seq \in Nat, b.first < seq, seq <= SentEnd(b)
  PROVE  \E m \in 1..(Len(b.sent) + 1) :
           LET q == ListFrom(b.sent, seq)
           IN  /\ q \in Seq(Item) /\ Len(q) = Len(b.sent) + 1 - m
               /\ \A k \in Indices(b) : End(b.sent[k]) > seq <=> m <= k
               /\ \A i \in 1..Len(q) : q[i] = CutAt(b.sent[m - 1 + i], seq)
<1> DEFINE n == Len(b.sent)
           kept == {i \in DOMAIN b.sent : End(b.sent[i]) > seq}
<1>1. /\ b \in Buffer /\ b.sent \in Seq(Item) /\ n \in Nat /\ Indices(b) = 1..n /\ b.first \in Nat
      /\ DOMAIN b.sent = 1..n
  BY BufferFacts DEF Laid
<1>2. \A k \in 1..n : /\ b.sent[k].start \in Nat /\ End(b.sent[k]) \in Nat
                      /\ b.sent[k].start < End(b.sent[k]) /\ b.sent[k] \in Item
  BY <1>1, ItemFacts
<1>3. ListFrom(b.sent, seq) =
        [i \in 1..(IF kept = {} THEN 0 ELSE n + 1 - Min(kept)) |-> CutAt(b.sent[Min(kept) - 1 + i], seq)]
  BY DEF ListFrom, Then
<1>4. ASSUME NEW x \in Item, End(x) > seq PROVE CutAt(x, seq) \in Item
  <2>1. x.start \in Nat /\ End(x) \in Nat /\ x.start < End(x) BY DEF Item, End
  <2>2. Larger(x.start, seq) \in Nat /\ End(x) - Larger(x.start, seq) \in Nat \ {0}
    BY <1>4, <2>1 DEF Larger
  <2>3. CutAt(x, seq) = [x EXCEPT !.start = Larger(x.start, seq), !.len = End(x) - Larger(x.start, seq)]
    BY DEF CutAt
  <2> QED BY <2>2, <2>3 DEF Item
<1>5. CASE kept = {}
  <2>1. ListFrom(b.sent, seq) = [i \in 1..0 |-> CutAt(b.sent[Min(kept) - 1 + i], seq)] BY <1>3, <1>5
  <2>2. ListFrom(b.sent, seq) \in [1..0 -> Item] BY <2>1
  <2>3. ListFrom(b.sent, seq) \in Seq(Item) /\ Len(ListFrom(b.sent, seq)) = 0
    BY <2>2, FunctionIsSeq
  <2>4. n + 1 \in 1..(n + 1) /\ n + 1 - (n + 1) = 0 BY <1>1
  <2>5. ASSUME NEW k \in Indices(b) PROVE End(b.sent[k]) > seq <=> n + 1 <= k
    <3>1. ~(End(b.sent[k]) > seq) BY <1>1, <1>5
    <3>2. ~(n + 1 <= k) BY <1>1
    <3> QED BY <3>1, <3>2
  <2>6. \A i \in 1..Len(ListFrom(b.sent, seq)) :
          ListFrom(b.sent, seq)[i] = CutAt(b.sent[(n + 1) - 1 + i], seq)
    BY <2>3
  <2> QED BY <2>3, <2>4, <2>5, <2>6
<1>6. CASE kept # {}
  <2>1. PICK m \in Nat : m = Min(kept) /\ m \in kept /\ \A y \in kept : m <= y
    <3>1. kept \in SUBSET Nat BY <1>1
    <3> HIDE DEF kept
    <3> QED BY <1>6, <3>1, MinFacts
  <2>2. m \in 1..n /\ End(b.sent[m]) > seq BY <1>1, <2>1
  <2>3. ASSUME NEW k \in Indices(b) PROVE End(b.sent[k]) > seq <=> m <= k
    <3>1. End(b.sent[k]) > seq => m <= k BY <1>1, <2>1
    <3>2. CASE k = m BY <1>1, <2>2, <3>1, <3>2
    <3>3. CASE m < k
      <4>1. m \in Indices(b) BY <1>1, <2>2
      <4>2. End(b.sent[m]) <= b.sent[k].start BY <1>1, <3>3, <4>1, ItemsInOrder DEF Laid
      <4>3. /\ b.sent[k].start \in Nat /\ End(b.sent[k]) \in Nat /\ End(b.sent[m]) \in Nat
            /\ b.sent[k].start < End(b.sent[k])
        BY <1>1, <1>2, <2>2
      <4>4. End(b.sent[k]) > seq BY <2>2, <4>2, <4>3
      <4>5. m <= k BY <1>1, <2>2, <3>3
      <4> QED BY <4>4, <4>5
    <3>4. CASE k < m BY <1>1, <2>2, <3>1, <3>4
    <3> QED BY <1>1, <2>2, <3>2, <3>3, <3>4
  <2>4. ListFrom(b.sent, seq) = [i \in 1..(n + 1 - m) |-> CutAt(b.sent[m - 1 + i], seq)]
    <3> HIDE DEF kept
    <3> QED BY <1>3, <1>6, <2>1
  <2>5. ASSUME NEW i \in 1..(n + 1 - m) PROVE CutAt(b.sent[m - 1 + i], seq) \in Item
    <3>1. m - 1 + i \in Indices(b) /\ m <= m - 1 + i BY <1>1, <2>2
    <3>2. End(b.sent[m - 1 + i]) > seq BY <2>3, <3>1
    <3> QED BY <1>1, <1>2, <1>4, <3>1, <3>2
  <2>6. n + 1 - m \in Nat /\ m \in 1..(n + 1) BY <1>1, <2>2
  <2>7. ListFrom(b.sent, seq) \in [1..(n + 1 - m) -> Item] BY <2>4, <2>5
  <2>8. ListFrom(b.sent, seq) \in Seq(Item) /\ Len(ListFrom(b.sent, seq)) = n + 1 - m
    BY <2>6, <2>7, FunctionIsSeq
  <2>9. \A i \in 1..Len(ListFrom(b.sent, seq)) :
          ListFrom(b.sent, seq)[i] = CutAt(b.sent[m - 1 + i], seq)
    BY <2>4, <2>8
  <2> QED BY <2>3, <2>6, <2>8, <2>9
<1> QED BY <1>5, <1>6

\* The counters follow what is discarded.
LEMMA DiscardCounts ==
  ASSUME NEW b, Laid(b), Consistent(b), NEW c \in Buffer, NEW seq \in Nat,
         NEW m \in 1..(Len(b.sent) + 1), Rest(b, c, seq, m),
         c.sackedOut = b.sackedOut - BytesBefore(b, seq, Sacked),
         c.lostOut = b.lostOut - BytesBefore(b, seq, Lost),
         c.retrans = b.retrans - BytesBefore(b, seq, Retrans)
  PROVE  Consistent(c)
<1> DEFINE A == {i \in Indices(b) : b.sent[i].sacked}
           L == {i \in Indices(b) : b.sent[i].lost}
           R == {i \in Indices(b) : b.sent[i].retrans}
           C(S) == {i \in Indices(c) : m - 1 + i \in S}
<1>1. /\ b \in Buffer /\ Len(b.sent) \in Nat /\ Indices(b) = 1..Len(b.sent)
      /\ Indices(c) = 1..Len(c.sent) /\ Len(c.sent) \in Nat
  BY BufferFacts DEF Laid
<1>2. \A i \in Indices(c) : m - 1 + i \in Indices(b) BY <1>1 DEF Rest
<1>3. /\ C(A) = {i \in Indices(c) : c.sent[i].sacked}
      /\ C(L) = {i \in Indices(c) : c.sent[i].lost}
      /\ C(R) = {i \in Indices(c) : c.sent[i].retrans}
  BY <1>2 DEF Rest
<1>4. /\ Bytes(c, Sacked) = SizeOf(c, C(A)) /\ Bytes(c, Lost) = SizeOf(c, C(L))
      /\ Bytes(c, Retrans) = SizeOf(c, C(R))
      /\ Bytes(b, Sacked) = SizeOf(b, A) /\ Bytes(b, Lost) = SizeOf(b, L)
      /\ Bytes(b, Retrans) = SizeOf(b, R)
  BY <1>1, <1>3, BytesFacts
<1>5. /\ BytesBefore(b, seq, Sacked) = Total(Before(b, seq, A))
      /\ BytesBefore(b, seq, Lost) = Total(Before(b, seq, L))
      /\ BytesBefore(b, seq, Retrans) = Total(Before(b, seq, R))
  BY <1>1, BytesBeforeFacts
<1>6. \A S : /\ SizeOf(b, S) = Total(Before(b, seq, S)) + SizeOf(c, C(S))
             /\ Total(Before(b, seq, S)) \in Int /\ SizeOf(c, C(S)) \in Nat
  <2> TAKE S
  <2>1. SizeOf(c, C(S)) \in Nat BY WeightsFacts
  <2> QED BY <2>1, RestBytes
<1> HIDE DEF A, L, R, C
<1>7. ASSUME NEW S PROVE SizeOf(b, S) - Total(Before(b, seq, S)) = SizeOf(c, C(S)) BY <1>6
<1>8. c.sackedOut = SizeOf(c, C(A)) BY <1>4, <1>5, <1>7 DEF Consistent
<1>9. c.lostOut = SizeOf(c, C(L)) BY <1>4, <1>5, <1>7 DEF Consistent
<1>10. c.retrans = SizeOf(c, C(R)) BY <1>4, <1>5, <1>7 DEF Consistent
<1> QED BY <1>4, <1>8, <1>9, <1>10 DEF Consistent

\* Places in a list of n elements.
LEMMA PlaceBefore ==
  ASSUME NEW n \in Nat, NEW m \in 1..n, m # 1
  PROVE  m - 1 \in 1..(n - 1) /\ m - 1 \in 1..n /\ (m - 1) + 1 = m /\ ~(m <= m - 1)
OBVIOUS

\* A place that has a next one is not the last.
LEMMA PlaceNotLast ==
  ASSUME NEW n \in Nat, NEW k \in 1..n, k + 1 \in 1..n
  PROVE  k \in 1..(n - 1)
OBVIOUS

\* Beyond the bytes that are discarded the scoreboard is as it was.
LEMMA DiscardUpToFits ==
  ASSUME NEW b, Fits(b), b.failed = {}, NEW seq \in Nat, seq <= SentEnd(b),
         seq \notin SackedBytes(b)
  PROVE  LET c == DiscardUpTo(b, seq)
         IN  /\ Fits(c) /\ c.failed = {} /\ SentEnd(c) = SentEnd(b) /\ c.unsent = b.unsent
             /\ c.first = Larger(b.first, seq)
             /\ SackedBytes(c) \subseteq SackedBytes(b)
             /\ c = b \/ (c.first = seq /\ \E m \in 1..(Len(b.sent) + 1) : Rest(b, c, seq, m))
<1>0. /\ b \in Buffer /\ b.sent \in Seq(Item) /\ Len(b.sent) \in Nat /\ b.first \in Nat
      /\ Indices(b) = 1..Len(b.sent) /\ b.sackedOut \in Int /\ b.lostOut \in Int
      /\ b.retrans \in Int /\ b.highest \in Nat /\ Laid(b) /\ b.unsent \in Nat
  BY BufferFacts DEF Fits, Laid
<1>1. CASE seq <= b.first
  <2>1. DiscardUpTo(b, seq) = b BY <1>1 DEF DiscardUpTo
  <2>2. b.first = Larger(b.first, seq) BY <1>0, <1>1 DEF Larger
  <2> QED BY <2>1, <2>2
<1>2. CASE ~(seq <= b.first)
  <2>1. b.first < seq /\ b.sent # <<>>
    <3>1. b.first < seq BY <1>0, <1>2
    <3>2. b.sent = <<>> => SentEnd(b) = b.first BY DEF SentEnd
    <3> QED BY <1>0, <3>1, <3>2
  <2> DEFINE q == ListFrom(b.sent, seq)
             hi == IF b.highest <= seq THEN NoSeq ELSE b.highest
             sb == BytesBefore(b, seq, Sacked)
             lb == BytesBefore(b, seq, Lost)
             rb == BytesBefore(b, seq, Retrans)
             c == [b EXCEPT !.first = seq, !.sent = q, !.highest = hi,
                            !.sackedOut = @ - sb, !.retrans = @ - rb, !.lostOut = @ - lb]
  <2>2. PICK m \in 1..(Len(b.sent) + 1) :
          /\ q \in Seq(Item) /\ Len(q) = Len(b.sent) + 1 - m
          /\ \A k \in Indices(b) : End(b.sent[k]) > seq <=> m <= k
          /\ \A i \in 1..Len(q) : q[i] = CutAt(b.sent[m - 1 + i], seq)
    BY <1>0, <2>1, ListFromRest
  <2>3. /\ DiscardUpTo(b, seq) = InSync(Fails(c, "sacked head discarded",
                                              c.sent # <<>> /\ Head(c.sent).sacked))
    <3>1. [RemoveFromCounts(b, seq) EXCEPT
             !.first = seq, !.sent = ListFrom(@, seq), !.highest = IF @ <= seq THEN NoSeq ELSE @] = c
      BY <1>0 DEF RemoveFromCounts, Buffer
    <3> HIDE DEF c
    <3> QED BY <1>2, <3>1 DEF DiscardUpTo, Then
  <2> HIDE DEF q
  <2>4. sb \in Int /\ lb \in Int /\ rb \in Int
    <3>1. \A S : Total(Before(b, seq, S)) \in Int
      <4> TAKE S
      <4> DEFINE v == Before(b, seq, S)
      <4>1. \A k \in 1..Len(b.sent) : v[k] \in Int
        <5> TAKE k \in 1..Len(b.sent)
        <5>1. /\ b.sent[k].start \in Nat /\ End(b.sent[k]) \in Nat
          BY <1>0, ItemFacts
        <5>2. Smaller(End(b.sent[k]), seq) - b.sent[k].start \in Int BY <5>1 DEF Smaller
        <5> QED BY <1>0, <5>2 DEF Before
      <4>2. v = [k \in 1..Len(b.sent) |-> v[k]] BY <1>0 DEF Before
      <4> HIDE DEF v
      <4>3. v \in [1..Len(b.sent) -> Int] BY <4>1, <4>2
      <4>4. Total(v) \in Int BY <1>0, <4>3, TotalType
      <4> QED BY <4>4 DEF v
    <3> QED BY <1>0, <3>1, BytesBeforeFacts
  <2>5. hi \in Nat BY <1>0 DEF NoSeq
  <2> HIDE DEF hi, sb, lb, rb
  <2>6. c \in Buffer
    <3>1. b.sackedOut - sb \in Int /\ b.retrans - rb \in Int /\ b.lostOut - lb \in Int
      BY SMTT(30), <1>0, <2>4
    <3> QED BY <1>0, <2>2, <2>5, <3>1 DEF Buffer
  <2>7. /\ c.first = seq /\ c.sent = q /\ c.highest = hi /\ c.unsent = b.unsent
        /\ c.failed = {} /\ c.sackedOut = b.sackedOut - sb
        /\ c.retrans = b.retrans - rb /\ c.lostOut = b.lostOut - lb
    BY <1>0 DEF Buffer
  <2> HIDE DEF c
  <2>8. Indices(c) = 1..Len(q) /\ Len(q) \in Nat BY <2>2, <2>7 DEF Indices
  <2>29. PICK n \in Nat : n = Len(b.sent) BY <1>0
  <2>30. /\ Indices(b) = 1..n /\ m \in 1..(n + 1) /\ Len(q) = n + 1 - m /\ Indices(c) = 1..(n + 1 - m)
    BY <1>0, <2>2, <2>8, <2>29
  <2>9. ASSUME NEW i \in Indices(c)
        PROVE  /\ m - 1 + i \in Indices(b) /\ m <= m - 1 + i
               /\ c.sent[i].start = Larger(b.sent[m - 1 + i].start, seq)
               /\ End(c.sent[i]) = End(b.sent[m - 1 + i])
               /\ c.sent[i].lost = b.sent[m - 1 + i].lost
               /\ c.sent[i].retrans = b.sent[m - 1 + i].retrans
               /\ c.sent[i].sacked = b.sent[m - 1 + i].sacked
    <3>1. m - 1 + i \in Indices(b) /\ m <= m - 1 + i BY <2>30
    <3> DEFINE x == b.sent[m - 1 + i]
               y == c.sent[i]
    <3>2. x \in Item /\ x.start \in Nat /\ End(x) \in Nat BY <1>0, <3>1, ItemFacts
    <3>3. y = CutAt(x, seq) BY <2>2, <2>7, <2>8
    <3> HIDE DEF x, y
    <3>4. Larger(x.start, seq) \in Nat BY <3>2 DEF Larger
    <3>5. y = [x EXCEPT !.start = Larger(x.start, seq), !.len = End(x) - Larger(x.start, seq)]
      BY <3>3 DEF CutAt
    <3>6. /\ y.start = Larger(x.start, seq) /\ y.len = End(x) - Larger(x.start, seq)
          /\ y.lost = x.lost /\ y.retrans = x.retrans /\ y.sacked = x.sacked
      BY <3>2, <3>5 DEF Item
    <3>7. End(y) = End(x) BY <3>2, <3>4, <3>6 DEF End
    <3> QED BY <3>1, <3>6, <3>7 DEF x, y
  <2>10. Rest(b, c, seq, m) BY <2>2, <2>7, <2>9 DEF Rest
  <2>11. Consistent(c) BY <1>0, <2>6, <2>7, <2>10, DiscardCounts DEF Fits, sb, lb, rb
\* The first item is cut at seq, the others are as before.
  <2>12. \A k \in Indices(b) : /\ b.sent[k].start \in Nat /\ End(b.sent[k]) \in Nat
                               /\ b.sent[k].start < End(b.sent[k])
    BY <1>0, ItemFacts
  <2>13. ASSUME NEW i \in Indices(c), i # 1 PROVE c.sent[i].start = b.sent[m - 1 + i].start
    <3>0. m - 1 + i \in Indices(b) /\ m \in Indices(b) /\ m < m - 1 + i BY <2>13, <2>30
    <3>1. /\ m - 1 + i \in Indices(b) /\ m \in Indices(b) /\ m < m - 1 + i
          /\ c.sent[i].start = Larger(b.sent[m - 1 + i].start, seq)
      BY <2>9, <3>0
    <3>2. End(b.sent[m]) > seq
      <4>1. m <= m OBVIOUS
      <4> QED BY <2>2, <3>1, <4>1
    <3>3. End(b.sent[m]) <= b.sent[m - 1 + i].start BY <1>0, <3>1, ItemsInOrder DEF Laid
    <3>5. b.sent[m - 1 + i].start \in Nat /\ End(b.sent[m]) \in Nat BY <2>12, <3>1
    <3>4. b.sent[m - 1 + i].start > seq BY <3>2, <3>3, <3>5
    <3> QED BY <3>1, <3>4, <3>5 DEF Larger
  <2>14. c.sent # <<>> => c.sent[1].start = seq
    <3> SUFFICES ASSUME c.sent # <<>> PROVE c.sent[1].start = seq OBVIOUS
    <3>1. 1 \in Indices(c) /\ m \in Indices(b) /\ m - 1 + 1 = m BY <1>0, <2>2, <2>7, <2>8
    <3>2. c.sent[1].start = Larger(b.sent[m].start, seq) BY <2>9, <3>1
    <3>3. b.sent[m].start <= seq
      <4>1. CASE m = 1
        <5>1. b.sent[1].start = b.first BY <1>0, <2>1 DEF Laid, Contiguous
        <5> QED BY <1>0, <2>1, <4>1, <5>1
      <4>2. CASE m # 1
        <5>1. m - 1 \in 1..(Len(b.sent) - 1) /\ m - 1 \in Indices(b) /\ (m - 1) + 1 = m /\ ~(m <= m - 1)
          BY <1>0, <3>1, <4>2, PlaceBefore
        <5>2. b.sent[(m - 1) + 1].start = End(b.sent[m - 1]) BY <1>0, <5>1 DEF Laid, Contiguous
        <5>3. ~(End(b.sent[m - 1]) > seq) BY <2>2, <5>1
        <5> QED BY <2>12, <5>1, <5>2, <5>3
      <4> QED BY <4>1, <4>2
    <3> QED BY <2>12, <3>1, <3>2, <3>3 DEF Larger
  <2>15. Contiguous(c)
    <3>1. ASSUME NEW i \in 1..(Len(c.sent) - 1) PROVE c.sent[i + 1].start = End(c.sent[i])
      <4>1. i \in Indices(c) /\ i + 1 \in Indices(c) /\ i + 1 # 1 /\ m - 1 + (i + 1) = (m - 1 + i) + 1
        BY <2>2, <2>7, <2>8
      <4>2. m - 1 + i \in Indices(b) /\ m - 1 + (i + 1) \in Indices(b) BY <2>9, <4>1
      <4>3. m - 1 + i \in 1..(Len(b.sent) - 1)
        <5>1. Len(b.sent) \in Nat /\ m - 1 + i \in 1..Len(b.sent) BY <1>0, <4>2
        <5>2. (m - 1 + i) + 1 \in 1..Len(b.sent) BY <1>0, <4>1, <4>2, Zenon
        <5> QED BY <5>1, <5>2, PlaceNotLast, Zenon
      <4>4. b.sent[(m - 1 + i) + 1].start = End(b.sent[m - 1 + i]) BY <1>0, <4>3 DEF Laid, Contiguous
      <4>5. c.sent[i + 1].start = b.sent[m - 1 + (i + 1)].start BY <2>13, <4>1
      <4>6. End(c.sent[i]) = End(b.sent[m - 1 + i]) BY <2>9, <4>1
      <4> QED BY <4>1, <4>4, <4>5, <4>6, Zenon
    <3> QED BY <2>7, <2>14, <3>1 DEF Contiguous
  <2>16. SentEnd(c) = SentEnd(b)
    <3>1. Len(b.sent) \in Indices(b) /\ SentEnd(b) = End(b.sent[Len(b.sent)]) BY <1>0, <2>1 DEF SentEnd
    <3>2. CASE c.sent = <<>>
      <4>1. Len(q) = 0 /\ m = Len(b.sent) + 1 BY <1>0, <2>2, <2>7, <3>2
      <4>2. ~(m <= Len(b.sent)) BY <1>0, <4>1
      <4>3. ~(SentEnd(b) > seq) BY <2>2, <3>1, <4>2
      <4>4. SentEnd(b) \in Nat BY <2>12, <3>1
      <4> QED BY <2>7, <3>2, <4>3, <4>4 DEF SentEnd
    <3>3. CASE c.sent # <<>>
      <4>1. Len(c.sent) \in Indices(c) /\ m - 1 + Len(c.sent) = Len(b.sent)
        BY <1>0, <2>2, <2>7, <2>8, <3>3
      <4>2. End(c.sent[Len(c.sent)]) = End(b.sent[Len(b.sent)]) BY <2>9, <4>1
      <4> QED BY <3>1, <3>3, <4>2 DEF SentEnd
    <3> QED BY <3>2, <3>3
  <2>17. Laid(c)
    <3>1. c.first >= 1 BY <1>0, <2>1, <2>7
    <3> QED BY <1>0, <2>6, <2>7, <2>15, <2>16, <3>1 DEF Laid
  <2>18. ASSUME NEW x \in SackedBytes(c) PROVE x \in SackedBytes(b) /\ x \in Int /\ seq <= x
    <3>1. PICK i \in Indices(c) : /\ c.sent[i].sacked /\ c.sent[i].start <= x /\ x < End(c.sent[i])
                                  /\ x \in 1..Data
      BY DEF SackedBytes
    <3>2. /\ m - 1 + i \in Indices(b) /\ b.sent[m - 1 + i].sacked
          /\ c.sent[i].start = Larger(b.sent[m - 1 + i].start, seq)
          /\ End(c.sent[i]) = End(b.sent[m - 1 + i])
      BY <2>9, <3>1
    <3>3. b.sent[m - 1 + i].start <= x /\ seq <= x BY <2>12, <3>1, <3>2 DEF Larger
    <3> QED BY <3>1, <3>2, <3>3 DEF SackedBytes
  <2>19. ASSUME NEW x \in SackedBytes(b), seq <= x PROVE x \in SackedBytes(c)
    <3>1. PICK k \in Indices(b) : /\ b.sent[k].sacked /\ b.sent[k].start <= x /\ x < End(b.sent[k])
                                  /\ x \in 1..Data
      BY DEF SackedBytes
    <3>2. End(b.sent[k]) > seq BY <2>12, <2>19, <3>1
    <3>3. m <= k BY <2>2, <3>2
    <3>4. PICK i \in Indices(c) : k = m - 1 + i
      <4>1. k + 1 - m \in Indices(c) /\ k = m - 1 + (k + 1 - m) BY <2>30, <3>3
      <4> QED BY <4>1
    <3>5. /\ c.sent[i].sacked /\ c.sent[i].start = Larger(b.sent[k].start, seq)
          /\ End(c.sent[i]) = End(b.sent[k])
      BY <2>9, <3>1, <3>4
    <3>6. c.sent[i].start <= x BY <2>12, <2>19, <3>1, <3>5 DEF Larger
    <3> QED BY <3>1, <3>5, <3>6 DEF SackedBytes
  <2>20. Topped(c)
    <3>1. ASSUME NEW x \in SackedBytes(c) PROVE ~(b.highest <= seq)
      <4> SUFFICES ASSUME b.highest <= seq PROVE FALSE OBVIOUS
      <4>1. x \in SackedBytes(b) /\ x \in Int /\ seq <= x BY <2>18
      <4>2. b.highest <= x /\ seq \in b.highest..x BY <1>0, <4>1
      <4>3. seq \in SackedBytes(b) BY <4>1, <4>2 DEF Fits, Topped
      <4> QED BY <4>3
    <3>2. SackedBytes(c) # {} => c.highest # NoSeq
      <4> SUFFICES ASSUME NEW x \in SackedBytes(c) PROVE c.highest # NoSeq OBVIOUS
      <4>1. ~(b.highest <= seq) BY <3>1
      <4> QED BY <1>0, <2>7, <4>1 DEF hi, NoSeq
    <3>3. ASSUME NEW x \in SackedBytes(c), c.highest <= x, NEW y \in c.highest..x
          PROVE  y \in SackedBytes(c)
      <4>1. ~(b.highest <= seq) BY <3>1
      <4>2. c.highest = b.highest BY <2>7, <4>1 DEF hi
      <4>3. x \in SackedBytes(b) BY <2>18
      <4>4. y \in SackedBytes(b) BY <3>3, <4>2, <4>3 DEF Fits, Topped
      <4>5. seq <= y BY <1>0, <3>3, <4>1, <4>2
      <4> QED BY <2>19, <4>4, <4>5
    <3> QED BY <3>2, <3>3 DEF Topped
  <2>21. Ordered(c)
    <3> SUFFICES ASSUME NEW i \in Indices(c), NEW j \in Indices(c), i < j, c.sent[j].lost
                 PROVE  c.sent[i].lost \/ c.sent[i].sacked
      BY DEF Ordered
    <3>1. m - 1 + i < m - 1 + j BY <2>2, <2>8
    <3> QED BY <2>9, <3>1 DEF Fits, Ordered
  <2>22. Exclusive(c) BY <2>9 DEF Fits, Exclusive
  <2>23. c.first \notin SackedBytes(c) BY <2>7, <2>18
  <2>24. ~(c.sent # <<>> /\ Head(c.sent).sacked)
    <3> SUFFICES ASSUME c.sent # <<>>, Head(c.sent).sacked PROVE FALSE OBVIOUS
    <3>1. 1 \in Indices(c) /\ Head(c.sent) = c.sent[1] BY <2>2, <2>7, <2>8
    <3>2. c.sent[1].start < End(c.sent[1])
      <4>1. c.sent \in Seq(Item) BY <2>2, <2>7
      <4> QED BY <2>7, <2>8, <3>1, <4>1, ItemFacts
    <3>3. seq <= seq /\ seq \in Int OBVIOUS
    <3>4. seq \in SackedBytes(c) BY <2>14, <2>17, <3>1, <3>2, <3>3, SackedByte
    <3> QED BY <2>7, <2>23, <3>4
  <2>25. Fits(c) BY <2>7, <2>11, <2>17, <2>20, <2>21, <2>22, <2>23 DEF Fits
  <2>26. DiscardUpTo(b, seq) = InSync(c) BY <2>3, <2>24 DEF Fails
  <2>27. InSync(c) = c BY <2>11, <2>17, <2>22, InSyncHolds DEF Consistent
  <2>28. c.first = Larger(b.first, seq) BY <1>0, <2>1, <2>7 DEF Larger
  <2>31. \E k \in 1..(Len(b.sent) + 1) : Rest(b, c, seq, k) BY <2>10
  <2> QED BY <2>7, <2>16, <2>18, <2>25, <2>26, <2>27, <2>28, <2>31
<1> QED BY <1>1, <1>2

-----------------------------------------------------------------------------
\* Items are merged and split.

\* What \o does.
LEMMA JoinFacts ==
  ASSUME NEW T, NEW u \in Seq(T), NEW v \in Seq(T)
  PROVE  /\ u \o v \in Seq(T) /\ Len(u \o v) = Len(u) + Len(v)
         /\ \A k \in 1..Len(u) : (u \o v)[k] = u[k]
         /\ \A k \in 1..Len(v) : (u \o v)[Len(u) + k] = v[k]
<1> DEFINE w == u \o v
<1>0. Len(u) \in Nat /\ Len(v) \in Nat OBVIOUS
<1>1. /\ w \in Seq(T) /\ Len(w) = Len(u) + Len(v)
      /\ \A i \in 1..(Len(u) + Len(v)) : w[i] = IF i <= Len(u) THEN u[i] ELSE v[i - Len(u)]
  BY ConcatProperties
<1> HIDE DEF w
<1>2. ASSUME NEW k \in 1..Len(u) PROVE w[k] = u[k]
  <2>1. k \in 1..(Len(u) + Len(v)) /\ k <= Len(u) BY <1>0
  <2> QED BY <1>1, <2>1
<1>3. ASSUME NEW k \in 1..Len(v) PROVE w[Len(u) + k] = v[k]
  <2>1. Len(u) + k \in 1..(Len(u) + Len(v)) /\ ~(Len(u) + k <= Len(u)) /\ (Len(u) + k) - Len(u) = k
    BY <1>0
  <2> QED BY <1>1, <2>1
<1> QED BY <1>1, <1>2, <1>3 DEF w

\* What SubSeq does.
LEMMA PartFacts ==
  ASSUME NEW T, NEW n \in Nat, NEW s \in Seq(T), Len(s) = n, NEW m \in 1..(n + 1), NEW k \in Nat,
         k <= n, m <= k + 1, NEW u, u = SubSeq(s, m, k)
  PROVE  /\ u \in Seq(T) /\ Len(u) = k + 1 - m
         /\ \A j \in 1..(k + 1 - m) : u[j] = s[m - 1 + j]
<1>1. \A i \in m..k : s[i] \in T OBVIOUS
<1>2. /\ u \in Seq(T) /\ Len(u) = IF m <= k THEN k - m + 1 ELSE 0
      /\ \A j \in 1..(k - m + 1) : u[j] = s[m + j - 1]
  BY <1>1, SubSeqProperties
<1>3. Len(u) = k + 1 - m BY <1>2
<1>4. ASSUME NEW j \in 1..(k + 1 - m) PROVE u[j] = s[m - 1 + j]
  <2>1. j \in 1..(k - m + 1) /\ m + j - 1 = m - 1 + j OBVIOUS
  <2> QED BY <1>2, <2>1
<1> QED BY <1>2, <1>3, <1>4

\* A sequence whose elements i and i + 1 became one.
LEMMA MergedSeq ==
  ASSUME NEW T, NEW n \in Nat, NEW s \in Seq(T), Len(s) = n, NEW one \in T, NEW i \in 1..(n - 1)
  PROVE  LET q == SubSeq(s, 1, i - 1) \o <<one>> \o SubSeq(s, i + 2, n)
         IN  /\ q \in Seq(T) /\ Len(q) = n - 1 /\ q[i] = one
             /\ \A k \in 1..(i - 1) : q[k] = s[k]
             /\ \A k \in (i + 1)..(n - 1) : q[k] = s[k + 1]
<1> DEFINE u == SubSeq(s, 1, i - 1)
           v == SubSeq(s, i + 2, n)
           o == <<one>>
           w == u \o o
           q == w \o v
<1>1. u \in Seq(T) /\ Len(u) = i - 1 /\ \A k \in 1..(i - 1) : u[k] = s[k]
  <2>1. i - 1 \in Nat /\ 1 \in 1..(n + 1) /\ (i - 1) + 1 - 1 = i - 1 OBVIOUS
  <2>2. \A k \in 1..(i - 1) : 1 - 1 + k = k OBVIOUS
  <2>3. /\ u \in Seq(T) /\ Len(u) = (i - 1) + 1 - 1
        /\ \A k \in 1..((i - 1) + 1 - 1) : u[k] = s[1 - 1 + k]
    BY <2>1, PartFacts
  <2> HIDE DEF u
  <2> QED BY <2>1, <2>2, <2>3
<1>2. v \in Seq(T) /\ Len(v) = n - i - 1 /\ \A k \in 1..(n - i - 1) : v[k] = s[i + 1 + k]
  <2>1. i + 2 \in 1..(n + 1) /\ n + 1 - (i + 2) = n - i - 1 OBVIOUS
  <2>2. \A k \in 1..(n - i - 1) : i + 2 - 1 + k = i + 1 + k OBVIOUS
  <2>3. /\ v \in Seq(T) /\ Len(v) = n + 1 - (i + 2)
        /\ \A k \in 1..(n + 1 - (i + 2)) : v[k] = s[i + 2 - 1 + k]
    BY <2>1, PartFacts
  <2> HIDE DEF v
  <2> QED BY <2>1, <2>2, <2>3
<1>3. o \in Seq(T) /\ Len(o) = 1 /\ o[1] = one OBVIOUS
<1> HIDE DEF u, v, o
<1>4. i - 1 \in Nat /\ 1 \in Nat /\ i \in Nat /\ n - i - 1 \in Nat /\ (i - 1) + 1 = i OBVIOUS
<1>5. /\ w \in Seq(T) /\ Len(w) = Len(u) + Len(o)
      /\ \A k \in 1..Len(u) : w[k] = u[k]
      /\ \A k \in 1..Len(o) : w[Len(u) + k] = o[k]
  <2>1. u \in Seq(T) /\ o \in Seq(T) BY <1>1, <1>3
  <2> QED BY <2>1, JoinFacts
<1>6. w \in Seq(T) /\ Len(w) = i /\ w[i] = one /\ \A k \in 1..(i - 1) : w[k] = s[k]
  <2> HIDE DEF w
  <2>1. 1 \in 1..1 OBVIOUS
  <2> QED BY <1>1, <1>3, <1>4, <1>5, <2>1
<1> HIDE DEF w
<1>8. /\ q \in Seq(T) /\ Len(q) = i + (n - i - 1)
      /\ \A k \in 1..i : q[k] = w[k]
      /\ \A k \in 1..(n - i - 1) : q[i + k] = v[k]
  <2>1. /\ w \o v \in Seq(T) /\ Len(w \o v) = Len(w) + Len(v)
        /\ \A k \in 1..Len(w) : (w \o v)[k] = w[k]
        /\ \A k \in 1..Len(v) : (w \o v)[Len(w) + k] = v[k]
    <3>1. w \in Seq(T) /\ v \in Seq(T) BY <1>2, <1>6
    <3> QED BY <3>1, JoinFacts
  <2>2. Len(w) = i /\ Len(v) = n - i - 1 BY <1>2, <1>6
  <2> HIDE DEF q
  <2>3. q = w \o v BY DEF q
  <2> QED BY <2>1, <2>2, <2>3
<1> HIDE DEF q
<1>9. Len(q) = n - 1 BY <1>8
<1>10. ASSUME NEW k \in (i + 1)..(n - 1) PROVE q[k] = s[k + 1]
  <2>1. k - i \in 1..(n - i - 1) /\ i + (k - i) = k /\ i + 1 + (k - i) = k + 1 OBVIOUS
  <2>2. q[i + (k - i)] = v[k - i] /\ v[k - i] = s[i + 1 + (k - i)] BY <1>2, <1>8, <2>1
  <2> QED BY <2>1, <2>2, Zenon
<1>11. q[i] = one
  <2>1. i \in 1..i OBVIOUS
  <2> QED BY <1>6, <1>8, <2>1
<1>12. \A k \in 1..(i - 1) : q[k] = s[k]
  <2> TAKE k \in 1..(i - 1)
  <2>1. k \in 1..i OBVIOUS
  <2> QED BY <1>6, <1>8, <2>1
<1> QED BY <1>8, <1>9, <1>10, <1>11, <1>12 DEF q, w, u, v, o

\* A sequence whose element i became two.
LEMMA SplitSeq ==
  ASSUME NEW T, NEW n \in Nat, NEW s \in Seq(T), Len(s) = n, NEW x \in T, NEW y \in T, NEW i \in 1..n
  PROVE  LET q == SubSeq(s, 1, i - 1) \o <<x, y>> \o SubSeq(s, i + 1, n)
         IN  /\ q \in Seq(T) /\ Len(q) = n + 1 /\ q[i] = x /\ q[i + 1] = y
             /\ \A k \in 1..(i - 1) : q[k] = s[k]
             /\ \A k \in (i + 1)..n : q[k + 1] = s[k]
<1> DEFINE u == SubSeq(s, 1, i - 1)
           v == SubSeq(s, i + 1, n)
           o == <<x, y>>
           w == u \o o
           q == w \o v
<1>1. u \in Seq(T) /\ Len(u) = i - 1 /\ \A k \in 1..(i - 1) : u[k] = s[k]
  <2>1. i - 1 \in Nat /\ 1 \in 1..(n + 1) /\ (i - 1) + 1 - 1 = i - 1 OBVIOUS
  <2>2. \A k \in 1..(i - 1) : 1 - 1 + k = k OBVIOUS
  <2>3. /\ u \in Seq(T) /\ Len(u) = (i - 1) + 1 - 1
        /\ \A k \in 1..((i - 1) + 1 - 1) : u[k] = s[1 - 1 + k]
    BY <2>1, PartFacts
  <2> HIDE DEF u
  <2> QED BY <2>1, <2>2, <2>3
<1>2. v \in Seq(T) /\ Len(v) = n - i /\ \A k \in 1..(n - i) : v[k] = s[i + k]
  <2>1. i + 1 \in 1..(n + 1) /\ n + 1 - (i + 1) = n - i OBVIOUS
  <2>2. \A k \in 1..(n - i) : i + 1 - 1 + k = i + k OBVIOUS
  <2>3. /\ v \in Seq(T) /\ Len(v) = n + 1 - (i + 1)
        /\ \A k \in 1..(n + 1 - (i + 1)) : v[k] = s[i + 1 - 1 + k]
    BY <2>1, PartFacts
  <2> HIDE DEF v
  <2> QED BY <2>1, <2>2, <2>3
<1>3. o \in Seq(T) /\ Len(o) = 2 /\ o[1] = x /\ o[2] = y OBVIOUS
<1> HIDE DEF u, v, o
<1>4. i - 1 \in Nat /\ 2 \in Nat /\ i + 1 \in Nat /\ n - i \in Nat /\ (i - 1) + 2 = i + 1 /\ (i - 1) + 1 = i
  OBVIOUS
<1>5. /\ w \in Seq(T) /\ Len(w) = Len(u) + Len(o)
      /\ \A k \in 1..Len(u) : w[k] = u[k]
      /\ \A k \in 1..Len(o) : w[Len(u) + k] = o[k]
  <2>1. u \in Seq(T) /\ o \in Seq(T) BY <1>1, <1>3
  <2> QED BY <2>1, JoinFacts
<1>6. w \in Seq(T) /\ Len(w) = i + 1 /\ w[i] = x /\ w[i + 1] = y /\ \A k \in 1..(i - 1) : w[k] = s[k]
  <2> HIDE DEF w
  <2>1. 1 \in 1..2 /\ 2 \in 1..2 OBVIOUS
  <2> QED BY <1>1, <1>3, <1>4, <1>5, <2>1
<1> HIDE DEF w
<1>8. /\ q \in Seq(T) /\ Len(q) = (i + 1) + (n - i)
      /\ \A k \in 1..(i + 1) : q[k] = w[k]
      /\ \A k \in 1..(n - i) : q[(i + 1) + k] = v[k]
  <2>1. /\ w \o v \in Seq(T) /\ Len(w \o v) = Len(w) + Len(v)
        /\ \A k \in 1..Len(w) : (w \o v)[k] = w[k]
        /\ \A k \in 1..Len(v) : (w \o v)[Len(w) + k] = v[k]
    <3>1. w \in Seq(T) /\ v \in Seq(T) BY <1>2, <1>6
    <3> QED BY <3>1, JoinFacts
  <2>2. Len(w) = i + 1 /\ Len(v) = n - i BY <1>2, <1>6
  <2> HIDE DEF q
  <2>3. q = w \o v BY DEF q
  <2> QED BY <2>1, <2>2, <2>3
<1> HIDE DEF q
<1>9. Len(q) = n + 1 BY <1>8
<1>10. ASSUME NEW k \in (i + 1)..n PROVE q[k + 1] = s[k]
  <2>1. k - i \in 1..(n - i) /\ (i + 1) + (k - i) = k + 1 /\ i + (k - i) = k OBVIOUS
  <2>2. q[(i + 1) + (k - i)] = v[k - i] /\ v[k - i] = s[i + (k - i)] BY <1>2, <1>8, <2>1
  <2> QED BY <2>1, <2>2, Zenon
<1>11. q[i] = x /\ q[i + 1] = y
  <2>1. i \in 1..(i + 1) /\ i + 1 \in 1..(i + 1) OBVIOUS
  <2> QED BY <1>6, <1>8, <2>1
<1>12. \A k \in 1..(i - 1) : q[k] = s[k]
  <2> TAKE k \in 1..(i - 1)
  <2>1. k \in 1..(i + 1) OBVIOUS
  <2> QED BY <1>6, <1>8, <2>1
<1> QED BY <1>8, <1>9, <1>10, <1>11, <1>12 DEF q, w, u, v, o

\* In c the items i and i + 1 of b, which are not sacked, are one.
Joined(b, c, i) ==
  /\ c.first = b.first /\ c.unsent = b.unsent /\ c.highest = b.highest
  /\ i \in 1..Len(c.sent) /\ Len(b.sent) = Len(c.sent) + 1
  /\ \A k \in 1..(i - 1) : c.sent[k] = b.sent[k]
  /\ \A k \in (i + 1)..Len(c.sent) : c.sent[k] = b.sent[k + 1]
  /\ c.sent[i].start = b.sent[i].start /\ c.sent[i].len = b.sent[i].len + b.sent[i + 1].len
  /\ b.sent[i + 1].start = End(b.sent[i])
  /\ ~b.sent[i].sacked /\ ~b.sent[i + 1].sacked /\ ~c.sent[i].sacked
  /\ c.sent[i].lost = b.sent[i].lost

\* The items of c, where those of b at i and i + 1 are one.
LEMMA JoinedItems ==
  ASSUME NEW b \in Buffer, NEW c \in Buffer, NEW i, Joined(b, c, i), NEW k \in Indices(c)
  PROVE  /\ k <= i => /\ c.sent[k].start = b.sent[k].start /\ c.sent[k].lost = b.sent[k].lost
                      /\ c.sent[k].sacked <=> b.sent[k].sacked
         /\ k > i => c.sent[k] = b.sent[k + 1]
         /\ k < i => c.sent[k] = b.sent[k]
         /\ k >= i => End(c.sent[k]) = End(b.sent[k + 1])
<1>1. PICK n \in Nat : n = Len(c.sent) BY BufferFacts
<1>2. /\ Indices(c) = 1..n /\ Indices(b) = 1..(n + 1) /\ Len(b.sent) = n + 1 /\ i \in 1..n
      /\ b.sent \in Seq(Item) /\ c.sent \in Seq(Item) /\ i + 1 \in 1..(n + 1) /\ i \in 1..(n + 1)
  BY <1>1, BufferFacts DEF Joined
<1>3. /\ b.sent[i].start \in Nat /\ b.sent[i].len \in Nat /\ b.sent[i + 1].len \in Nat
      /\ b.sent[i + 1].start \in Nat /\ End(b.sent[i]) = b.sent[i].start + b.sent[i].len
      /\ End(b.sent[i + 1]) = b.sent[i + 1].start + b.sent[i + 1].len
  BY <1>2, ItemFacts
<1>4. End(c.sent[i]) = End(b.sent[i + 1])
  <2>1. End(c.sent[i]) = b.sent[i].start + (b.sent[i].len + b.sent[i + 1].len) BY DEF Joined, End
  <2>2. b.sent[i + 1].start = b.sent[i].start + b.sent[i].len BY <1>3 DEF Joined
  <2> QED BY <1>3, <2>1, <2>2
<1>5. CASE k = i BY <1>2, <1>4, <1>5 DEF Joined
<1>6. CASE k < i
  <2>1. k \in 1..(i - 1) BY <1>2, <1>6
  <2>2. c.sent[k] = b.sent[k] BY <2>1 DEF Joined
  <2> QED BY <1>2, <1>6, <2>2
<1>7. CASE k > i
  <2>1. k \in (i + 1)..n BY <1>2, <1>7
  <2>2. c.sent[k] = b.sent[k + 1] BY <1>1, <2>1 DEF Joined
  <2> QED BY <1>2, <1>7, <2>2
<1> QED BY <1>2, <1>5, <1>6, <1>7

\* Joined items lie where the two lay.
LEMMA JoinedLaid ==
  ASSUME NEW b \in Buffer, NEW c \in Buffer, NEW i, Joined(b, c, i)
  PROVE  /\ SentEnd(c) = SentEnd(b)
         /\ Contiguous(b) <=> Contiguous(c)
         /\ SackedBytes(b) = SackedBytes(c)
<1>1. PICK n \in Nat : n = Len(c.sent) BY BufferFacts
<1>2. /\ Indices(c) = 1..n /\ Indices(b) = 1..(n + 1) /\ Len(b.sent) = n + 1 /\ i \in 1..n
      /\ c.first = b.first /\ n >= 1 /\ b.sent # <<>> /\ c.sent # <<>>
  BY <1>1, BufferFacts DEF Joined
<1>3. ASSUME NEW k \in 1..n
      PROVE  /\ k <= i => c.sent[k].start = b.sent[k].start
             /\ k > i => c.sent[k].start = b.sent[k + 1].start
             /\ k < i => End(c.sent[k]) = End(b.sent[k])
             /\ k >= i => End(c.sent[k]) = End(b.sent[k + 1])
             /\ k < i => c.sent[k] = b.sent[k]
             /\ k > i => c.sent[k] = b.sent[k + 1]
  BY <1>2, JoinedItems
<1>4. SentEnd(c) = SentEnd(b)
  <2>1. End(c.sent[n]) = End(b.sent[n + 1])
    <3>1. n \in 1..n /\ n >= i BY <1>2
    <3> QED BY <1>3, <3>1
  <2> QED BY <1>1, <1>2, <2>1 DEF SentEnd
<1>5. c.sent[1].start = b.sent[1].start
  <2>1. 1 \in 1..n /\ 1 <= i BY <1>2
  <2> QED BY <1>3, <2>1
<1>6. ASSUME Contiguous(b) PROVE Contiguous(c)
  <2>1. ASSUME NEW k \in 1..(n - 1) PROVE c.sent[k + 1].start = End(c.sent[k])
    <3>1. /\ k \in 1..n /\ k + 1 \in 1..n /\ k \in 1..((n + 1) - 1) /\ k + 1 \in 1..((n + 1) - 1)
      BY <1>2
    <3>2. b.sent[k + 1].start = End(b.sent[k]) /\ b.sent[(k + 1) + 1].start = End(b.sent[k + 1])
      BY <1>2, <1>6, <3>1 DEF Contiguous
    <3>3. CASE k < i
      <4>1. k + 1 <= i BY <1>2, <3>3
      <4> QED BY <1>3, <3>1, <3>2, <3>3, <4>1
    <3>4. CASE k >= i
      <4>1. k + 1 > i BY <1>2, <3>4
      <4> QED BY <1>3, <3>1, <3>2, <3>4, <4>1
    <3> QED BY <1>2, <3>3, <3>4
  <2> QED BY <1>1, <1>2, <1>5, <1>6, <2>1 DEF Contiguous
<1>7. ASSUME Contiguous(c) PROVE Contiguous(b)
  <2>1. ASSUME NEW k \in 1..n PROVE b.sent[k + 1].start = End(b.sent[k])
    <3>1. CASE k < i
      <4>1. k + 1 <= i /\ k \in 1..(n - 1) /\ k + 1 \in 1..n BY <1>2, <3>1
      <4>2. c.sent[k + 1].start = End(c.sent[k]) BY <1>1, <1>7, <4>1 DEF Contiguous
      <4> QED BY <1>3, <3>1, <4>1, <4>2
    <3>2. CASE k = i BY <3>2 DEF Joined
    <3>3. CASE k > i
      <4>1. /\ k - 1 \in 1..(n - 1) /\ k - 1 \in 1..n /\ k - 1 >= i /\ (k - 1) + 1 = k
        BY <1>2, <3>3
      <4>2. c.sent[(k - 1) + 1].start = End(c.sent[k - 1]) BY <1>1, <1>7, <4>1 DEF Contiguous
      <4>3. End(c.sent[k - 1]) = End(b.sent[(k - 1) + 1]) BY <1>3, <4>1
      <4>4. c.sent[k].start = b.sent[k + 1].start BY <1>3, <3>3
      <4> QED BY <4>1, <4>2, <4>3, <4>4, Zenon
    <3> QED BY <1>2, <3>1, <3>2, <3>3
  <2>2. Len(b.sent) - 1 = n BY <1>2
  <2> QED BY <1>2, <1>5, <1>7, <2>1, <2>2 DEF Contiguous
<1>8. SackedBytes(b) \subseteq SackedBytes(c)
  <2> SUFFICES ASSUME NEW j \in 1..(n + 1), b.sent[j].sacked, NEW x \in 1..Data,
                      b.sent[j].start <= x, x < End(b.sent[j])
               PROVE  x \in SackedBytes(c)
    BY <1>2 DEF SackedBytes
  <2>1. j # i /\ j # i + 1 BY DEF Joined
  <2>2. CASE j < i
    <3>1. j \in 1..n BY <1>2, <2>2
    <3>2. c.sent[j] = b.sent[j] BY <1>3, <2>2, <3>1
    <3> QED BY <1>2, <3>1, <3>2 DEF SackedBytes
  <2>3. CASE j > i
    <3>1. j - 1 \in 1..n /\ j - 1 > i /\ (j - 1) + 1 = j BY <1>2, <2>1, <2>3
    <3>2. c.sent[j - 1] = b.sent[j] BY <1>3, <3>1
    <3> QED BY <1>2, <3>1, <3>2 DEF SackedBytes
  <2> QED BY <1>2, <2>1, <2>2, <2>3
<1>9. SackedBytes(c) \subseteq SackedBytes(b)
  <2> SUFFICES ASSUME NEW j \in 1..n, c.sent[j].sacked, NEW x \in 1..Data,
                      c.sent[j].start <= x, x < End(c.sent[j])
               PROVE  x \in SackedBytes(b)
    BY <1>2 DEF SackedBytes
  <2>1. j # i BY DEF Joined
  <2>2. CASE j < i
    <3>1. j \in 1..(n + 1) BY <1>2, <2>2
    <3>2. c.sent[j] = b.sent[j] BY <1>3, <2>2
    <3> QED BY <1>2, <3>1, <3>2 DEF SackedBytes
  <2>3. CASE j > i
    <3>1. j + 1 \in 1..(n + 1) BY <1>2
    <3>2. c.sent[j] = b.sent[j + 1] BY <1>3, <2>3
    <3> QED BY <1>2, <3>1, <3>2 DEF SackedBytes
  <2> QED BY <1>2, <2>1, <2>2, <2>3
<1> QED BY <1>4, <1>6, <1>7, <1>8, <1>9

\* But for the items that are joined, T holds the items of S.
SameElsewhere(c, i, S, T) ==
  /\ \A k \in 1..(i - 1) : k \in S <=> k \in T
  /\ \A k \in (i + 1)..Len(c.sent) : k + 1 \in S <=> k \in T

\* Only the bytes of the items that are joined count differently.
LEMMA JoinedBytes ==
  ASSUME NEW b \in Buffer, NEW c \in Buffer, NEW i, Joined(b, c, i), NEW S, NEW T,
         SameElsewhere(c, i, S, T)
  PROVE  /\ SizeOf(c, T) = SizeOf(b, S) + (IF i \in T THEN c.sent[i].len ELSE 0)
                             - (IF i \in S THEN b.sent[i].len ELSE 0)
                             - (IF i + 1 \in S THEN b.sent[i + 1].len ELSE 0)
         /\ SizeOf(b, S) \in Nat
<1> DEFINE u == Weights(b, S)
           w == Weights(c, T)
<1>1. PICK n \in Nat : n = Len(c.sent) BY BufferFacts
<1>2. /\ Indices(c) = 1..n /\ Indices(b) = 1..(n + 1) /\ Len(b.sent) = n + 1 /\ i \in 1..n
      /\ i + 1 \in 1..(n + 1) /\ i \in 1..(n + 1)
  BY <1>1, BufferFacts DEF Joined
<1>3. /\ u \in [1..(n + 1) -> Int] /\ w \in [1..n -> Int] /\ SizeOf(b, S) = Total(u)
      /\ SizeOf(c, T) = Total(w) /\ SizeOf(b, S) \in Nat
  BY <1>1, <1>2, WeightsFacts
<1>4. ASSUME NEW k \in 1..(i - 1) PROVE w[k] = u[k]
  <2>1. k \in 1..n /\ k \in 1..(n + 1) BY <1>2
  <2>2. c.sent[k] = b.sent[k] BY DEF Joined
  <2>3. w[k] = (IF k \in T THEN c.sent[k].len ELSE 0) /\ u[k] = (IF k \in S THEN b.sent[k].len ELSE 0)
    BY <1>2, <2>1 DEF Weights
  <2>4. k \in S <=> k \in T BY DEF SameElsewhere
  <2> HIDE DEF u, w
  <2> QED BY <2>2, <2>3, <2>4
<1>5. ASSUME NEW k \in (i + 1)..n PROVE w[k] = u[k + 1]
  <2>1. k \in 1..n /\ k + 1 \in 1..(n + 1) BY <1>2
  <2>2. c.sent[k] = b.sent[k + 1] BY <1>1 DEF Joined
  <2>3. /\ w[k] = (IF k \in T THEN c.sent[k].len ELSE 0)
        /\ u[k + 1] = (IF k + 1 \in S THEN b.sent[k + 1].len ELSE 0)
    BY <1>2, <2>1 DEF Weights
  <2>4. k + 1 \in S <=> k \in T BY <1>1 DEF SameElsewhere
  <2> HIDE DEF u, w
  <2> QED BY <2>2, <2>3, <2>4
<1>6. /\ w[i] = (IF i \in T THEN c.sent[i].len ELSE 0)
      /\ u[i] = (IF i \in S THEN b.sent[i].len ELSE 0)
      /\ u[i + 1] = (IF i + 1 \in S THEN b.sent[i + 1].len ELSE 0)
  BY <1>2 DEF Weights
<1> HIDE DEF u, w
<1>7. Merged(n, i, u, w) BY <1>2, <1>3, <1>4, <1>5 DEF Merged
<1>8. Total(w) = Total(u) + w[i] - u[i] - u[i + 1] BY <1>7, TotalMerge
<1> QED BY <1>3, <1>6, <1>8, Zenon

\* Two items are merged (TcpTxBuffer::MergeItems).
LEMMA MergeItemsFits ==
  ASSUME NEW b, Fits(b), NEW i \in Indices(b), i + 1 \in Indices(b),
         ~b.sent[i].sacked, ~b.sent[i + 1].sacked
  PROVE  LET c == MergeItems(b, i)
         IN  /\ Fits(c) /\ Joined(b, c, i) /\ SentEnd(c) = SentEnd(b)
             /\ SackedBytes(c) = SackedBytes(b)
<1> DEFINE s == b.sent[i]
           t == b.sent[i + 1]
           cancelled == IF s.retrans = t.retrans THEN 0 ELSE IF s.retrans THEN s.len ELSE t.len
           one == [s EXCEPT !.len = @ + t.len, !.retrans = @ /\ t.retrans]
           q == SubSeq(b.sent, 1, i - 1) \o <<one>> \o SubSeq(b.sent, i + 2, Len(b.sent))
           both == [b EXCEPT !.sent = q, !.retrans = @ - cancelled]
           c == Fails(both, "merge lost", s.lost # t.lost)
<1>1. PICK n \in Nat : n = Len(b.sent) BY BufferFacts DEF Fits, Laid
<1>2. /\ b \in Buffer /\ b.sent \in Seq(Item) /\ Len(b.sent) = n /\ Indices(b) = 1..n
      /\ i \in 1..n /\ i + 1 \in 1..n /\ i \in 1..(n - 1) /\ b.retrans \in Int /\ n - 1 \in Nat
      /\ Laid(b)
  <2>1. b \in Buffer /\ Laid(b) BY DEF Fits, Laid
  <2>2. /\ b \in Buffer /\ b.sent \in Seq(Item) /\ Len(b.sent) = n /\ Indices(b) = 1..n
        /\ b.retrans \in Int /\ Laid(b)
    BY <1>1, <2>1, BufferFacts
  <2>3. i \in 1..n /\ i + 1 \in 1..n BY <2>2
  <2>4. i \in 1..(n - 1) /\ n - 1 \in Nat BY <1>1, <2>3
  <2> QED BY <2>2, <2>3, <2>4
<1>3. /\ s \in Item /\ t \in Item /\ s.len \in Nat \ {0} /\ t.len \in Nat \ {0}
      /\ s.lost \in BOOLEAN /\ t.lost \in BOOLEAN /\ s.retrans \in BOOLEAN /\ t.retrans \in BOOLEAN
      /\ s.start \in Nat
  BY <1>2, ItemFacts
<1>4. MergeItems(b, i) = c
  <2>1. Fails(both, "merge sacked", s.sacked # t.sacked) = both
    <3>1. s.sacked = t.sacked
      <4>1. s.sacked \in BOOLEAN /\ t.sacked \in BOOLEAN BY <1>2, ItemFacts
      <4> QED BY <4>1
    <3> QED BY <3>1 DEF Fails
  <2> QED BY <2>1 DEF MergeItems
<1>5. cancelled \in Nat BY <1>3
<1> HIDE DEF cancelled
<1>6. s.len + t.len \in Nat \ {0} BY <1>3
<1>7. (s.retrans /\ t.retrans) \in BOOLEAN OBVIOUS
<1>8. /\ one \in Item /\ one.start = s.start /\ one.len = s.len + t.len /\ one.lost = s.lost
      /\ one.sacked = s.sacked
      /\ one.retrans <=> s.retrans /\ t.retrans
  <2>1. one = [s EXCEPT !.len = s.len + t.len, !.retrans = s.retrans /\ t.retrans] OBVIOUS
  <2>2. PICK r \in BOOLEAN : r <=> s.retrans /\ t.retrans BY <1>7
  <2>3. PICK l \in Nat \ {0} : l = s.len + t.len BY <1>6
  <2>4. one = [s EXCEPT !.len = l, !.retrans = r]
    <3>1. r = (s.retrans /\ t.retrans) BY <2>2
    <3> QED BY <2>1, <2>3, <3>1
  <2> HIDE DEF one, s, t
  <2> QED BY <1>3, <2>2, <2>3, <2>4 DEF Item
<1> HIDE DEF one
<1>9. /\ q \in Seq(Item) /\ Len(q) = n - 1 /\ q[i] = one
      /\ \A k \in 1..(i - 1) : q[k] = b.sent[k]
      /\ \A k \in (i + 1)..(n - 1) : q[k] = b.sent[k + 1]
  <2>1. Len(b.sent) = n BY <1>1
  <2> QED BY SMTT(30), <1>2, <1>8, <2>1, MergedSeq
<1> HIDE DEF q
<1>10. /\ both \in Buffer
  <2>1. b.retrans - cancelled \in Int BY <1>2, <1>5
  <2> QED BY <1>2, <1>9, <2>1 DEF Buffer
<1>11. /\ both.sent = q /\ both.first = b.first /\ both.unsent = b.unsent /\ both.failed = b.failed
       /\ both.highest = b.highest /\ both.sackedOut = b.sackedOut
       /\ both.retrans = b.retrans - cancelled /\ both.lostOut = b.lostOut
  BY <1>2 DEF Buffer
<1> HIDE DEF both
<1>23. b.failed \subseteq {"merge lost"} BY DEF Fits
<1>12. /\ c \in Buffer
       /\ c.sent = q /\ c.first = b.first /\ c.unsent = b.unsent /\ c.failed \subseteq {"merge lost"}
       /\ c.highest = b.highest /\ c.sackedOut = b.sackedOut
       /\ c.retrans = b.retrans - cancelled /\ c.lostOut = b.lostOut
       /\ c.failed = {} => s.lost = t.lost /\ b.failed = {}
       /\ b.failed \subseteq {"merge lost"}
  <2>1. CASE s.lost # t.lost
    <3>1. c = [both EXCEPT !.failed = @ \cup {"merge lost"}] BY <2>1 DEF Fails
    <3>2. both.failed \cup {"merge lost"} \in SUBSET Assertion BY <1>11, <1>23 DEF Assertion
    <3>3. c \in Buffer BY <1>10, <3>1, <3>2 DEF Buffer
    <3>4. /\ c.first = both.first /\ c.sent = both.sent /\ c.unsent = both.unsent
          /\ c.sackedOut = both.sackedOut /\ c.lostOut = both.lostOut /\ c.retrans = both.retrans
          /\ c.highest = both.highest /\ c.failed = both.failed \cup {"merge lost"}
      BY <1>10, <3>1 DEF Buffer
    <3> HIDE DEF c, s, t
    <3> QED BY <1>11, <1>23, <3>3, <3>4
  <2>2. CASE ~(s.lost # t.lost)
    <3>1. c = both BY <2>2 DEF Fails
    <3> HIDE DEF c, s, t
    <3> QED BY <1>10, <1>11, <1>23, <2>2, <3>1
  <2> QED BY <2>1, <2>2
<1> HIDE DEF c
<1>13. Indices(c) = 1..(n - 1) /\ Len(c.sent) = n - 1 BY <1>9, <1>12 DEF Indices
<1>14. b.sent[i + 1].start = End(b.sent[i]) BY <1>1, <1>2 DEF Laid, Contiguous
<1>15. Joined(b, c, i)
  <2>1. c.sent[i] = one BY <1>9, <1>12
  <2>2. i \in 1..Len(c.sent) /\ Len(b.sent) = Len(c.sent) + 1 BY <1>2, <1>13
  <2>3. c.sent[i].start = b.sent[i].start /\ c.sent[i].len = b.sent[i].len + b.sent[i + 1].len
    BY <1>8, <2>1
  <2>4. ~c.sent[i].sacked /\ c.sent[i].lost = b.sent[i].lost BY <1>8, <2>1
  <2>5. \A k \in 1..(i - 1) : c.sent[k] = b.sent[k] BY <1>9, <1>12
  <2>6. \A k \in (i + 1)..Len(c.sent) : c.sent[k] = b.sent[k + 1] BY <1>9, <1>12, <1>13
  <2>7. c.first = b.first /\ c.unsent = b.unsent /\ c.highest = b.highest BY <1>12
  <2> QED BY <1>14, <2>2, <2>3, <2>4, <2>5, <2>6, <2>7 DEF Joined
<1>16. SentEnd(c) = SentEnd(b) /\ Contiguous(c) /\ SackedBytes(c) = SackedBytes(b)
  BY <1>2, <1>12, <1>15, JoinedLaid DEF Laid
<1>17. Laid(c) BY <1>2, <1>12, <1>16 DEF Laid
<1>18. ASSUME NEW k \in 1..(n - 1)
       PROVE  \E j \in 1..n : /\ (j = k \/ j = k + 1) /\ (k <= i => j = k) /\ (k > i => j = k + 1)
                              /\ c.sent[k].lost = b.sent[j].lost
                              /\ c.sent[k].sacked <=> b.sent[j].sacked
  <2>0. b \in Buffer /\ c \in Buffer /\ k \in Indices(c) BY <1>2, <1>12, <1>13
  <2>1. CASE k <= i
    <3>1. k \in 1..n OBVIOUS
    <3>2. /\ c.sent[k].lost = b.sent[k].lost
          /\ c.sent[k].sacked <=> b.sent[k].sacked
      BY <2>0, <1>15, <2>1, JoinedItems
    <3> QED BY <1>2, <2>1, <3>1, <3>2
  <2>2. CASE k > i
    <3>1. k + 1 \in 1..n OBVIOUS
    <3>2. c.sent[k] = b.sent[k + 1] BY <2>0, <1>15, <2>2, JoinedItems
    <3> QED BY <1>2, <2>2, <3>1, <3>2
  <2> QED BY <1>2, <2>1, <2>2
<1>19. Ordered(c)
  <2> SUFFICES ASSUME NEW k \in 1..(n - 1), NEW m \in 1..(n - 1), k < m, c.sent[m].lost
               PROVE  c.sent[k].lost \/ c.sent[k].sacked
    BY <1>13 DEF Ordered
  <2>1. PICK j \in 1..n : /\ (j = k \/ j = k + 1) /\ (k <= i => j = k) /\ (k > i => j = k + 1)
                          /\ c.sent[k].lost = b.sent[j].lost
                          /\ c.sent[k].sacked <=> b.sent[j].sacked
    BY <1>18
  <2>2. PICK h \in 1..n : /\ (h = m \/ h = m + 1) /\ (m <= i => h = m) /\ (m > i => h = m + 1)
                          /\ c.sent[m].lost = b.sent[h].lost
                          /\ c.sent[m].sacked <=> b.sent[h].sacked
    BY <1>18
  <2>3. j < h BY <1>2, <2>1, <2>2
  <2> QED BY <1>2, <2>1, <2>2, <2>3 DEF Fits, Ordered
<1>20. Exclusive(c) BY <1>2, <1>13, <1>18 DEF Fits, Exclusive
<1>21. ASSUME c.failed = {} PROVE Consistent(c)
  <2> DEFINE A == {k \in Indices(b) : b.sent[k].sacked}
             L == {k \in Indices(b) : b.sent[k].lost}
             R == {k \in Indices(b) : b.sent[k].retrans}
             Ac == {k \in Indices(c) : c.sent[k].sacked}
             Lc == {k \in Indices(c) : c.sent[k].lost}
             Rc == {k \in Indices(c) : c.sent[k].retrans}
  <2>1. ASSUME NEW k \in 1..(i - 1)
        PROVE  (k \in A <=> k \in Ac) /\ (k \in L <=> k \in Lc) /\ (k \in R <=> k \in Rc)
    <3>1. k \in 1..n /\ k \in 1..(n - 1) BY <1>2
    <3>2. c.sent[k] = b.sent[k] BY <1>15 DEF Joined
    <3> QED BY <1>2, <1>13, <3>1, <3>2
  <2>2. ASSUME NEW k \in (i + 1)..Len(c.sent)
        PROVE  (k + 1 \in A <=> k \in Ac) /\ (k + 1 \in L <=> k \in Lc) /\ (k + 1 \in R <=> k \in Rc)
    <3>1. k + 1 \in 1..n /\ k \in 1..(n - 1) BY <1>2, <1>13
    <3>2. c.sent[k] = b.sent[k + 1] BY <1>15 DEF Joined
    <3> QED BY <1>2, <1>13, <3>1, <3>2
  <2>3. /\ i \notin A /\ i + 1 \notin A /\ i \notin Ac
        /\ (i \in L <=> s.lost) /\ (i + 1 \in L <=> s.lost) /\ (i \in Lc <=> s.lost)
        /\ (i \in R <=> s.retrans) /\ (i + 1 \in R <=> t.retrans)
        /\ (i \in Rc <=> s.retrans /\ t.retrans)
        /\ c.sent[i].len = s.len + t.len
    <3>1. i \in Indices(b) /\ i + 1 \in Indices(b) /\ i \in Indices(c) BY <1>2, <1>13
    <3>2. /\ c.sent[i].len = s.len + t.len /\ c.sent[i].lost = s.lost /\ ~c.sent[i].sacked
          /\ c.sent[i].retrans <=> s.retrans /\ t.retrans
      <4>1. c.sent[i] = one BY <1>9, <1>12
      <4> QED BY <1>8, <4>1
    <3>3. s.lost = t.lost BY <1>12, <1>21
    <3> QED BY <3>1, <3>2, <3>3
  <2>12. b \in Buffer /\ c \in Buffer BY <1>2, <1>12
  <2>4. /\ Bytes(c, Sacked) = SizeOf(c, Ac) /\ Bytes(c, Lost) = SizeOf(c, Lc)
        /\ Bytes(c, Retrans) = SizeOf(c, Rc)
        /\ Bytes(b, Sacked) = SizeOf(b, A) /\ Bytes(b, Lost) = SizeOf(b, L)
        /\ Bytes(b, Retrans) = SizeOf(b, R)
    BY <1>2, <1>12, BytesFacts
  <2> HIDE DEF A, L, R, Ac, Lc, Rc
  <2>11. /\ b \in Buffer /\ c \in Buffer /\ SameElsewhere(c, i, A, Ac)
         /\ SameElsewhere(c, i, L, Lc) /\ SameElsewhere(c, i, R, Rc)
    BY <2>1, <2>2, <2>12 DEF SameElsewhere
  <2>5. /\ SizeOf(c, Ac) = SizeOf(b, A) + (IF i \in Ac THEN c.sent[i].len ELSE 0)
               - (IF i \in A THEN b.sent[i].len ELSE 0) - (IF i + 1 \in A THEN b.sent[i + 1].len ELSE 0)
        /\ SizeOf(b, A) \in Nat
    BY <2>11, <1>15, JoinedBytes
  <2>6. /\ SizeOf(c, Lc) = SizeOf(b, L) + (IF i \in Lc THEN c.sent[i].len ELSE 0)
               - (IF i \in L THEN b.sent[i].len ELSE 0) - (IF i + 1 \in L THEN b.sent[i + 1].len ELSE 0)
        /\ SizeOf(b, L) \in Nat
    BY <2>11, <1>15, JoinedBytes
  <2>7. /\ SizeOf(c, Rc) = SizeOf(b, R) + (IF i \in Rc THEN c.sent[i].len ELSE 0)
               - (IF i \in R THEN b.sent[i].len ELSE 0) - (IF i + 1 \in R THEN b.sent[i + 1].len ELSE 0)
        /\ SizeOf(b, R) \in Nat
    BY <2>11, <1>15, JoinedBytes
  <2>8. SizeOf(c, Ac) = SizeOf(b, A) BY <2>3, <2>5
  <2>9. SizeOf(c, Lc) = SizeOf(b, L)
    <3>1. PICK x \in Nat, y \in Nat : x = s.len /\ y = t.len BY <1>3
    <3>2. PICK z \in Nat : z = SizeOf(b, L) BY <2>6
    <3>3. SizeOf(c, Lc) = z + (IF s.lost THEN x + y ELSE 0) - (IF s.lost THEN x ELSE 0) - (IF s.lost THEN y ELSE 0)
      BY <2>3, <2>6, <3>1, <3>2, Zenon
    <3> QED BY <3>1, <3>2, <3>3
  <2>10. SizeOf(c, Rc) = SizeOf(b, R) - cancelled
    <3>1. PICK x \in Nat, y \in Nat : x = s.len /\ y = t.len BY <1>3
    <3>2. PICK z \in Nat : z = SizeOf(b, R) BY <2>7
    <3>3. SizeOf(c, Rc) = z + (IF s.retrans /\ t.retrans THEN x + y ELSE 0)
                            - (IF s.retrans THEN x ELSE 0) - (IF t.retrans THEN y ELSE 0)
      BY <2>3, <2>7, <3>1, <3>2, Zenon
    <3>5. s.retrans \in BOOLEAN /\ t.retrans \in BOOLEAN BY <1>3
    <3>4. /\ (s.retrans <=> t.retrans) => cancelled = 0
          /\ s.retrans /\ ~t.retrans => cancelled = x
          /\ ~s.retrans /\ t.retrans => cancelled = y
      <4> HIDE DEF s, t
      <4> QED BY <3>1, <3>5 DEF cancelled
    <3>6. SizeOf(c, Rc) = z - cancelled
      <4> HIDE DEF s, t
      <4>1. CASE s.retrans /\ t.retrans BY <3>3, <3>4, <3>5, <4>1
      <4>2. CASE s.retrans /\ ~t.retrans BY <3>3, <3>4, <3>5, <4>2
      <4>3. CASE ~s.retrans /\ t.retrans BY <3>3, <3>4, <3>5, <4>3
      <4>4. CASE ~s.retrans /\ ~t.retrans BY <3>3, <3>4, <3>5, <4>4
      <4> QED BY <4>1, <4>2, <4>3, <4>4
    <3> QED BY <3>2, <3>6, Zenon
  <2>13. Consistent(b) BY <1>12, <1>21 DEF Fits
  <2> QED BY <1>12, <2>4, <2>8, <2>9, <2>10, <2>13 DEF Consistent
<1>22. Fits(c) BY <1>12, <1>16, <1>17, <1>19, <1>20, <1>21 DEF Fits, Topped
<1> QED BY <1>4, <1>15, <1>16, <1>22

\* q is s with x and y in the place of its item i.
InTwo(q, s, n, i, x, y) ==
  /\ n \in Nat /\ s \in Seq(Item) /\ Len(s) = n /\ i \in 1..n /\ x \in Item /\ y \in Item
  /\ q = SubSeq(s, 1, i - 1) \o <<x, y>> \o SubSeq(s, i + 1, n)

\* SplitSeq, for items.
LEMMA SplitItemSeq ==
  ASSUME NEW q, NEW s, NEW n, NEW i, NEW x, NEW y, InTwo(q, s, n, i, x, y)
  PROVE  /\ q \in Seq(Item) /\ Len(q) = n + 1 /\ q[i] = x /\ q[i + 1] = y
         /\ \A k \in 1..(i - 1) : q[k] = s[k]
         /\ \A k \in (i + 1)..n : q[k + 1] = s[k]
<1>1. q \in Seq(Item) /\ Len(q) = n + 1 BY SplitSeq DEF InTwo
<1>2. q[i] = x /\ q[i + 1] = y BY SplitSeq DEF InTwo
<1>3. \A k \in 1..(i - 1) : q[k] = s[k] BY SplitSeq DEF InTwo
<1>4. \A k \in (i + 1)..n : q[k + 1] = s[k] BY SplitSeq DEF InTwo
<1> QED BY <1>1, <1>2, <1>3, <1>4

\* An item is split (TcpTxBuffer::SplitItems).
LEMMA SplitItemsFits ==
  ASSUME NEW b, Fits(b), NEW i \in Indices(b), ~b.sent[i].sacked, NEW m \in Nat \ {0},
         m < b.sent[i].len
  PROVE  LET c == SplitItems(b, i, m)
         IN  /\ Fits(c) /\ Joined(c, b, i) /\ SentEnd(c) = SentEnd(b) /\ c.failed = b.failed
             /\ SackedBytes(c) = SackedBytes(b) /\ c.sent[i].len = m
<1> DEFINE s == b.sent[i]
           x == [s EXCEPT !.len = m]
           y == [s EXCEPT !.start = @ + m, !.len = @ - m]
           q == SubSeq(b.sent, 1, i - 1) \o <<x, y>> \o SubSeq(b.sent, i + 1, Len(b.sent))
           c == [b EXCEPT !.sent = q]
<1>1. PICK n \in Nat : n = Len(b.sent) BY BufferFacts DEF Fits, Laid
<1>2. /\ b \in Buffer /\ b.sent \in Seq(Item) /\ Len(b.sent) = n /\ Indices(b) = 1..n
      /\ i \in 1..n /\ Laid(b)
  <2>1. b \in Buffer /\ Laid(b) BY DEF Fits, Laid
  <2> QED BY <1>1, <2>1, BufferFacts
<1>3. /\ s \in Item /\ s.len \in Nat \ {0} /\ s.start \in Nat /\ End(s) = s.start + s.len
  BY <1>2, ItemFacts
<1>4. SplitItems(b, i, m) = c BY DEF SplitItems
<1>5. /\ x \in Item /\ x.start = s.start /\ x.len = m /\ x.lost = s.lost
      /\ x.sacked = s.sacked /\ x.retrans = s.retrans
  <2> HIDE DEF s
  <2> QED BY <1>3 DEF Item
<1>6. /\ y \in Item /\ y.start = s.start + m /\ y.len = s.len - m /\ y.lost = s.lost
      /\ y.sacked = s.sacked /\ y.retrans = s.retrans
  <2>1. s.start + m \in Nat /\ s.len - m \in Nat \ {0} BY <1>3
  <2> HIDE DEF s
  <2> QED BY <1>3, <2>1 DEF Item
<1> HIDE DEF x, y
<1>7. /\ q \in Seq(Item) /\ Len(q) = n + 1 /\ q[i] = x /\ q[i + 1] = y
      /\ \A k \in 1..(i - 1) : q[k] = b.sent[k]
      /\ \A k \in (i + 1)..n : q[k + 1] = b.sent[k]
  <2>1. Len(b.sent) = n BY <1>1
  <2>2. b.sent \in Seq(Item) /\ x \in Item /\ y \in Item /\ i \in 1..n BY <1>2, <1>5, <1>6
  <2>4. q = SubSeq(b.sent, 1, i - 1) \o <<x, y>> \o SubSeq(b.sent, i + 1, n) BY <2>1
  <2> HIDE DEF q
  <2>5. InTwo(q, b.sent, n, i, x, y) BY <1>1, <2>1, <2>2, <2>4 DEF InTwo
  <2> QED BY <2>5, SplitItemSeq
<1> HIDE DEF q
<1>8. /\ c \in Buffer
      /\ c.sent = q /\ c.first = b.first /\ c.unsent = b.unsent /\ c.failed = b.failed
      /\ c.highest = b.highest /\ c.sackedOut = b.sackedOut
      /\ c.retrans = b.retrans /\ c.lostOut = b.lostOut
  BY <1>2, <1>7 DEF Buffer
<1> HIDE DEF c
<1>19. n + 1 \in Nat BY <1>1
<1>9. Indices(c) = 1..(n + 1) /\ Len(c.sent) = n + 1 BY <1>7, <1>8, <1>19 DEF Indices
<1>10. c.sent[i] = x /\ c.sent[i + 1] = y BY <1>7, <1>8
<1>11. Joined(c, b, i)
  <2>1. b.first = c.first /\ b.unsent = c.unsent /\ b.highest = c.highest BY <1>8
  <2>2. i \in 1..Len(b.sent) /\ Len(c.sent) = Len(b.sent) + 1 BY <1>2, <1>9
  <2>3. \A k \in 1..(i - 1) : b.sent[k] = c.sent[k] BY <1>7, <1>8
  <2>4. \A k \in (i + 1)..Len(b.sent) : b.sent[k] = c.sent[k + 1] BY <1>2, <1>7, <1>8
  <2>5. b.sent[i].start = c.sent[i].start /\ b.sent[i].len = c.sent[i].len + c.sent[i + 1].len
    <3>1. s.len = m + (s.len - m) BY <1>3
    <3> QED BY <1>5, <1>6, <1>10, <3>1
  <2>6. c.sent[i + 1].start = End(c.sent[i]) BY <1>5, <1>6, <1>10 DEF End
  <2>7. ~c.sent[i].sacked /\ ~c.sent[i + 1].sacked /\ b.sent[i].lost = c.sent[i].lost
    BY <1>5, <1>6, <1>10
  <2> QED BY <2>1, <2>2, <2>3, <2>4, <2>5, <2>6, <2>7 DEF Joined
<1>12. SentEnd(c) = SentEnd(b) /\ Contiguous(c) /\ SackedBytes(c) = SackedBytes(b)
  BY <1>2, <1>8, <1>11, JoinedLaid DEF Laid
<1>13. Laid(c) BY <1>2, <1>8, <1>12 DEF Laid
<1>14. ASSUME NEW k \in 1..(n + 1)
       PROVE  \E j \in 1..n : /\ j = k \/ j = k - 1
                              /\ k <= i => j = k
                              /\ k > i => j = k - 1
                              /\ c.sent[k].lost = b.sent[j].lost
                              /\ c.sent[k].sacked = b.sent[j].sacked
                              /\ c.sent[k].retrans = b.sent[j].retrans
  <2>1. CASE k < i
    <3>1. k \in 1..n /\ k \in 1..(i - 1) BY <1>2, <2>1
    <3>2. c.sent[k] = b.sent[k] BY <1>7, <1>8, <3>1
    <3> QED BY <1>2, <2>1, <3>1, <3>2
  <2>2. CASE k = i BY <1>2, <1>5, <1>10, <2>2
  <2>3. CASE k = i + 1
    <3>1. k - 1 = i BY <1>2, <2>3
    <3> QED BY <1>2, <1>6, <1>10, <2>3, <3>1
  <2>4. CASE k > i + 1
    <3>1. k - 1 \in (i + 1)..n /\ (k - 1) + 1 = k /\ k - 1 \in 1..n /\ ~(k <= i) BY <1>2, <2>4
    <3>2. q[(k - 1) + 1] = b.sent[k - 1] BY <1>7, <3>1
    <3>3. c.sent[k] = b.sent[k - 1] BY <1>8, <3>1, <3>2
    <3> QED BY <3>1, <3>3
  <2> QED BY <1>2, <2>1, <2>2, <2>3, <2>4
<1>15. Ordered(c)
  <2> SUFFICES ASSUME NEW k \in 1..(n + 1), NEW h \in 1..(n + 1), k < h, c.sent[h].lost
               PROVE  c.sent[k].lost \/ c.sent[k].sacked
    BY <1>9 DEF Ordered
  <2>1. PICK j \in 1..n : /\ k <= i => j = k
                          /\ k > i => j = k - 1
                          /\ c.sent[k].lost = b.sent[j].lost
                          /\ c.sent[k].sacked = b.sent[j].sacked
    BY <1>14
  <2>2. PICK g \in 1..n : /\ h <= i => g = h
                          /\ h > i => g = h - 1
                          /\ c.sent[h].lost = b.sent[g].lost
    BY <1>14
  <2>3. j <= g BY <1>2, <2>1, <2>2
  <2>4. CASE j = g BY <2>1, <2>2, <2>4
  <2>5. CASE j < g BY <1>2, <2>1, <2>2, <2>5 DEF Fits, Ordered
  <2> QED BY <1>2, <2>3, <2>4, <2>5
<1>16. Exclusive(c) BY <1>2, <1>9, <1>14 DEF Fits, Exclusive
<1>17. Consistent(b) => Consistent(c)
  <2> DEFINE A == {k \in Indices(c) : c.sent[k].sacked}
             L == {k \in Indices(c) : c.sent[k].lost}
             R == {k \in Indices(c) : c.sent[k].retrans}
             Ab == {k \in Indices(b) : b.sent[k].sacked}
             Lb == {k \in Indices(b) : b.sent[k].lost}
             Rb == {k \in Indices(b) : b.sent[k].retrans}
  <2>1. ASSUME NEW k \in 1..(i - 1)
        PROVE  (k \in A <=> k \in Ab) /\ (k \in L <=> k \in Lb) /\ (k \in R <=> k \in Rb)
    <3>1. k \in 1..n /\ k \in 1..(n + 1) BY <1>2
    <3>2. b.sent[k] = c.sent[k] BY <1>11 DEF Joined
    <3> QED BY <1>2, <1>9, <3>1, <3>2
  <2>2. ASSUME NEW k \in (i + 1)..Len(b.sent)
        PROVE  (k + 1 \in A <=> k \in Ab) /\ (k + 1 \in L <=> k \in Lb) /\ (k + 1 \in R <=> k \in Rb)
    <3>1. k + 1 \in 1..(n + 1) /\ k \in 1..n BY <1>2
    <3>2. b.sent[k] = c.sent[k + 1] BY <1>11 DEF Joined
    <3> QED BY <1>2, <1>9, <3>1, <3>2
  <2>3. /\ i \notin A /\ i + 1 \notin A /\ i \notin Ab
        /\ (i \in L <=> s.lost) /\ (i + 1 \in L <=> s.lost) /\ (i \in Lb <=> s.lost)
        /\ (i \in R <=> s.retrans) /\ (i + 1 \in R <=> s.retrans) /\ (i \in Rb <=> s.retrans)
        /\ c.sent[i].len = m /\ c.sent[i + 1].len = s.len - m
    <3>1. i \in Indices(b) /\ i + 1 \in Indices(c) /\ i \in Indices(c) BY <1>2, <1>9
    <3> QED BY <1>5, <1>6, <1>10, <3>1
  <2>12. b \in Buffer /\ c \in Buffer BY <1>2, <1>8
  <2>4. /\ Bytes(c, Sacked) = SizeOf(c, A) /\ Bytes(c, Lost) = SizeOf(c, L)
        /\ Bytes(c, Retrans) = SizeOf(c, R)
        /\ Bytes(b, Sacked) = SizeOf(b, Ab) /\ Bytes(b, Lost) = SizeOf(b, Lb)
        /\ Bytes(b, Retrans) = SizeOf(b, Rb)
    BY <2>12, BytesFacts
  <2> HIDE DEF A, L, R, Ab, Lb, Rb
  <2>11. /\ SameElsewhere(b, i, A, Ab) /\ SameElsewhere(b, i, L, Lb) /\ SameElsewhere(b, i, R, Rb)
    BY <2>1, <2>2 DEF SameElsewhere
  <2>5. /\ SizeOf(b, Ab) = SizeOf(c, A) + (IF i \in Ab THEN b.sent[i].len ELSE 0)
               - (IF i \in A THEN c.sent[i].len ELSE 0) - (IF i + 1 \in A THEN c.sent[i + 1].len ELSE 0)
        /\ SizeOf(c, A) \in Nat
    BY <2>11, <2>12, <1>11, JoinedBytes
  <2>6. /\ SizeOf(b, Lb) = SizeOf(c, L) + (IF i \in Lb THEN b.sent[i].len ELSE 0)
               - (IF i \in L THEN c.sent[i].len ELSE 0) - (IF i + 1 \in L THEN c.sent[i + 1].len ELSE 0)
        /\ SizeOf(c, L) \in Nat
    BY <2>11, <2>12, <1>11, JoinedBytes
  <2>7. /\ SizeOf(b, Rb) = SizeOf(c, R) + (IF i \in Rb THEN b.sent[i].len ELSE 0)
               - (IF i \in R THEN c.sent[i].len ELSE 0) - (IF i + 1 \in R THEN c.sent[i + 1].len ELSE 0)
        /\ SizeOf(c, R) \in Nat
    BY <2>11, <2>12, <1>11, JoinedBytes
  <2>8. SizeOf(b, Ab) = SizeOf(c, A) BY <2>3, <2>5
  <2>20. PICK p \in Nat : p = s.len BY <1>3
  <2>9. SizeOf(b, Lb) = SizeOf(c, L)
    <3>2. PICK z \in Nat : z = SizeOf(c, L) BY <2>6
    <3>3. SizeOf(b, Lb) = z + (IF s.lost THEN p ELSE 0) - (IF s.lost THEN m ELSE 0) - (IF s.lost THEN p - m ELSE 0)
      BY <2>3, <2>6, <2>20, <3>2, Zenon
    <3> QED BY <2>20, <3>2, <3>3
  <2>10. SizeOf(b, Rb) = SizeOf(c, R)
    <3>2. PICK z \in Nat : z = SizeOf(c, R) BY <2>7
    <3>3. SizeOf(b, Rb) = z + (IF s.retrans THEN p ELSE 0) - (IF s.retrans THEN m ELSE 0) - (IF s.retrans THEN p - m ELSE 0)
      BY <2>3, <2>7, <2>20, <3>2, Zenon
    <3> QED BY <2>20, <3>2, <3>3
  <2> QED BY <1>8, <2>4, <2>8, <2>9, <2>10 DEF Consistent
<1>18. Fits(c) BY <1>8, <1>12, <1>13, <1>15, <1>16, <1>17 DEF Fits, Topped
<1> QED BY <1>4, <1>5, <1>8, <1>10, <1>11, <1>12, <1>18

\* The item i is sent once more.
Resent(b, i) ==
  [b EXCEPT !.sent[i].retrans = TRUE,
            !.retrans = @ + IF b.sent[i].retrans THEN 0 ELSE b.sent[i].len]

\* Counting the item as sent once more keeps the scoreboard's invariant.
LEMMA ResentFits ==
  ASSUME NEW b, Fits(b), NEW h \in Indices(b), ~b.sent[h].sacked
  PROVE  LET d == Resent(b, h)
         IN  /\ Fits(d) /\ SameCut(b, d) /\ d.failed = b.failed
             /\ SentEnd(d) = SentEnd(b) /\ SackedBytes(d) = SackedBytes(b)
<1>1. /\ b \in Buffer /\ b.sent \in Seq(Item) /\ Len(b.sent) \in Nat
      /\ b.retrans \in Int /\ Indices(b) = 1..Len(b.sent)
  BY BufferFacts DEF Fits, Laid
<1>2. b.sent[h] \in Item /\ b.sent[h].len \in Nat \ {0} /\ b.sent[h].retrans \in BOOLEAN
  BY <1>1, ItemFacts
<1> DEFINE x == [b.sent[h] EXCEPT !.retrans = TRUE]
           r == IF b.sent[h].retrans THEN 0 ELSE b.sent[h].len
           q == [b.sent EXCEPT ![h] = x]
<1>3. /\ x \in Item /\ x.start = b.sent[h].start /\ x.len = b.sent[h].len /\ x.retrans
      /\ x.sacked = b.sent[h].sacked /\ x.lost = b.sent[h].lost
  BY <1>2 DEF Item
<1>4. Resent(b, h) = [b EXCEPT !.sent = q, !.retrans = @ + r] BY DEF Resent
<1>5. r \in Nat BY <1>2
<1> HIDE DEF x, r
<1>6. q \in Seq(Item) /\ Len(q) = Len(b.sent) /\ q[h] = x /\ \A i \in Indices(b) : i # h => q[i] = b.sent[i]
  BY <1>1, <1>3
<1> HIDE DEF q
<1>7. PICK d : d = Resent(b, h) OBVIOUS
<1>8. /\ d.sent = q /\ d.first = b.first /\ d.unsent = b.unsent /\ d.failed = b.failed
      /\ d.highest = b.highest /\ d.sackedOut = b.sackedOut
      /\ d.retrans = b.retrans + r /\ d.lostOut = b.lostOut
  BY <1>1, <1>4, <1>7 DEF Buffer
<1>9. d \in Buffer
  <2>1. b.retrans + r \in Int BY <1>1, <1>5
  <2> QED BY <1>1, <1>4, <1>6, <1>7, <2>1 DEF Buffer
<1>10. \A i \in Indices(b) :
         /\ d.sent[i].start = b.sent[i].start /\ d.sent[i].len = b.sent[i].len
         /\ d.sent[i].sacked = b.sent[i].sacked /\ d.sent[i].lost = b.sent[i].lost
         /\ d.sent[i].retrans <=> b.sent[i].retrans \/ i = h
  BY <1>3, <1>6, <1>8
<1>11. SameCut(b, d) BY <1>6, <1>8, <1>10 DEF SameCut
<1>12. /\ Laid(d) /\ Indices(d) = Indices(b) /\ \A S : SizeOf(d, S) = SizeOf(b, S)
       /\ \A i \in Indices(b) : End(d.sent[i]) = End(b.sent[i])
       /\ SentEnd(d) = SentEnd(b)
  BY <1>9, <1>11, SameCutLaid DEF Fits
<1>13. SackedBytes(d) = SackedBytes(b) BY <1>10, <1>12 DEF SackedBytes
<1>14. Ordered(d) BY <1>10, <1>12 DEF Fits, Ordered
<1>15. Exclusive(d) BY <1>10, <1>12 DEF Fits, Exclusive
<1>17. Consistent(b) => Consistent(d)
  <2> DEFINE R == {i \in Indices(b) : b.sent[i].retrans}
  <2>1. /\ {i \in Indices(d) : d.sent[i].sacked} = {i \in Indices(b) : b.sent[i].sacked}
        /\ {i \in Indices(d) : d.sent[i].lost} = {i \in Indices(b) : b.sent[i].lost}
    BY <1>10, <1>12
  <2>2. {i \in Indices(d) : d.sent[i].retrans} = R \cup {h} BY <1>10, <1>12
  <2>3. SizeOf(b, R \cup {h}) = SizeOf(b, R) + r
    <3>1. SizeOf(b, R) \in Nat BY <1>1, WeightsFacts
    <3>2. CASE b.sent[h].retrans
      <4>1. R \cup {h} = R /\ r = 0 BY <3>2 DEF r
      <4> HIDE DEF R
      <4>2. SizeOf(b, R \cup {h}) = SizeOf(b, R) BY <4>1
      <4>3. PICK z \in Nat : z = SizeOf(b, R) BY <3>1
      <4>4. z + r = z BY <4>1
      <4> QED BY <4>2, <4>3, <4>4, Zenon
    <3>3. CASE ~b.sent[h].retrans
      <4>1. h \notin R /\ r = b.sent[h].len BY <3>3 DEF r
      <4> HIDE DEF R
      <4> QED BY <1>1, <4>1, SizeWithItem
    <3> QED BY <3>2, <3>3
  <2>4. /\ Bytes(d, Sacked) = Bytes(b, Sacked) /\ Bytes(d, Lost) = Bytes(b, Lost)
        /\ Bytes(d, Retrans) = Bytes(b, Retrans) + r
    BY <1>1, <1>9, <1>12, <2>1, <2>2, <2>3, BytesFacts
  <2> QED BY <1>8, <2>4 DEF Consistent
<1>18. Fits(d) BY <1>8, <1>12, <1>13, <1>14, <1>15, <1>17 DEF Fits, Topped
<1> QED BY <1>7, <1>8, <1>11, <1>12, <1>13, <1>18

\* b became c by sending: what was sacked still is, and what was sent stays.
Sends(b, c) ==
  /\ Fits(c) /\ c.first = b.first /\ SackedBytes(c) = SackedBytes(b) /\ SentEnd(b) <= SentEnd(c)

\* What the scoreboard's invariant says of the fields.
LEMMA FitsFacts ==
  ASSUME NEW b, Fits(b)
  PROVE  /\ b \in Buffer /\ b.sent \in Seq(Item) /\ Len(b.sent) \in Nat /\ Indices(b) = 1..Len(b.sent)
         /\ b.first \in Nat /\ b.first >= 1 /\ b.unsent \in Nat
         /\ b.sackedOut \in Int /\ b.lostOut \in Int /\ b.retrans \in Int /\ b.highest \in Nat
         /\ SentEnd(b) \in Nat /\ b.first <= SentEnd(b)
         /\ SentEnd(b) + b.unsent = Data + 1
         /\ Contiguous(b) /\ Laid(b)
<1>1. b \in Buffer /\ Laid(b) /\ Contiguous(b) BY DEF Fits, Laid
<1>2. SentEnd(b) \in Nat /\ b.first <= SentEnd(b) BY <1>1, SentEndType
<1> QED BY <1>1, <1>2, BufferFacts DEF Laid

\* The item that begins at a byte is the only one.
LEMMA ItemAtFacts ==
  ASSUME NEW b, Fits(b), NEW i \in Indices(b)
  PROVE  /\ ItemAt(b, b.sent[i].start) = i
         /\ b.first <= b.sent[i].start /\ b.sent[i].start < SentEnd(b)
         /\ End(b.sent[i]) <= SentEnd(b)
<1>1. b \in Buffer /\ Contiguous(b) /\ b.sent \in Seq(Item) /\ Indices(b) = 1..Len(b.sent)
      /\ SentEnd(b) \in Nat
  BY FitsFacts
<1>2. \A j \in Indices(b) : b.sent[j].start \in Nat /\ End(b.sent[j]) \in Nat
                            /\ b.sent[j].start < End(b.sent[j])
  BY <1>1, ItemFacts
<1>3. ASSUME NEW j \in Indices(b), b.sent[j].start = b.sent[i].start PROVE j = i
  <2>1. b.sent[i].start \in Int /\ b.sent[i].start <= b.sent[i].start BY <1>2
  <2>2. b.sent[i].start < End(b.sent[i]) /\ b.sent[j].start < End(b.sent[j]) BY <1>2
  <2> QED BY <1>1, <1>3, <2>1, <2>2, ItemsDisjoint
<1>4. ItemAt(b, b.sent[i].start) = i BY <1>3 DEF ItemAt
<1>5. b.first <= b.sent[i].start /\ End(b.sent[i]) <= SentEnd(b) BY <1>1, ItemsInside
<1>6. b.sent[i].start < SentEnd(b) BY <1>1, <1>2, <1>5
<1> QED BY <1>4, <1>5, <1>6

\* The bytes of item i, or some of them, or some of the next one too.
Part(b, i, len) ==
  /\ i \in Indices(b) /\ ~b.sent[i].sacked /\ len \in Nat \ {0}
  /\ len > b.sent[i].len => /\ i + 1 \in Indices(b) /\ ~b.sent[i + 1].sacked
                            /\ len <= b.sent[i].len + b.sent[i + 1].len

\* A packet that is sent again is a part of an item, or the item and a part of the next.
LEMMA PacketSizeOfSent ==
  ASSUME NEW b, Fits(b), NEW i \in Indices(b), ~b.sent[i].sacked, NEW n \in Nat \ {0}
  PROVE  /\ Part(b, i, PacketSize(b, n, b.sent[i].start))
         /\ b.sent[i].start + PacketSize(b, n, b.sent[i].start) <= SentEnd(b)
<1>1. /\ b \in Buffer /\ Contiguous(b) /\ b.sent \in Seq(Item) /\ Indices(b) = 1..Len(b.sent)
      /\ Len(b.sent) \in Nat /\ SentEnd(b) \in Nat
  BY FitsFacts
<1>2. PICK s \in Nat, l \in Nat \ {0}, e \in Nat :
        s = b.sent[i].start /\ l = b.sent[i].len /\ e = SentEnd(b) /\ End(b.sent[i]) = s + l
  BY <1>1, ItemFacts
<1>3. ItemAt(b, b.sent[i].start) = i /\ b.sent[i].start < SentEnd(b) /\ End(b.sent[i]) <= SentEnd(b)
  BY ItemAtFacts
<1>4. ~(b.sent[i].start >= SentEnd(b)) BY <1>2, <1>3
<1> DEFINE alone == i = Len(b.sent) \/ b.sent[i + 1].sacked
           p == PacketSize(b, n, b.sent[i].start)
<1>5. p = Smaller(n, b.sent[i].len + IF alone THEN 0 ELSE b.sent[i + 1].len)
  BY <1>3, <1>4 DEF PacketSize
<1>6. CASE alone
  <2>1. p = Smaller(n, l + 0) BY <1>2, <1>5, <1>6
  <2>2. p \in Nat \ {0} /\ p <= l BY <2>1 DEF Smaller
  <2> HIDE DEF p
  <2>3. ~(p > b.sent[i].len) BY <1>2, <2>2
  <2>4. s + p <= e BY <1>2, <1>3, <2>2
  <2>5. b.sent[i].start + p <= SentEnd(b) BY <1>2, <2>4
  <2> QED BY <2>2, <2>3, <2>5 DEF Part, p
<1>7. CASE ~alone
  <2>1. i + 1 \in Indices(b) /\ ~b.sent[i + 1].sacked /\ i < i + 1
    <3>1. i # Len(b.sent) /\ ~b.sent[i + 1].sacked BY <1>7
    <3>2. i \in 1..Len(b.sent) BY <1>1
    <3>3. i + 1 \in 1..Len(b.sent) /\ i < i + 1 BY <1>1, <3>1, <3>2
    <3> QED BY <1>1, <3>1, <3>3
  <2>2. PICK t \in Nat, k \in Nat \ {0} :
          t = b.sent[i + 1].start /\ k = b.sent[i + 1].len /\ End(b.sent[i + 1]) = t + k
    BY <1>1, <2>1, ItemFacts
  <2>3. End(b.sent[i]) <= b.sent[i + 1].start BY <1>1, <2>1, ItemsInOrder
  <2>4. End(b.sent[i + 1]) <= SentEnd(b) BY <2>1, ItemAtFacts
  <2>5. p = Smaller(n, l + k) BY <1>2, <1>5, <1>7, <2>2
  <2>10. b.sent[i + 1].start = End(b.sent[i])
    <3>1. i \in 1..(Len(b.sent) - 1) BY <1>1, <2>1
    <3> QED BY <1>1, <3>1 DEF Contiguous
  <2>6. p \in Nat \ {0} /\ p <= l + k BY <2>5 DEF Smaller
  <2>7. p <= b.sent[i].len + b.sent[i + 1].len BY <1>2, <2>2, <2>6
  <2>8. s + p <= e
    <3>1. s + l = t /\ t + k <= e BY <1>2, <2>2, <2>4, <2>10
    <3> HIDE DEF p
    <3> QED BY <2>6, <3>1
  <2> HIDE DEF p
  <2>9. b.sent[i].start + p <= SentEnd(b) BY <1>2, <2>8
  <2> QED BY <2>1, <2>6, <2>7, <2>9 DEF Part, p
<1> QED BY <1>6, <1>7

\* A segment is sent again (TcpTxBuffer::GetTransmittedSegment).
LEMMA GetTransmittedSegmentFits ==
  ASSUME NEW b, Fits(b), NEW i, NEW len, Part(b, i, len)
  PROVE  LET c == GetTransmittedSegment(b, i, len)
         IN  Sends(b, c) /\ SentEnd(c) = SentEnd(b)
<1> DEFINE m == IF len > b.sent[i].len THEN MergeItems(b, i) ELSE b
           c == IF len < m.sent[i].len THEN SplitItems(m, i, len) ELSE m
           Good(d) == /\ Fits(d) /\ d.first = b.first /\ SackedBytes(d) = SackedBytes(b)
                      /\ SentEnd(d) = SentEnd(b) /\ i \in Indices(d) /\ ~d.sent[i].sacked
<1>1. Good(m) /\ len <= m.sent[i].len
  <2>0. i \in Indices(b) /\ ~b.sent[i].sacked /\ b.sent[i].len \in Nat /\ len \in Nat
    BY FitsFacts, ItemFacts DEF Part
  <2>1. CASE ~(len > b.sent[i].len)
    <3>1. m = b BY <2>1
    <3>2. len <= b.sent[i].len BY <2>0, <2>1
    <3> QED BY <2>0, <3>1, <3>2
  <2>2. CASE len > b.sent[i].len
    <3>1. m = MergeItems(b, i) BY <2>2
    <3>2. /\ i + 1 \in Indices(b) /\ ~b.sent[i + 1].sacked /\ len <= b.sent[i].len + b.sent[i + 1].len
      BY <2>2 DEF Part
    <3> HIDE DEF m
    <3>3. Fits(m) /\ Joined(b, m, i) /\ SentEnd(m) = SentEnd(b) /\ SackedBytes(m) = SackedBytes(b)
      BY <2>0, <3>1, <3>2, MergeItemsFits
    <3>4. /\ m.first = b.first /\ i \in Indices(m) /\ ~m.sent[i].sacked
          /\ m.sent[i].len = b.sent[i].len + b.sent[i + 1].len
      BY <3>3 DEF Joined, Indices
    <3> QED BY <3>2, <3>3, <3>4
  <2> QED BY <2>1, <2>2
<1> HIDE DEF m
<1>2. Good(c)
  <2>1. CASE ~(len < m.sent[i].len) BY <1>1, <2>1
  <2>2. CASE len < m.sent[i].len
    <3>1. c = SplitItems(m, i, len) BY <2>2
    <3>2. len \in Nat \ {0} BY DEF Part
    <3> HIDE DEF c
    <3>3. /\ Fits(c) /\ Joined(c, m, i) /\ SentEnd(c) = SentEnd(m) /\ SackedBytes(c) = SackedBytes(m)
      BY <1>1, <2>2, <3>1, <3>2, SplitItemsFits
    <3>4. /\ c.first = m.first /\ ~c.sent[i].sacked /\ i \in 1..Len(m.sent)
          /\ Len(c.sent) = Len(m.sent) + 1
      BY <3>3 DEF Joined
    <3>5. i \in Indices(c)
      <4>1. Len(m.sent) \in Nat /\ Indices(c) = 1..Len(c.sent) BY <1>1, <3>3, FitsFacts
      <4> QED BY <3>4, <4>1
    <3> QED BY <1>1, <3>3, <3>4, <3>5
  <2> QED BY <2>1, <2>2
<1>3. GetPacketFromList(b, i, len) = c BY DEF GetPacketFromList, Then, m
<1> HIDE DEF c
<1>4. ~c.sent[i].sacked BY <1>2
<1>5. GetTransmittedSegment(b, i, len) = Resent(c, i)
  <2>1. GetTransmittedSegment(b, i, len) = Fails(Resent(c, i), "copy sacked", c.sent[i].sacked)
    BY <1>3 DEF GetTransmittedSegment, Then, Resent
  <2> QED BY <1>4, <2>1 DEF Fails
<1>6. PICK d : d = Resent(c, i) OBVIOUS
<1>7. /\ Fits(d) /\ SameCut(c, d) /\ SentEnd(d) = SentEnd(c) /\ SackedBytes(d) = SackedBytes(c)
  BY <1>2, <1>6, ResentFits
<1>8. SentEnd(b) \in Nat BY FitsFacts
<1>9. SentEnd(b) <= SentEnd(d) /\ SentEnd(d) = SentEnd(b) BY <1>2, <1>7, <1>8
<1> QED BY <1>2, <1>5, <1>6, <1>7, <1>9 DEF Sends, SameCut

\* The last item counts or not, nothing else is different.
LEMMA SizeOfAppended ==
  ASSUME NEW b \in Buffer, NEW c \in Buffer, NEW n \in Nat, Len(b.sent) = n, Len(c.sent) = n + 1,
         \A k \in 1..n : c.sent[k] = b.sent[k], NEW S, n + 1 \notin S
  PROVE  SizeOf(c, S) = SizeOf(b, S)
<1> DEFINE u == Weights(b, S)
           w == Weights(c, S)
<1>1. Indices(b) = 1..n /\ Indices(c) = 1..(n + 1) BY BufferFacts
<1>2. u \in [1..n -> Int] /\ w \in [1..(n + 1) -> Int]
  <2>1. u \in [1..Len(b.sent) -> Int] /\ w \in [1..Len(c.sent) -> Int] BY WeightsFacts
  <2> HIDE DEF u, w
  <2> QED BY <2>1
<1>3. SizeOf(b, S) = Total(u) /\ SizeOf(c, S) = Total(w) BY WeightsFacts
<1>4. \A k \in 1..n : w[k] = u[k]
  <2> TAKE k \in 1..n
  <2>1. k \in 1..(n + 1) OBVIOUS
  <2> QED BY <1>1, <2>1 DEF Weights
<1>5. w[n + 1] = 0
  <2>1. n + 1 \in 1..(n + 1) OBVIOUS
  <2> QED BY <1>1, <2>1 DEF Weights
<1> HIDE DEF u, w
<1>6. Total(w) = Total(u) + w[n + 1] BY <1>2, <1>4, TotalAppend
<1>7. Total(u) \in Int BY <1>2, TotalType
<1>8. Total(u) + 0 = Total(u) BY <1>7
<1> QED BY <1>3, <1>5, <1>6, <1>8, Zenon

\* A new segment is sent (TcpTxBuffer::GetNewSegment).
LEMMA GetNewSegmentFits ==
  ASSUME NEW b, Fits(b), NEW len \in Nat \ {0}, len <= b.unsent
  PROVE  LET c == GetNewSegment(b, len)
         IN  Sends(b, c) /\ SentEnd(c) = SentEnd(b) + len
<1>1. /\ b \in Buffer /\ b.sent \in Seq(Item) /\ Indices(b) = 1..Len(b.sent)
      /\ b.first \in Nat /\ b.first >= 1 /\ b.unsent \in Nat /\ SentEnd(b) \in Nat
      /\ SentEnd(b) + b.unsent = Data + 1 /\ Contiguous(b)
  BY FitsFacts
<1>2. PICK n \in Nat : n = Len(b.sent) BY <1>1
<1>3. PICK e \in Nat : e = SentEnd(b) BY <1>1
<1> DEFINE x == [start |-> SentEnd(b), len |-> len, lost |-> FALSE, retrans |-> FALSE, sacked |-> FALSE]
           q == Append(b.sent, x)
           c == [b EXCEPT !.sent = q, !.unsent = @ - len]
<1>4. x \in Item /\ x.start = e /\ x.len = len /\ ~x.lost /\ ~x.retrans /\ ~x.sacked
  BY <1>1, <1>3 DEF Item
<1>5. GetNewSegment(b, len) = c BY DEF GetNewSegment
<1> HIDE DEF x
<1>6. q \in Seq(Item) /\ Len(q) = n + 1 /\ q[n + 1] = x /\ \A k \in 1..n : q[k] = b.sent[k]
  BY <1>1, <1>2, <1>4
<1>7. b.unsent - len \in Nat BY <1>1
<1> HIDE DEF q
<1>8. c \in Buffer /\ c.sent = q /\ c.first = b.first /\ c.unsent = b.unsent - len
      /\ c.failed = b.failed /\ c.highest = b.highest /\ c.sackedOut = b.sackedOut
      /\ c.lostOut = b.lostOut /\ c.retrans = b.retrans
  BY <1>1, <1>6, <1>7 DEF Buffer
<1> HIDE DEF c
<1>9. Indices(c) = 1..(n + 1) /\ Indices(b) = 1..n /\ Len(c.sent) = n + 1 /\ n + 1 \in 1..(n + 1)
  BY <1>1, <1>2, <1>6, <1>8 DEF Indices
<1>10. c.sent[n + 1] = x /\ \A k \in 1..n : c.sent[k] = b.sent[k] BY <1>6, <1>8
<1>11. SentEnd(c) = e + len
  <2>1. c.sent # <<>>
    <3>1. n + 1 # 0 OBVIOUS
    <3> QED BY <1>9, <3>1
  <2>2. SentEnd(c) = End(x) BY <1>9, <1>10, <2>1 DEF SentEnd
  <2> QED BY <1>4, <2>2 DEF End
<1>12. SentEnd(c) + c.unsent = Data + 1
  <2>1. b.unsent \in Nat /\ e + b.unsent = Data + 1 /\ e \in Nat BY <1>1, <1>3
  <2>2. (e + len) + (b.unsent - len) = e + b.unsent BY <2>1
  <2> QED BY <1>8, <1>11, <2>1, <2>2
<1>13. Contiguous(c)
  <2>1. c.sent[1].start = c.first
    <3>1. CASE n = 0
      <4>0. b.sent \in Seq(Item) /\ Len(b.sent) = 0 BY <1>1, <1>2, <3>1
      <4>1. b.sent = <<>> BY <4>0
      <4>2. e = b.first BY <1>3, <4>1 DEF SentEnd
      <4>3. 1 = n + 1 BY <3>1
      <4> QED BY <1>4, <1>8, <1>10, <4>2, <4>3
    <3>2. CASE n # 0
      <4>1. 1 \in 1..n BY <3>2
      <4>2. b.sent # <<>> BY <1>2, <3>2
      <4> QED BY <1>1, <1>8, <1>10, <4>1, <4>2 DEF Contiguous
    <3> QED BY <3>1, <3>2
  <2>2. ASSUME NEW k \in 1..n PROVE c.sent[k + 1].start = End(c.sent[k])
    <3>1. CASE k = n
      <4>1. b.sent # <<>> BY <1>1, <1>2
      <4>2. SentEnd(b) = End(b.sent[n]) BY <1>2, <4>1 DEF SentEnd
      <4> QED BY <1>3, <1>4, <1>10, <3>1, <4>2
    <3>2. CASE k # n
      <4>1. k \in 1..(n - 1) /\ k + 1 \in 1..n BY <3>2
      <4>2. b.sent[k + 1].start = End(b.sent[k]) BY <1>1, <1>2, <4>1 DEF Contiguous
      <4> QED BY <1>10, <4>1, <4>2
    <3> QED BY <3>1, <3>2
  <2>3. \A k \in 1..(Len(c.sent) - 1) : k \in 1..n BY <1>9
  <2> QED BY <2>1, <2>2, <2>3 DEF Contiguous
<1>14. Laid(c) BY <1>1, <1>8, <1>12, <1>13 DEF Laid
<1>15. \A k \in 1..(n + 1) : k # n + 1 => k \in 1..n OBVIOUS
<1>24. \A k \in 1..n : k \in 1..(n + 1) OBVIOUS
<1>16. Ordered(c)
  <2> SUFFICES ASSUME NEW i \in 1..(n + 1), NEW j \in 1..(n + 1), i < j, c.sent[j].lost
               PROVE  c.sent[i].lost \/ c.sent[i].sacked
    BY <1>9 DEF Ordered
  <2>1. j \in 1..n BY <1>4, <1>10, <1>15
  <2>2. i \in 1..n BY <2>1
  <2> QED BY <1>9, <1>10, <2>1, <2>2 DEF Fits, Ordered
<1>17. Exclusive(c) BY <1>4, <1>9, <1>10, <1>15 DEF Fits, Exclusive
<1>18. SackedBytes(c) = SackedBytes(b) BY <1>4, <1>9, <1>10, <1>15, <1>24 DEF SackedBytes
<1>19. Consistent(b) => Consistent(c)
  <2> DEFINE A == {k \in Indices(b) : b.sent[k].sacked}
             L == {k \in Indices(b) : b.sent[k].lost}
             R == {k \in Indices(b) : b.sent[k].retrans}
  <2>1. /\ {k \in Indices(c) : c.sent[k].sacked} = A
        /\ {k \in Indices(c) : c.sent[k].lost} = L
        /\ {k \in Indices(c) : c.sent[k].retrans} = R
    BY <1>4, <1>9, <1>10, <1>15, <1>24
  <2>2. n + 1 \notin A /\ n + 1 \notin L /\ n + 1 \notin R
    <3>1. n + 1 \notin 1..n OBVIOUS
    <3> QED BY <1>9, <3>1
  <2> HIDE DEF A, L, R
  <2>3. Len(b.sent) = n /\ Len(c.sent) = n + 1 /\ b \in Buffer /\ c \in Buffer BY <1>1, <1>2, <1>8, <1>9
  <2>4. SizeOf(c, A) = SizeOf(b, A) /\ SizeOf(c, L) = SizeOf(b, L) /\ SizeOf(c, R) = SizeOf(b, R)
    BY <1>10, <2>2, <2>3, SizeOfAppended
  <2>5. /\ Bytes(b, Sacked) = SizeOf(b, A) /\ Bytes(b, Lost) = SizeOf(b, L)
        /\ Bytes(b, Retrans) = SizeOf(b, R)
    BY <2>3, BytesFacts DEF A, L, R
  <2>6. /\ Bytes(c, Sacked) = SizeOf(c, A) /\ Bytes(c, Lost) = SizeOf(c, L)
        /\ Bytes(c, Retrans) = SizeOf(c, R)
    BY <2>1, <2>3, BytesFacts
  <2> QED BY <1>8, <2>4, <2>5, <2>6 DEF Consistent
<1>20. Fits(c) BY <1>8, <1>14, <1>16, <1>17, <1>18, <1>19 DEF Fits, Topped
<1>21. SentEnd(b) <= SentEnd(c) /\ SentEnd(c) = SentEnd(b) + len BY <1>3, <1>11
<1> QED BY <1>5, <1>8, <1>18, <1>20, <1>21 DEF Sends

\* seq is the start of an item that is not sacked, or the first byte of those
\* that were not sent.
Sendable(b, seq) ==
  \/ \E i \in Indices(b) : ~b.sent[i].sacked /\ seq = b.sent[i].start
  \/ seq = SentEnd(b) /\ b.unsent > 0

\* What TcpTxBuffer::CopyFromSequence sends is inside the data.
LEMMA CopyFits ==
  ASSUME NEW b, Fits(b), NEW seq, Sendable(b, seq), NEW n \in Nat \ {0}
  PROVE  LET len == PacketSize(b, n, seq)
             c == CopyFromSequence(b, n, seq)
         IN  /\ seq \in 1..Data /\ len \in 1..Data /\ seq + len \in 1..(Data + 1)
             /\ Sends(b, c)
             /\ SentEnd(c) = Larger(SentEnd(b), seq + len)
<1>1. /\ b.first \in Nat /\ b.first >= 1 /\ b.unsent \in Nat /\ SentEnd(b) \in Nat
      /\ b.first <= SentEnd(b) /\ SentEnd(b) + b.unsent = Data + 1 /\ b.sent \in Seq(Item)
      /\ Indices(b) = 1..Len(b.sent)
  BY FitsFacts
<1>0. PICK e \in Nat, f \in Nat, r \in Nat :
        e = SentEnd(b) /\ f = b.first /\ r = b.unsent /\ f >= 1 /\ f <= e /\ e + r = Data + 1
  BY <1>1
<1>11. Data \in Nat BY TcpRecoveryAssumption
<1>2. CASE \E i \in Indices(b) : ~b.sent[i].sacked /\ seq = b.sent[i].start
  <2>1. PICK i \in Indices(b) : ~b.sent[i].sacked /\ seq = b.sent[i].start BY <1>2
  <2>2. PICK len : len = PacketSize(b, n, seq) OBVIOUS
  <2>3. Part(b, i, len) /\ seq + len <= SentEnd(b) BY <2>1, <2>2, PacketSizeOfSent
  <2>4. ItemAt(b, seq) = i /\ b.first <= seq /\ seq < SentEnd(b) /\ seq \in Nat
    BY <1>1, <2>1, ItemAtFacts, ItemFacts
  <2>5. CopyFromSequence(b, n, seq) = GetTransmittedSegment(b, i, len)
    BY <1>1, <2>2, <2>4 DEF CopyFromSequence, Then
  <2>6. PICK c : c = CopyFromSequence(b, n, seq) OBVIOUS
  <2>7. Sends(b, c) /\ SentEnd(c) = SentEnd(b) BY <2>3, <2>5, <2>6, GetTransmittedSegmentFits
  <2>8. len \in Nat \ {0} BY <2>3 DEF Part
  <2>9. seq \in 1..Data /\ len \in 1..Data /\ seq + len \in 1..(Data + 1) /\ ~(e < seq + len)
        /\ (seq + len > e => seq + len = e)
    BY <1>0, <1>11, <2>3, <2>4, <2>8
  <2>10. SentEnd(c) = Larger(SentEnd(b), seq + len)
    <3>1. Larger(e, seq + len) = e BY <2>8, <2>4, <2>9 DEF Larger
    <3> QED BY <1>0, <2>7, <3>1
  <2> QED BY <2>2, <2>6, <2>7, <2>9, <2>10
<1>3. CASE seq = SentEnd(b) /\ b.unsent > 0
  <2>1. PICK len : len = PacketSize(b, n, seq) OBVIOUS
  <2>2. len = Smaller(n, r) /\ r > 0 /\ seq = e BY <1>0, <1>3, <2>1 DEF PacketSize
  <2>3. len \in Nat \ {0} /\ len <= r BY <2>2 DEF Smaller
  <2>4. CopyFromSequence(b, n, seq) = GetNewSegment(b, len)
    <3>1. seq >= SentEnd(b) BY <1>0, <2>2
    <3> QED BY <2>1, <3>1 DEF CopyFromSequence, Then
  <2>5. PICK c : c = CopyFromSequence(b, n, seq) OBVIOUS
  <2>6. Sends(b, c) /\ SentEnd(c) = SentEnd(b) + len BY <1>0, <2>3, <2>4, <2>5, GetNewSegmentFits
  <2>7. seq \in 1..Data /\ len \in 1..Data /\ seq + len \in 1..(Data + 1)
    BY <1>0, <1>11, <2>2, <2>3
  <2>8. SentEnd(c) = Larger(SentEnd(b), seq + len)
    <3>1. Larger(e, e + len) = e + len BY <2>3 DEF Larger
    <3> QED BY <1>0, <2>2, <2>6, <3>1
  <2> QED BY <2>1, <2>5, <2>6, <2>7, <2>8
<1> QED BY <1>2, <1>3 DEF Sendable

-----------------------------------------------------------------------------
\* What is sent next.

\* What NextSeg chooses can be sent, and it chooses if there is anything new.
LEMMA NextSegFacts ==
  ASSUME NEW b, Fits(b), NEW isRecovery
  PROVE  /\ NextSeg(b, isRecovery) # NoSeq => Sendable(b, NextSeg(b, isRecovery))
         /\ NextSeg(b, isRecovery) = NoSeq => b.unsent = 0
<1> DEFINE once == {i \in Indices(b) : ~b.sent[i].retrans /\ ~b.sent[i].sacked}
           lost == {i \in once : b.sent[i].lost}
<1>1. /\ b.sent \in Seq(Item) /\ Indices(b) = 1..Len(b.sent) /\ b.unsent \in Nat
      /\ SentEnd(b) \in Nat /\ b.first \in Nat /\ b.first >= 1 /\ b.first <= SentEnd(b)
  BY FitsFacts
<1>2. \A i \in Indices(b) : b.sent[i].start \in Nat /\ b.first <= b.sent[i].start
  BY <1>1, ItemFacts, ItemAtFacts
<1>3. ASSUME NEW i \in once PROVE Sendable(b, b.sent[i].start) /\ b.sent[i].start # NoSeq
  <2>1. b.sent[i].start >= 1 BY <1>1, <1>2
  <2> QED BY <2>1 DEF Sendable, NoSeq
<1>4. once \in SUBSET Nat /\ lost \in SUBSET Nat /\ lost \subseteq once BY <1>1
<1>5. CASE lost # {}
  <2>1. NextSeg(b, isRecovery) = b.sent[Min(lost)].start BY <1>5 DEF NextSeg
  <2>2. Min(lost) \in lost
    <3> HIDE DEF lost
    <3> QED BY <1>4, <1>5, MinFacts
  <2> QED BY <1>3, <2>1, <2>2
<1>6. CASE lost = {} /\ b.unsent > 0
  <2>1. NextSeg(b, isRecovery) = SentEnd(b) BY <1>6 DEF NextSeg
  <2>2. SentEnd(b) # NoSeq BY <1>1 DEF NoSeq
  <2> QED BY <1>6, <2>1, <2>2 DEF Sendable
<1>7. CASE lost = {} /\ ~(b.unsent > 0)
  <2>1. b.unsent = 0 BY <1>1, <1>7
  <2>2. CASE isRecovery /\ once # {}
    <3>1. NextSeg(b, isRecovery) = b.sent[Min(once)].start BY <1>7, <2>2 DEF NextSeg
    <3>2. Min(once) \in once
      <4> HIDE DEF once
      <4> QED BY <1>4, <2>2, MinFacts
    <3> QED BY <1>3, <3>1, <3>2
  <2>3. CASE ~(isRecovery /\ once # {})
    <3>1. NextSeg(b, isRecovery) = NoSeq BY <1>7, <2>3 DEF NextSeg
    <3> QED BY <2>1, <3>1
  <2> QED BY <2>2, <2>3
<1> QED BY <1>5, <1>6, <1>7

\* The head can be sent again as long as a byte is not acknowledged.
LEMMA HeadSendable ==
  ASSUME NEW b, Fits(b), b.first <= Data, b.unsent = 0
  PROVE  Sendable(b, b.first)
<1>1. /\ SentEnd(b) \in Nat /\ SentEnd(b) + 0 = Data + 1 /\ b.first \in Nat
  BY FitsFacts
<1>2. b.sent # <<>>
  <2> SUFFICES ASSUME b.sent = <<>> PROVE FALSE OBVIOUS
  <2>1. SentEnd(b) = b.first BY DEF SentEnd
  <2>2. Data \in Nat BY TcpRecoveryAssumption
  <2> QED BY <1>1, <2>1, <2>2
<1>3. 1 \in Indices(b) /\ b.sent[1].start = b.first /\ ~b.sent[1].sacked BY <1>2, HeadNotSacked
<1> QED BY <1>3 DEF Sendable

\* After a timeout nothing counts as in flight, and what is not acknowledged is
\* to be sent.
LEMMA NothingInFlight ==
  ASSUME NEW b, Fits(b), b.failed = {}
  PROVE  LET c == SetSentListLost(b)
         IN  /\ BytesInFlight(c) = 0
             /\ b.first <= Data => NextSeg(c, FALSE) # NoSeq
<1> DEFINE c == SetSentListLost(b)
<1>2. /\ Fits(c) /\ c.failed = {} /\ c.retrans = 0 /\ c.first = b.first
      /\ \A i \in Indices(c) : /\ ~c.sent[i].retrans
                               /\ c.sent[i].lost <=> ~c.sent[i].sacked
  <2>1. /\ Fits(c) /\ SameCut(b, c) /\ c.failed = {} /\ c.retrans = 0 /\ AllLost(c)
    BY SetSentListLostFits
  <2> HIDE DEF c
  <2> QED BY <2>1 DEF SameCut, AllLost
<1>3. /\ c \in Buffer /\ Contiguous(c) /\ c.sent \in Seq(Item) /\ Indices(c) = 1..Len(c.sent)
      /\ SentEnd(c) \in Nat /\ c.first \in Nat /\ c.first >= 1 /\ c.unsent \in Nat
      /\ SentEnd(c) + c.unsent = Data + 1
  BY <1>2, FitsFacts
<1> HIDE DEF c
<1> DEFINE A == {i \in Indices(c) : c.sent[i].sacked}
           L == {i \in Indices(c) : c.sent[i].lost}
<1>4. A \cap L = {} /\ A \cup L = Indices(c) BY <1>2
<1>5. c.sackedOut = SizeOf(c, A) /\ c.lostOut = SizeOf(c, L) BY <1>2, <1>3, BytesFacts DEF Fits, Consistent
<1> HIDE DEF A, L
<1>6. SizeOf(c, Indices(c)) = SentSize(c) BY <1>3, SizeOfAll
<1>7. SizeOf(c, A \cup L) = SizeOf(c, A) + SizeOf(c, L) BY <1>3, <1>4, SizeSplit
<1>8. PICK x \in Nat, y \in Nat : x = SizeOf(c, A) /\ y = SizeOf(c, L)
  <2>1. SizeOf(c, A) \in Nat /\ SizeOf(c, L) \in Nat BY <1>3, WeightsFacts
  <2> QED BY <2>1
<1>9. SentSize(c) = x + y /\ c.sackedOut = x /\ c.lostOut = y BY <1>4, <1>5, <1>6, <1>7, <1>8, Zenon
<1>10. (x + y) - (x + y) + 0 = 0 OBVIOUS
<1>11. BytesInFlight(c) = 0 BY <1>2, <1>9, <1>10, Zenon DEF BytesInFlight
<1>12. ASSUME b.first <= Data PROVE NextSeg(c, FALSE) # NoSeq
  <2> SUFFICES ASSUME NextSeg(c, FALSE) = NoSeq PROVE FALSE OBVIOUS
  <2>1. c.unsent = 0 BY <1>2, NextSegFacts
  <2>2. Sendable(c, c.first) BY <1>2, <1>12, <2>1, HeadSendable
  <2>3. ~(c.unsent > 0) BY <2>1
  <2>4. PICK i \in Indices(c) : ~c.sent[i].sacked BY <2>2, <2>3 DEF Sendable
  <2> DEFINE once == {j \in Indices(c) : ~c.sent[j].retrans /\ ~c.sent[j].sacked}
             lost == {j \in once : c.sent[j].lost}
  <2>5. i \in lost BY <1>2, <2>4
  <2>6. NextSeg(c, FALSE) = c.sent[Min(lost)].start BY <2>5 DEF NextSeg
  <2>7. lost \in SUBSET Nat /\ lost \subseteq Indices(c) BY <1>3
  <2> HIDE DEF lost, once
  <2>8. Min(lost) \in Indices(c) BY <2>5, <2>7, MinFacts
  <2>9. c.first <= c.sent[Min(lost)].start /\ c.sent[Min(lost)].start \in Nat
    BY <1>2, <1>3, <2>8, ItemAtFacts, ItemFacts
  <2>10. c.sent[Min(lost)].start # 0 BY <1>3, <2>9
  <2> QED BY <2>6, <2>10 DEF NoSeq
<1> QED BY <1>11, <1>12 DEF c

-----------------------------------------------------------------------------
\* The sender.

\* Every size a segment can have.
SizesSet == Sizes \cup {SendSize}

\* The assumptions on the constants.
LEMMA Constants ==
  /\ Data \in Nat \ {0} /\ SendSize \in Nat \ {0} /\ DataRetries \in Nat \ {0}
  /\ DelAckMax \in Nat \ {0} /\ Unbounded \in Nat \ {0}
  /\ SizesSet \subseteq Nat \ {0} /\ SendSize \in SizesSet /\ Sizes \subseteq SizesSet
  /\ Scenarios \subseteq Scenario
BY TcpRecoveryAssumption DEF SizesSet

\* The fields of the sender.
LEMMA SenderFacts ==
  ASSUME NEW s \in Sender
  PROVE  /\ s.buf \in Buffer /\ s.segmentSize \in SizesSet /\ s.segmentSize \in Nat \ {0}
         /\ s.cWnd \in Nat \ {0} /\ s.ssThresh \in Nat \ {0} /\ s.carry \in Nat
         /\ s.highTx \in 1..(Data + 1) /\ s.recover \in 0..(Data + 1)
         /\ s.congState \in {"OPEN", "DISORDER", "RECOVERY", "LOSS"} /\ s.dupAcks \in 0..3
         /\ s.firstPartial \in BOOLEAN /\ s.timer \in BOOLEAN /\ s.retries \in 0..DataRetries
         /\ s.gaveUp \in BOOLEAN /\ s.out \in Seq(Segment)
BY Constants DEF Sender, SizesSet, RetxThresh

\* What holds of the sender also within an event: out is inside what was sent.
Able(s) ==
  /\ s \in Sender /\ Fits(s.buf)
  /\ \A k \in 1..Len(s.out) : s.out[k].seq + s.out[k].len <= SentEnd(s.buf)

\* t comes from s by sending alone.
SendsOnly(s, t) ==
  /\ Sends(s.buf, t.buf)
  /\ t.congState = s.congState /\ t.recover = s.recover /\ t.dupAcks = s.dupAcks
  /\ t.gaveUp = s.gaveUp /\ t.timer

\* A segment is sent and the timer runs (TcpSocketBase::SendDataPacket).
LEMMA SendDataPacketFits ==
  ASSUME NEW s, Able(s), NEW seq, Sendable(s.buf, seq), NEW n \in Nat \ {0}, NEW size \in SizesSet
  PROVE  LET t == SendDataPacket(s, seq, n, size)
         IN  Able(t) /\ SendsOnly(s, t) /\ t.segmentSize = size
<1>1. s \in Sender /\ Fits(s.buf) BY DEF Able
<1>2. PICK len, c : len = PacketSize(s.buf, n, seq) /\ c = CopyFromSequence(s.buf, n, seq) OBVIOUS
<1>3. /\ seq \in 1..Data /\ len \in 1..Data /\ seq + len \in 1..(Data + 1)
      /\ Sends(s.buf, c) /\ SentEnd(c) = Larger(SentEnd(s.buf), seq + len)
  BY <1>1, <1>2, CopyFits
<1>4. SendDataPacket(s, seq, n, size) =
        [s EXCEPT !.buf = c, !.segmentSize = size, !.timer = TRUE,
                  !.highTx = Larger(@, seq + len),
                  !.out = Append(@, [seq |-> seq, len |-> len])]
  BY <1>2 DEF SendDataPacket, Then
<1>5. PICK t : t = SendDataPacket(s, seq, n, size) OBVIOUS
<1>6. PICK h : h = Larger(s.highTx, seq + len) OBVIOUS
<1>7. h \in 1..(Data + 1)
  <2>1. s.highTx \in 1..(Data + 1) BY <1>1, SenderFacts
  <2> QED BY <1>3, <1>6, <2>1 DEF Larger
<1> DEFINE m == [seq |-> seq, len |-> len]
           o == Append(s.out, m)
<1>8. m \in Segment /\ m.seq = seq /\ m.len = len BY <1>3 DEF Segment
<1>9. s.out \in Seq(Segment) /\ Len(s.out) \in Nat
  <2>1. s.out \in Seq(Segment) BY <1>1, SenderFacts
  <2> QED BY <2>1
<1> HIDE DEF m
<1>10. /\ o \in Seq(Segment) /\ Len(o) = Len(s.out) + 1 /\ o[Len(s.out) + 1] = m
       /\ \A k \in 1..Len(s.out) : o[k] = s.out[k]
  BY <1>8, <1>9
<1> HIDE DEF o
<1>11. t = [s EXCEPT !.buf = c, !.segmentSize = size, !.timer = TRUE, !.highTx = h, !.out = o]
  BY <1>4, <1>5, <1>6 DEF m, o
<1>12. Fits(c) /\ c \in Buffer /\ SentEnd(c) \in Nat /\ SentEnd(s.buf) \in Nat
  <2>1. Fits(c) BY <1>3 DEF Sends
  <2> QED BY <1>1, <2>1, FitsFacts
<1>13. size \in Sizes \cup {SendSize} BY DEF SizesSet
<1>14. t \in Sender BY <1>1, <1>7, <1>10, <1>11, <1>12, <1>13 DEF Sender
<1>15. /\ t.buf = c /\ t.segmentSize = size /\ t.timer /\ t.out = o
       /\ t.congState = s.congState /\ t.recover = s.recover /\ t.dupAcks = s.dupAcks
       /\ t.gaveUp = s.gaveUp
  BY <1>1, <1>11 DEF Sender
<1>16. ASSUME NEW k \in 1..Len(o) PROVE o[k].seq + o[k].len <= SentEnd(c)
  <2>1. SentEnd(s.buf) <= SentEnd(c) /\ seq + len <= SentEnd(c)
    BY <1>3, <1>12 DEF Larger
  <2>2. CASE k = Len(s.out) + 1 BY <1>8, <1>10, <2>1, <2>2
  <2>3. CASE k # Len(s.out) + 1
    <3>1. k \in 1..Len(s.out) BY <1>9, <1>10, <2>3
    <3>2. o[k] = s.out[k] /\ s.out[k] \in Segment BY <1>9, <1>10, <3>1
    <3>3. s.out[k].seq + s.out[k].len <= SentEnd(s.buf) BY <3>1 DEF Able
    <3>4. s.out[k].seq \in Nat /\ s.out[k].len \in Nat BY <3>2 DEF Segment
    <3> QED BY <1>12, <2>1, <3>2, <3>3, <3>4
  <2> QED BY <2>2, <2>3
<1>17. Able(t) BY <1>12, <1>14, <1>15, <1>16 DEF Able
<1> QED BY <1>3, <1>5, <1>15, <1>17 DEF SendsOnly

\* Quotient and remainder of naturals.
LEMMA Divided ==
  ASSUME NEW a \in Nat, NEW d \in Nat \ {0}
  PROVE  a \div d \in Nat /\ a % d \in Nat
OBVIOUS

\* The quotient of an integer.
LEMMA DividedInt ==
  ASSUME NEW a \in Int, NEW d \in Nat \ {0}
  PROVE  a \div d \in Int
OBVIOUS

\* The product of naturals.
LEMMA Product ==
  ASSUME NEW a \in Nat, NEW d \in Nat
  PROVE  a * d \in Nat /\ (a # 0 /\ d # 0 => a * d # 0)
OBVIOUS

\* What is in the buffer is all that is not acknowledged.
LEMMA SizeIs ==
  ASSUME NEW b, Fits(b)
  PROVE  /\ Size(b) = Data + 1 - b.first /\ Size(b) \in Nat /\ (Size(b) = 0 <=> b.first = Data + 1)
         /\ b.first \in 1..(Data + 1) /\ SentEnd(b) \in 1..(Data + 1)
<1>1. PICK e \in Nat, f \in Nat, r \in Nat :
        e = SentEnd(b) /\ f = b.first /\ r = b.unsent /\ f >= 1 /\ f <= e /\ e + r = Data + 1
  BY FitsFacts
<1>2. Data \in Nat BY Constants
<1>3. Size(b) = Larger(e + r - f, 0) BY <1>1 DEF Size, SizeFromSequence
<1>4. Size(b) = Data + 1 - f BY <1>1, <1>2, <1>3 DEF Larger
<1> QED BY <1>1, <1>2, <1>4

-----------------------------------------------------------------------------
\* Where a flow is cut whose segment size never changes.

\* Where the segments begin in a flow whose segment size never changes, and its end.
Edges ==
  {x \in 1..(Data + 1) : x = Data + 1 \/ \E k \in Nat : x = 1 + k * SendSize}

\* The edge behind an edge.
Succ(x) == Smaller(x + SendSize, Data + 1)

\* Products grow with a factor.
LEMMA ProductGrows ==
  ASSUME NEW z \in Nat, NEW k \in Nat, NEW l \in Nat, k < l
  PROVE  k * z + z <= l * z
<1>1. PICK d \in Nat : l = k + 1 + d
  <2>1. l - k - 1 \in Nat /\ l = k + 1 + (l - k - 1) OBVIOUS
  <2> QED BY <2>1
<1>2. PICK p \in Nat, q \in Nat, r \in Nat : p = k * z /\ q = d * z /\ r = l * z
  <2>1. k * z \in Nat /\ d * z \in Nat /\ l * z \in Nat BY Product
  <2> QED BY <2>1
<1>3. (k + 1 + d) * z = k * z + z + d * z OBVIOUS
<1>4. r = p + z + q BY <1>1, <1>2, <1>3
<1>5. p + z <= r BY <1>2, <1>4
<1> QED BY <1>2, <1>5

\* The first byte and the end are edges.
LEMMA EdgeFacts ==
  /\ 1 \in Edges /\ Data + 1 \in Edges /\ Edges \subseteq 1..(Data + 1)
  /\ \A e \in Edges : e # Data + 1 => e \in 1..Data
<1>1. PICK z \in Nat \ {0}, n \in Nat \ {0} : z = SendSize /\ n = Data BY Constants
<1>2. 1 = 1 + 0 * z BY <1>1
<1>3. 1 \in Edges BY <1>1, <1>2 DEF Edges
<1>4. Data + 1 \in Edges BY <1>1 DEF Edges
<1>5. Edges \subseteq 1..(Data + 1) BY DEF Edges
<1>6. ASSUME NEW e \in Edges, e # Data + 1 PROVE e \in 1..Data
  <2>1. e \in 1..(n + 1) /\ e # n + 1 BY <1>1, <1>5, <1>6
  <2> QED BY <1>1, <2>1
<1> QED BY <1>3, <1>4, <1>5, <1>6

\* An edge but the last has one behind it.
LEMMA SuccFacts ==
  ASSUME NEW e \in Edges, e # Data + 1
  PROVE  Succ(e) \in Edges /\ e < Succ(e) /\ Succ(e) <= Data + 1 /\ e \in Nat /\ Succ(e) \in Nat
         /\ Succ(e) <= e + SendSize /\ (Succ(e) # e + SendSize => Succ(e) = Data + 1)
<1>1. PICK z \in Nat \ {0}, n \in Nat \ {0} : z = SendSize /\ n = Data BY Constants
<1>2. PICK k \in Nat : e = 1 + k * z BY <1>1 DEF Edges
<1>3. e \in 1..n BY <1>1, EdgeFacts
<1>4. Succ(e) = Smaller(e + z, n + 1) BY <1>1 DEF Succ
<1>5. CASE e + z < n + 1
  <2>1. Succ(e) = e + z BY <1>4, <1>5 DEF Smaller
  <2>2. e + z \in 1..(n + 1) BY <1>1, <1>3, <1>5
  <2>3. PICK p \in Nat : p = k * z BY Product
  <2>4. (k + 1) * z = k * z + z OBVIOUS
  <2>5. (k + 1) * z = p + z BY <2>3, <2>4
  <2>6. e + z = 1 + (p + z) BY <1>2, <2>3, <1>1
  <2>7. e + z = 1 + (k + 1) * z BY <2>5, <2>6
  <2>8. k + 1 \in Nat OBVIOUS
  <2>9. e + z \in Edges BY <1>1, <2>2, <2>7, <2>8 DEF Edges
  <2>10. e < e + z /\ e + z <= n + 1 /\ e \in Nat /\ e + z \in Nat /\ e + z <= e + z BY <1>1, <1>3, <1>5
  <2> QED BY <1>1, <2>1, <2>9, <2>10
<1>6. CASE ~(e + z < n + 1)
  <2>1. Succ(e) = n + 1 BY <1>4, <1>6 DEF Smaller
  <2>2. e < n + 1 /\ n + 1 <= n + 1 /\ e \in Nat /\ n + 1 \in Nat /\ n + 1 <= e + z BY <1>1, <1>3, <1>6
  <2> QED BY <1>1, <2>1, <2>2, EdgeFacts
<1> QED BY <1>5, <1>6

\* Between an edge and the one behind it there is no other.
LEMMA EdgesApart ==
  ASSUME NEW e \in Edges, NEW f \in Edges, e < f
  PROVE  Succ(e) <= f /\ e # Data + 1
<1>1. PICK z \in Nat \ {0}, n \in Nat \ {0} : z = SendSize /\ n = Data BY Constants
<1>2. e \in 1..(n + 1) /\ f \in 1..(n + 1) BY <1>1, EdgeFacts
<1>3. e # n + 1 BY <1>2
<1>4. CASE f = n + 1
  <2>1. Succ(e) <= n + 1 BY <1>1, <1>3, SuccFacts
  <2> QED BY <1>1, <1>3, <1>4, <2>1
<1>5. CASE f # n + 1
  <2>1. PICK k \in Nat, l \in Nat : e = 1 + k * z /\ f = 1 + l * z BY <1>1, <1>3, <1>5 DEF Edges
  <2>2. PICK p \in Nat, q \in Nat : p = k * z /\ q = l * z
    <3>1. k * z \in Nat /\ l * z \in Nat BY Product
    <3> QED BY <3>1
  <2>3. k < l
    <3> SUFFICES ASSUME ~(k < l) PROVE FALSE OBVIOUS
    <3>1. CASE k = l BY <2>1, <3>1, <1>2
    <3>2. CASE k # l
      <4>1. l < k BY <3>2
      <4>2. l * z + z <= k * z BY <4>1, ProductGrows
      <4>3. q + z <= p BY <2>2, <4>2
      <4>4. e = 1 + p /\ f = 1 + q BY <2>1, <2>2
      <4> QED BY <1>1, <2>2, <4>3, <4>4
    <3> QED BY <3>1, <3>2
  <2>4. p + z <= q BY <2>2, <2>3, ProductGrows
  <2>5. e = 1 + p /\ f = 1 + q BY <2>1, <2>2
  <2>6. e + z <= f BY <2>2, <2>4, <2>5
  <2>7. Succ(e) <= e + z /\ Succ(e) \in Nat BY <1>1, <1>3, SuccFacts
  <2>8. Succ(e) <= f BY <1>1, <1>2, <2>6, <2>7
  <2> QED BY <1>1, <1>3, <2>8
<1> QED BY <1>4, <1>5

\* Every byte lies between an edge and the one behind it.
LEMMA EdgeBelow ==
  ASSUME NEW x \in 1..Data
  PROVE  \E e \in Edges : e # Data + 1 /\ e <= x /\ x < Succ(e)
<1> DEFINE S == {m \in Nat : m + 1 <= Data =>
                   \E e \in Edges : e # Data + 1 /\ e <= m + 1 /\ m + 1 < Succ(e)}
<1>1. PICK n \in Nat \ {0} : n = Data BY Constants
<1>2. 0 \in S
  <2>1. 1 \in Edges /\ 1 # Data + 1 BY <1>1, EdgeFacts
  <2>2. 1 < Succ(1) BY <2>1, SuccFacts
  <2> QED BY <2>1, <2>2
<1>3. ASSUME NEW m \in Nat, m \in S PROVE m + 1 \in S
  <2>1. SUFFICES ASSUME m + 1 + 1 <= Data
                 PROVE \E e \in Edges : e # Data + 1 /\ e <= m + 1 + 1 /\ m + 1 + 1 < Succ(e)
    OBVIOUS
  <2>2. m + 1 <= Data BY <1>1, <2>1
  <2>3. PICK e \in Edges : e # Data + 1 /\ e <= m + 1 /\ m + 1 < Succ(e) BY <1>3, <2>2
  <2> HIDE DEF S
  <2>4. Succ(e) \in Edges /\ e \in Nat /\ Succ(e) \in Nat BY <2>3, SuccFacts
  <2>5. CASE m + 1 + 1 < Succ(e)
    <3>1. e <= m + 1 + 1 BY <2>3, <2>4
    <3> QED BY <2>3, <2>5, <3>1
  <2>6. CASE ~(m + 1 + 1 < Succ(e))
    <3>1. Succ(e) = m + 1 + 1 BY <2>3, <2>4, <2>6
    <3>2. Succ(e) # Data + 1 BY <1>1, <2>1, <3>1
    <3>3. Succ(e) < Succ(Succ(e)) BY <2>4, <3>2, SuccFacts
    <3>4. Succ(e) <= m + 1 + 1 /\ m + 1 + 1 < Succ(Succ(e)) BY <3>1, <3>3
    <3> QED BY <2>4, <3>2, <3>4
  <2> QED BY <2>5, <2>6
<1> HIDE DEF S
<1>4. Nat \subseteq S BY <1>2, <1>3, Induction
<1>5. x - 1 \in Nat /\ (x - 1) + 1 = x /\ x <= Data BY <1>1
<1>6. x - 1 \in S BY <1>4, <1>5
<1> QED BY <1>5, <1>6 DEF S

\* From an edge up to the one behind it.
Cell(item) ==
  item.start \in Edges /\ item.start # Data + 1 /\ End(item) = Succ(item.start)

\* What the scoreboard is in a flow whose segment size never changes.
EvenBuffer(b) ==
  b.failed = {} /\ b.first \in Edges /\ \A i \in Indices(b) : Cell(b.sent[i])

\* Flags do not make a scoreboard uneven.
LEMMA SameCutEven ==
  ASSUME NEW b, NEW c, EvenBuffer(b), SameCut(b, c), c.failed = {}
  PROVE  EvenBuffer(c)
<1>1. Indices(c) = Indices(b) /\ c.first = b.first BY DEF SameCut, Indices
<1>2. ASSUME NEW i \in Indices(b) PROVE Cell(c.sent[i])
  <2>1. c.sent[i].start = b.sent[i].start /\ c.sent[i].len = b.sent[i].len BY DEF SameCut
  <2>2. Cell(b.sent[i]) BY DEF EvenBuffer
  <2> QED BY <2>1, <2>2 DEF Cell, End
<1> QED BY <1>1, <1>2 DEF EvenBuffer

\* The flags of the head neither.
LEMMA HeadChangedEven ==
  ASSUME NEW b, NEW c, HeadChanged(b, c)
  PROVE  EvenBuffer(b) => EvenBuffer(c)
BY SameCutEven DEF HeadChanged, EvenBuffer

\* What was sent ends at an edge.
LEMMA SentEndEdge ==
  ASSUME NEW b, Fits(b), EvenBuffer(b)
  PROVE  SentEnd(b) \in Edges
<1>1. b.sent \in Seq(Item) /\ Len(b.sent) \in Nat /\ Indices(b) = 1..Len(b.sent) BY FitsFacts
<1>2. CASE b.sent = <<>> BY <1>2 DEF SentEnd, EvenBuffer
<1>3. CASE b.sent # <<>>
  <2>1. Len(b.sent) \in Indices(b) BY <1>1, <1>3
  <2>2. Cell(b.sent[Len(b.sent)]) BY <2>1 DEF EvenBuffer
  <2>3. End(b.sent[Len(b.sent)]) \in Edges BY <2>2, SuccFacts DEF Cell
  <2> QED BY <1>3, <2>3 DEF SentEnd
<1> QED BY <1>2, <1>3

\* Up to an edge whole cells are discarded.
LEMMA DiscardUpToEven ==
  ASSUME NEW b, Fits(b), EvenBuffer(b), NEW seq \in Edges, seq <= SentEnd(b),
         seq \notin SackedBytes(b)
  PROVE  EvenBuffer(DiscardUpTo(b, seq))
<1>1. /\ b.sent \in Seq(Item) /\ Indices(b) = 1..Len(b.sent) /\ b.failed = {}
  BY FitsFacts DEF EvenBuffer
<1>2. PICK n \in Nat : n = Len(b.sent) BY FitsFacts
<1>3. seq \in Nat BY EdgeFacts
<1>4. PICK c : c = DiscardUpTo(b, seq) OBVIOUS
<1>5. /\ Fits(c) /\ c.failed = {}
      /\ c = b \/ (c.first = seq /\ \E m \in 1..(Len(b.sent) + 1) : Rest(b, c, seq, m))
  BY <1>1, <1>3, <1>4, DiscardUpToFits
<1>6. CASE c = b BY <1>4, <1>6
<1>7. CASE c.first = seq /\ \E m \in 1..(Len(b.sent) + 1) : Rest(b, c, seq, m)
  <2>1. PICK m \in 1..(n + 1) : Rest(b, c, seq, m) BY <1>2, <1>7
  <2>2. Indices(c) = 1..(n + 1 - m) BY <1>2, <2>1 DEF Rest, Indices
  <2>3. ASSUME NEW i \in Indices(c) PROVE Cell(c.sent[i])
    <3>1. PICK k \in Indices(b) : k = m - 1 + i /\ m <= k BY <1>1, <1>2, <2>2
    <3>2. /\ End(b.sent[k]) > seq /\ c.sent[i].start = Larger(b.sent[k].start, seq)
          /\ End(c.sent[i]) = End(b.sent[k])
      BY <2>1, <3>1 DEF Rest
    <3>3. Cell(b.sent[k]) BY DEF EvenBuffer
    <3>4. PICK e \in Edges : e = b.sent[k].start /\ e # Data + 1 /\ End(b.sent[k]) = Succ(e)
      BY <3>3 DEF Cell
    <3>5. e \in Nat /\ Succ(e) \in Nat BY <3>4, SuccFacts
    <3>6. ~(e < seq)
      <4> SUFFICES ASSUME e < seq PROVE FALSE OBVIOUS
      <4>1. Succ(e) <= seq BY EdgesApart
      <4> QED BY <1>3, <3>2, <3>4, <3>5, <4>1
    <3>7. Larger(e, seq) = e BY <1>3, <3>5, <3>6 DEF Larger
    <3> QED BY <3>2, <3>4, <3>7 DEF Cell
  <2> QED BY <1>4, <1>5, <1>7, <2>3 DEF EvenBuffer
<1> QED BY <1>5, <1>6, <1>7

\* A packet of the cell at seq, if n bytes are a whole segment or all that is left.
Takes(n, seq) == n <= SendSize /\ (n >= SendSize \/ n >= Data + 1 - seq)

\* The cell at an edge, and the bytes a segment takes of what follows.
LEMMA TakesCell ==
  ASSUME NEW e \in Edges, e # Data + 1, NEW n \in Nat \ {0}, Takes(n, e)
  PROVE  /\ Succ(e) - e \in Nat \ {0} /\ Succ(e) - e <= n
         /\ Succ(e) # Data + 1 => Succ(e) - e = n
         /\ Smaller(n, Data + 1 - e) = Succ(e) - e
<1>1. PICK z \in Nat \ {0}, d \in Nat \ {0} : z = SendSize /\ d = Data BY Constants
<1>2. PICK x \in Nat : x = e /\ x <= d BY <1>1, EdgeFacts
<1>3. n <= z /\ (n >= z \/ n >= d + 1 - x) BY <1>1, <1>2 DEF Takes
<1>4. Succ(e) = IF x + z < d + 1 THEN x + z ELSE d + 1 BY <1>1, <1>2 DEF Succ, Smaller
<1>5. Smaller(n, d + 1 - x) = IF n < d + 1 - x THEN n ELSE d + 1 - x BY DEF Smaller
<1> QED BY <1>1, <1>2, <1>3, <1>4, <1>5

\* The bytes of an item are sent again as a whole.
LEMMA ResendEven ==
  ASSUME NEW b, Fits(b), EvenBuffer(b), NEW i \in Indices(b), ~b.sent[i].sacked,
         NEW n \in Nat \ {0}, Takes(n, b.sent[i].start)
  PROVE  /\ PacketSize(b, n, b.sent[i].start) = b.sent[i].len
         /\ EvenBuffer(CopyFromSequence(b, n, b.sent[i].start))
<1>1. /\ b \in Buffer /\ Contiguous(b) /\ b.sent \in Seq(Item) /\ Indices(b) = 1..Len(b.sent)
      /\ Len(b.sent) \in Nat /\ SentEnd(b) \in Nat /\ b.failed = {}
  BY FitsFacts DEF EvenBuffer
<1>2. PICK s \in Nat, l \in Nat \ {0} :
        s = b.sent[i].start /\ l = b.sent[i].len /\ End(b.sent[i]) = s + l
  BY <1>1, ItemFacts
<1>3. ItemAt(b, s) = i /\ ~(s >= SentEnd(b)) /\ End(b.sent[i]) <= SentEnd(b)
  <2>1. ItemAt(b, s) = i /\ s < SentEnd(b) /\ End(b.sent[i]) <= SentEnd(b) BY <1>2, ItemAtFacts
  <2> QED BY <1>1, <1>2, <2>1
<1>4. s \in Edges /\ s # Data + 1 /\ Succ(s) = s + l BY <1>2 DEF EvenBuffer, Cell
<1>5. l <= n /\ (s + l # Data + 1 => l = n)
  <2>1. Takes(n, s) BY <1>2
  <2>2. Succ(s) - s <= n /\ (Succ(s) # Data + 1 => Succ(s) - s = n) BY <1>4, <2>1, TakesCell
  <2>3. (s + l) - s = l BY <1>2
  <2> QED BY <1>4, <2>2, <2>3
<1> DEFINE alone == i = Len(b.sent) \/ b.sent[i + 1].sacked
<1>6. PacketSize(b, n, s) = Smaller(n, b.sent[i].len + IF alone THEN 0 ELSE b.sent[i + 1].len)
  BY <1>3 DEF PacketSize
<1>7. PacketSize(b, n, s) = l
  <2>1. CASE alone
    <3>1. PacketSize(b, n, s) = Smaller(n, l + 0) BY <1>2, <1>6, <2>1
    <3>2. Smaller(n, l + 0) = l BY <1>2, <1>5 DEF Smaller
    <3> QED BY <3>1, <3>2
  <2>2. CASE ~alone
    <3>1. i # Len(b.sent) /\ i \in 1..Len(b.sent) BY <1>1, <2>2
    <3>2. i + 1 \in Indices(b) /\ i < i + 1 BY <1>1, <3>1
    <3>3. PICK t \in Nat, k \in Nat \ {0} :
            t = b.sent[i + 1].start /\ k = b.sent[i + 1].len /\ End(b.sent[i + 1]) = t + k
      <4>1. /\ b.sent[i + 1].start \in Nat /\ b.sent[i + 1].len \in Nat \ {0}
            /\ End(b.sent[i + 1]) = b.sent[i + 1].start + b.sent[i + 1].len
        BY <1>1, <3>2, ItemFacts
      <4> QED BY <4>1
    <3>4. End(b.sent[i]) <= b.sent[i + 1].start /\ End(b.sent[i + 1]) <= SentEnd(b)
      BY <1>1, <3>2, ItemsInOrder, ItemAtFacts
    <3>5. SentEnd(b) \in 1..(Data + 1) BY SizeIs
    <3>6. s + l # Data + 1
      <4>1. PICK d \in Nat, e \in Nat : d = Data /\ e = SentEnd(b) /\ e <= d + 1
        <5>1. Data \in Nat BY Constants
        <5>2. SentEnd(b) <= Data + 1 BY <3>5, <5>1
        <5> QED BY <1>1, <5>1, <5>2
      <4> QED BY <1>2, <3>3, <3>4, <4>1
    <3>7. l = n BY <1>5, <3>6
    <3>8. PacketSize(b, n, s) = Smaller(n, l + k) BY <1>2, <1>6, <2>2, <3>3
    <3>9. Smaller(n, l + k) = l BY <1>2, <3>3, <3>7 DEF Smaller
    <3> QED BY <3>8, <3>9
  <2> QED BY <2>1, <2>2
<1>8. CopyFromSequence(b, n, s) = GetTransmittedSegment(b, i, l)
  BY <1>3, <1>7 DEF CopyFromSequence, Then
<1>9. GetPacketFromList(b, i, l) = b
  <2>1. ~(l > b.sent[i].len) /\ ~(l < b.sent[i].len) BY <1>2
  <2> QED BY <2>1 DEF GetPacketFromList, Then
<1>10. GetTransmittedSegment(b, i, l) = Resent(b, i)
  <2>1. GetTransmittedSegment(b, i, l) = Fails(Resent(b, i), "copy sacked", b.sent[i].sacked)
    BY <1>9 DEF GetTransmittedSegment, Then, Resent
  <2> QED BY <2>1 DEF Fails
<1>11. PICK d : d = Resent(b, i) OBVIOUS
<1>12. SameCut(b, d) /\ d.failed = {} BY <1>1, <1>11, ResentFits
<1>13. EvenBuffer(d) BY <1>12, SameCutEven
<1> QED BY <1>2, <1>7, <1>8, <1>10, <1>11, <1>13

\* A new segment is a cell.
LEMMA GetNewSegmentEven ==
  ASSUME NEW b, Fits(b), EvenBuffer(b), SentEnd(b) # Data + 1
  PROVE  EvenBuffer(GetNewSegment(b, Succ(SentEnd(b)) - SentEnd(b)))
<1>1. /\ b \in Buffer /\ b.sent \in Seq(Item) /\ Indices(b) = 1..Len(b.sent)
  BY FitsFacts
<1>2. PICK n \in Nat : n = Len(b.sent) BY FitsFacts
<1>3. PICK e \in Edges : e = SentEnd(b) /\ e # Data + 1 BY SentEndEdge
<1>4. PICK l \in Nat \ {0} : l = Succ(e) - e /\ e + l = Succ(e)
  <2>1. Succ(e) - e \in Nat \ {0} /\ e + (Succ(e) - e) = Succ(e) BY <1>3, SuccFacts
  <2> QED BY <2>1
<1> DEFINE x == [start |-> e, len |-> l, lost |-> FALSE, retrans |-> FALSE, sacked |-> FALSE]
           q == Append(b.sent, x)
<1>5. x.start = e /\ x.len = l OBVIOUS
<1>6. Cell(x)
  <2> HIDE DEF x
  <2> QED BY <1>3, <1>4, <1>5 DEF Cell, End
<1>7. GetNewSegment(b, l) = [b EXCEPT !.sent = q, !.unsent = @ - l] BY <1>3 DEF GetNewSegment
<1> HIDE DEF x
<1>8. Len(q) = n + 1 /\ q[n + 1] = x /\ \A k \in 1..n : q[k] = b.sent[k] BY <1>1, <1>2
<1> HIDE DEF q
<1>9. PICK c : c = GetNewSegment(b, l) OBVIOUS
<1>10. c.sent = q /\ c.first = b.first /\ c.failed = b.failed BY <1>1, <1>7, <1>9 DEF Buffer
<1>11. Indices(c) = 1..(n + 1) BY <1>8, <1>10 DEF Indices
<1>12. ASSUME NEW k \in 1..(n + 1) PROVE Cell(c.sent[k])
  <2>1. CASE k = n + 1 BY <1>6, <1>8, <1>10, <2>1
  <2>2. CASE k # n + 1
    <3>1. k \in 1..n BY <2>2
    <3>2. Cell(b.sent[k]) BY <1>1, <1>2, <3>1 DEF EvenBuffer
    <3> QED BY <1>8, <1>10, <3>1, <3>2
  <2> QED BY <2>1, <2>2
<1>13. EvenBuffer(c) BY <1>10, <1>11, <1>12 DEF EvenBuffer
<1> QED BY <1>3, <1>4, <1>9, <1>13

\* What is sent of an even scoreboard is a cell.
LEMMA CopyEven ==
  ASSUME NEW b, Fits(b), EvenBuffer(b), NEW seq, Sendable(b, seq), NEW n \in Nat \ {0},
         Takes(n, seq)
  PROVE  /\ seq \in Edges /\ seq # Data + 1 /\ seq + PacketSize(b, n, seq) = Succ(seq)
         /\ EvenBuffer(CopyFromSequence(b, n, seq))
<1>1. /\ b.unsent \in Nat /\ SentEnd(b) \in Nat /\ SentEnd(b) + b.unsent = Data + 1
      /\ b.sent \in Seq(Item) /\ Indices(b) = 1..Len(b.sent)
  BY FitsFacts
<1>2. CASE \E i \in Indices(b) : ~b.sent[i].sacked /\ seq = b.sent[i].start
  <2>1. PICK i \in Indices(b) : ~b.sent[i].sacked /\ seq = b.sent[i].start BY <1>2
  <2>2. PacketSize(b, n, seq) = b.sent[i].len /\ EvenBuffer(CopyFromSequence(b, n, seq))
    BY <2>1, ResendEven
  <2>3. seq \in Edges /\ seq # Data + 1 /\ seq + b.sent[i].len = Succ(seq)
    BY <2>1 DEF EvenBuffer, Cell, End
  <2> QED BY <2>2, <2>3
<1>3. CASE seq = SentEnd(b) /\ b.unsent > 0
  <2>1. seq \in Edges /\ seq # Data + 1 /\ b.unsent = Data + 1 - seq /\ seq >= SentEnd(b)
    <3>1. seq \in Edges BY <1>3, SentEndEdge
    <3>2. PICK e \in Nat, r \in Nat : e = seq /\ r = b.unsent /\ e + r = Data + 1 /\ r > 0
      BY <1>1, <1>3
    <3>3. e # Data + 1 /\ r = Data + 1 - e /\ e >= e
      <4>1. PICK d \in Nat : d = Data BY Constants
      <4> QED BY <3>2, <4>1
    <3> QED BY <1>3, <3>1, <3>2, <3>3
  <2>2. PacketSize(b, n, seq) = Smaller(n, Data + 1 - seq) BY <2>1 DEF PacketSize
  <2>3. PacketSize(b, n, seq) = Succ(seq) - seq BY <2>1, <2>2, TakesCell
  <2>4. CopyFromSequence(b, n, seq) = GetNewSegment(b, Succ(seq) - seq)
    BY <2>1, <2>3 DEF CopyFromSequence, Then
  <2>5. EvenBuffer(GetNewSegment(b, Succ(seq) - seq)) BY <1>3, <2>1, GetNewSegmentEven
  <2>6. seq + (Succ(seq) - seq) = Succ(seq) BY <2>1, SuccFacts
  <2> QED BY <2>1, <2>3, <2>4, <2>5, <2>6
<1> QED BY <1>2, <1>3 DEF Sendable

-----------------------------------------------------------------------------
\* The sender in a flow whose segment size never changes.

\* A segment with a cell.
Piece(m) == m.seq \in Edges /\ m.seq # Data + 1 /\ m.seq + m.len = Succ(m.seq)

\* The size of the segments stands, and all that is cut follows it.
EvenSender(s) ==
  /\ s.segmentSize = SendSize
  /\ EvenBuffer(s.buf)
  /\ \A k \in 1..Len(s.out) : Piece(s.out[k])

\* What makes t of s cuts nothing else.
KeepsEven(s, t) == EvenSender(s) => EvenSender(t)

\* A segment with a cell is sent.
LEMMA SendDataPacketEven ==
  ASSUME NEW s, Able(s), NEW seq, Sendable(s.buf, seq), NEW n \in Nat \ {0}, Takes(n, seq)
  PROVE  KeepsEven(s, SendDataPacket(s, seq, n, SendSize))
<1> SUFFICES ASSUME EvenSender(s) PROVE EvenSender(SendDataPacket(s, seq, n, SendSize))
  BY DEF KeepsEven
<1>1. s \in Sender /\ Fits(s.buf) /\ EvenBuffer(s.buf) BY DEF Able, EvenSender
<1>2. PICK len, c : len = PacketSize(s.buf, n, seq) /\ c = CopyFromSequence(s.buf, n, seq) OBVIOUS
<1>3. seq \in Edges /\ seq # Data + 1 /\ seq + len = Succ(seq) /\ EvenBuffer(c)
  BY <1>1, <1>2, CopyEven
<1>4. len \in 1..Data /\ seq \in 1..Data BY <1>1, <1>2, CopyFits
<1> DEFINE m == [seq |-> seq, len |-> len]
           o == Append(s.out, m)
<1>5. Piece(m) BY <1>3 DEF Piece
<1>6. PICK t : t = SendDataPacket(s, seq, n, SendSize) OBVIOUS
<1>7. PICK h : h = Larger(s.highTx, seq + len) OBVIOUS
<1>8. t = [s EXCEPT !.buf = c, !.segmentSize = SendSize, !.timer = TRUE, !.highTx = h, !.out = o]
  BY <1>2, <1>6, <1>7 DEF SendDataPacket, Then
<1>9. m \in Segment BY <1>4 DEF Segment
<1>10. s.out \in Seq(Segment) BY <1>1, SenderFacts
<1> HIDE DEF m
<1>11. /\ Len(o) = Len(s.out) + 1 /\ o[Len(s.out) + 1] = m /\ Len(s.out) \in Nat
       /\ \A k \in 1..Len(s.out) : o[k] = s.out[k]
  BY <1>9, <1>10
<1> HIDE DEF o
<1>12. t.buf = c /\ t.segmentSize = SendSize /\ t.out = o BY <1>1, <1>8 DEF Sender
<1>13. ASSUME NEW k \in 1..Len(o) PROVE Piece(o[k])
  <2>1. CASE k = Len(s.out) + 1 BY <1>5, <1>11, <2>1
  <2>2. CASE k # Len(s.out) + 1
    <3>1. k \in 1..Len(s.out) BY <1>11, <2>2
    <3>2. Piece(s.out[k]) BY <3>1 DEF EvenSender
    <3> QED BY <1>11, <3>1, <3>2
  <2> QED BY <2>1, <2>2
<1> QED BY <1>3, <1>6, <1>12, <1>13 DEF EvenSender

-----------------------------------------------------------------------------
\* The parts of an event of the sender.

\* Nothing sent.
LEMMA SendsRefl ==
  ASSUME NEW b, Fits(b)
  PROVE  Sends(b, b)
<1>1. SentEnd(b) \in Nat BY FitsFacts
<1>2. SentEnd(b) <= SentEnd(b) BY <1>1
<1> QED BY <1>2 DEF Sends

\* First from b to c, then from c to d.
LEMMA SendsTrans ==
  ASSUME NEW b, NEW c, NEW d, Fits(b), Sends(b, c), Sends(c, d)
  PROVE  Sends(b, d)
<1>1. Fits(c) /\ Fits(d) BY DEF Sends
<1>2. SentEnd(b) \in Nat /\ SentEnd(c) \in Nat /\ SentEnd(d) \in Nat BY <1>1, FitsFacts
<1>3. SentEnd(b) <= SentEnd(d) BY <1>2 DEF Sends
<1> QED BY <1>1, <1>3 DEF Sends

\* A change of the head's flags discards nothing.
LEMMA HeadChangedSends ==
  ASSUME NEW b, NEW c, Fits(b), Fits(c), HeadChanged(b, c)
  PROVE  Sends(b, c) /\ SentEnd(c) = SentEnd(b)
<1>1. c \in Buffer /\ Laid(b) /\ SameCut(b, c) BY FitsFacts DEF HeadChanged
<1>2. SentEnd(c) = SentEnd(b) BY <1>1, SameCutLaid
<1>3. SentEnd(b) \in Nat BY FitsFacts
<1>4. SentEnd(b) <= SentEnd(c) BY <1>2, <1>3
<1> QED BY <1>1, <1>2, <1>4 DEF Sends, HeadChanged, SameCut

\* The buffer alone changes.
LEMMA AbleWithBuffer ==
  ASSUME NEW s, Able(s), NEW c, Sends(s.buf, c)
  PROVE  LET t == [s EXCEPT !.buf = c]
         IN  /\ Able(t) /\ t.buf = c /\ t.segmentSize = s.segmentSize /\ t.timer = s.timer
             /\ t.congState = s.congState /\ t.recover = s.recover /\ t.dupAcks = s.dupAcks
             /\ t.gaveUp = s.gaveUp /\ ((EvenBuffer(s.buf) => EvenBuffer(c)) => KeepsEven(s, t))
<1> DEFINE t == [s EXCEPT !.buf = c]
<1>1. s \in Sender /\ Fits(s.buf) /\ Fits(c) BY DEF Able, Sends
<1>2. c \in Buffer /\ SentEnd(c) \in Nat /\ SentEnd(s.buf) \in Nat BY <1>1, FitsFacts
<1>3. t \in Sender BY <1>1, <1>2 DEF Sender
<1>4. /\ t.buf = c /\ t.segmentSize = s.segmentSize /\ t.timer = s.timer /\ t.out = s.out
      /\ t.congState = s.congState /\ t.recover = s.recover /\ t.dupAcks = s.dupAcks
      /\ t.gaveUp = s.gaveUp
  BY <1>1 DEF Sender
<1> HIDE DEF t
<1>5. ASSUME NEW k \in 1..Len(s.out) PROVE s.out[k].seq + s.out[k].len <= SentEnd(c)
  <2>1. s.out \in Seq(Segment) BY <1>1, SenderFacts
  <2>2. s.out[k] \in Segment BY <2>1
  <2>3. s.out[k].seq \in Nat /\ s.out[k].len \in Nat BY <2>2 DEF Segment
  <2>4. s.out[k].seq + s.out[k].len <= SentEnd(s.buf) BY DEF Able
  <2>5. SentEnd(s.buf) <= SentEnd(c) BY DEF Sends
  <2> QED BY <1>2, <2>3, <2>4, <2>5
<1>6. Able(t) BY <1>1, <1>3, <1>4, <1>5 DEF Able
<1>7. (EvenBuffer(s.buf) => EvenBuffer(c)) => KeepsEven(s, t) BY <1>4 DEF KeepsEven, EvenSender
<1> QED BY <1>4, <1>6, <1>7 DEF t

\* The numbers of a sender change, not its segment size, its buffer and what it sent.
SameBuffer(s, t) ==
  t \in Sender /\ t.buf = s.buf /\ t.out = s.out /\ t.segmentSize = s.segmentSize

\* Numbers alone change: the sender is able as before.
LEMMA AbleWithSameBuffer ==
  ASSUME NEW s, NEW t, Able(s), SameBuffer(s, t)
  PROVE  Able(t) /\ Sends(s.buf, t.buf) /\ KeepsEven(s, t)
<1>1. Fits(s.buf) BY DEF Able
<1>2. KeepsEven(s, t) BY DEF KeepsEven, EvenSender, SameBuffer
<1> QED BY <1>1, <1>2, SendsRefl DEF Able, SameBuffer

\* The threshold is a positive number of bytes.
LEMMA GetSsThreshType ==
  ASSUME NEW s \in Sender, NEW x \in Int
  PROVE  GetSsThresh(s, x) \in Nat \ {0}
<1>1. PICK z \in Nat \ {0} : z = s.segmentSize BY SenderFacts
<1>2. x \div z \in Int BY <1>1, DividedInt
<1>3. PICK p \in Int : p = (x \div z) * 7 BY <1>2
<1>4. p \div 10 \in Int BY DividedInt
<1>5. PICK r \in Nat : r = Larger(p \div 10, 2) /\ r # 0 BY <1>4 DEF Larger
<1>6. r * z \in Nat /\ r * z # 0 BY <1>5, Product
<1>7. GetSsThresh(s, x) = r * z BY <1>1, <1>3, <1>5 DEF GetSsThresh
<1> QED BY <1>6, <1>7

\* The head is sent again (TcpSocketBase::DoRetransmit).
LEMMA DoRetransmitFits ==
  ASSUME NEW s, Able(s), s.buf.first <= Data, NEW size \in SizesSet
  PROVE  LET t == DoRetransmit(s, size)
         IN  /\ Able(t) /\ SendsOnly(s, t) /\ t.segmentSize = size
             /\ size = SendSize => KeepsEven(s, t)
<1>1. s \in Sender /\ Fits(s.buf) /\ s.segmentSize \in Nat \ {0} BY SenderFacts DEF Able
<1>2. PICK next : next = NextSeg(s.buf, FALSE) OBVIOUS
<1>3. PICK seq : seq = IF next = NoSeq THEN s.buf.first ELSE next OBVIOUS
<1>4. DoRetransmit(s, size) = SendDataPacket(s, seq, s.segmentSize, size)
  BY <1>2, <1>3 DEF DoRetransmit, Then
<1>5. Sendable(s.buf, seq)
  <2>1. CASE next = NoSeq
    <3>1. s.buf.unsent = 0 BY <1>1, <1>2, <2>1, NextSegFacts
    <3> QED BY <1>1, <1>3, <2>1, <3>1, HeadSendable
  <2>2. CASE next # NoSeq BY <1>1, <1>2, <1>3, <2>2, NextSegFacts
  <2> QED BY <2>1, <2>2
<1>6. ASSUME size = SendSize, EvenSender(s) PROVE EvenSender(DoRetransmit(s, size))
  <2>1. s.segmentSize = SendSize BY <1>6 DEF EvenSender
  <2>2. Takes(s.segmentSize, seq) BY <2>1, Constants DEF Takes
  <2>3. KeepsEven(s, SendDataPacket(s, seq, s.segmentSize, SendSize))
    BY <1>1, <1>5, <2>2, SendDataPacketEven
  <2> QED BY <1>4, <1>6, <2>3 DEF KeepsEven
<1>7. size = SendSize => KeepsEven(s, DoRetransmit(s, size)) BY <1>6 DEF KeepsEven
<1> QED BY <1>1, <1>4, <1>5, <1>7, SendDataPacketFits

\* The bytes in flight are a number.
LEMMA BytesInFlightType ==
  ASSUME NEW b, Fits(b)
  PROVE  BytesInFlight(b) \in Int
<1>1. PICK e \in Nat, f \in Nat, x \in Int, y \in Int, z \in Int :
        /\ e = SentEnd(b) /\ f = b.first /\ x = b.sackedOut /\ y = b.lostOut /\ z = b.retrans
  BY FitsFacts
<1>2. BytesInFlight(b) = (e - f) - (x + y) + z BY <1>1 DEF BytesInFlight, SentSize
<1> QED BY <1>2

\* What decides on a recovery: outside it the duplicates are below the
\* threshold, and no byte that was sent before the last one is unacknowledged.
Counted(s) ==
  /\ s.congState # "RECOVERY" => s.dupAcks < RetxThresh
  /\ s.congState \in {"OPEN", "DISORDER"} => s.recover <= s.buf.first

\* A part of an event, with segments of that size after it, leaves the sender able
\* to go on.
Continues(s, t, size) ==
  /\ Able(t) /\ Sends(s.buf, t.buf) /\ t.gaveUp = s.gaveUp
  /\ size = SendSize => KeepsEven(s, t)

\* The sender enters recovery (TcpSocketBase::EnterRecovery).
LEMMA EnterRecoveryFits ==
  ASSUME NEW s, Able(s), s.buf.first <= Data, NEW size \in SizesSet
  PROVE  LET t == EnterRecovery(s, size)
         IN  Continues(s, t, size) /\ t.timer /\ t.congState = "RECOVERY"
<1>1. s \in Sender /\ Fits(s.buf) BY DEF Able
<1>2. PICK b : b = IF IsLost(s.buf, s.buf.first) THEN s.buf ELSE MarkHeadAsLost(s.buf) OBVIOUS
<1>3. Sends(s.buf, b)
  <2>1. CASE IsLost(s.buf, s.buf.first) BY <1>1, <1>2, <2>1, SendsRefl
  <2>2. CASE ~IsLost(s.buf, s.buf.first)
    <3>1. b = MarkHeadAsLost(s.buf) BY <1>2, <2>2
    <3>2. Fits(b) /\ HeadChanged(s.buf, b) BY <1>1, <3>1, MarkHeadAsLostFits
    <3> QED BY <1>1, <3>2, HeadChangedSends
  <2> QED BY <2>1, <2>2
<1>14. EvenBuffer(s.buf) => EvenBuffer(b)
  <2>1. CASE IsLost(s.buf, s.buf.first) BY <1>2, <2>1
  <2>2. CASE ~IsLost(s.buf, s.buf.first)
    <3>1. b = MarkHeadAsLost(s.buf) BY <1>2, <2>2
    <3>2. HeadChanged(s.buf, b) BY <1>1, <3>1, MarkHeadAsLostFits
    <3> QED BY <3>2, HeadChangedEven
  <2> QED BY <2>1, <2>2
<1>4. Fits(b) /\ b.first = s.buf.first BY <1>3 DEF Sends
<1>5. PICK g : g = GetSsThresh(s, BytesInFlight(b)) OBVIOUS
<1>6. g \in Nat \ {0} BY <1>1, <1>4, <1>5, BytesInFlightType, GetSsThreshType
<1> DEFINE u == [s EXCEPT !.buf = b]
           v == [s EXCEPT !.buf = b, !.recover = s.highTx, !.congState = "RECOVERY",
                          !.ssThresh = g, !.cWnd = g]
<1>7. Able(u) /\ u.buf = b /\ u.gaveUp = s.gaveUp /\ KeepsEven(s, u)
  BY <1>3, <1>14, AbleWithBuffer
<1>8. SameBuffer(u, v) /\ v.congState = "RECOVERY" /\ v.gaveUp = s.gaveUp
  <2>1. b \in Buffer BY <1>4, FitsFacts
  <2>2. s.highTx \in 0..(Data + 1)
    <3>1. s.highTx \in 1..(Data + 1) BY <1>1, SenderFacts
    <3>2. Data \in Nat BY Constants
    <3> QED BY <3>1, <3>2
  <2>3. v \in Sender BY <1>1, <1>6, <2>1, <2>2 DEF Sender
  <2>4. /\ v.buf = u.buf /\ v.out = u.out /\ v.congState = "RECOVERY" /\ v.gaveUp = s.gaveUp
        /\ v.segmentSize = u.segmentSize
    BY <1>1 DEF Sender
  <2> HIDE DEF u, v
  <2> QED BY <2>3, <2>4 DEF SameBuffer
<1>9. EnterRecovery(s, size) = DoRetransmit(v, size) BY <1>2, <1>5 DEF EnterRecovery, Then
<1> HIDE DEF u, v
<1>10. Able(v) /\ v.buf = b /\ KeepsEven(u, v) BY <1>7, <1>8, AbleWithSameBuffer DEF SameBuffer
<1>11. PICK t : t = DoRetransmit(v, size) OBVIOUS
<1>12. Able(t) /\ SendsOnly(v, t) /\ (size = SendSize => KeepsEven(v, t))
  <2>1. v.buf.first <= Data BY <1>4, <1>10
  <2> QED BY <1>10, <1>11, <2>1, DoRetransmitFits
<1>13. Sends(s.buf, t.buf)
  <2>1. Sends(b, t.buf) BY <1>10, <1>12 DEF SendsOnly
  <2> QED BY <1>1, <1>3, <2>1, SendsTrans
<1>15. size = SendSize => KeepsEven(s, t) BY <1>7, <1>10, <1>12 DEF KeepsEven
<1> QED BY <1>8, <1>9, <1>11, <1>12, <1>13, <1>15 DEF Continues, SendsOnly

\* A duplicate acknowledgement is processed (TcpSocketBase::DupAck).
LEMMA DupAckFits ==
  ASSUME NEW s, Able(s), Counted(s), s.buf.first <= Data, NEW size \in SizesSet
  PROVE  LET t == DupAck(s, size)
         IN  Continues(s, t, size) /\ Counted(t) /\ (s.timer => t.timer)
<1>1. s \in Sender /\ Fits(s.buf) BY DEF Able
<1>2. CASE s.congState \in {"LOSS", "RECOVERY"}
  <2>1. DupAck(s, size) = s BY <1>2 DEF DupAck
  <2> QED BY <1>1, <2>1, SendsRefl DEF Continues, KeepsEven
<1>3. CASE s.congState \notin {"LOSS", "RECOVERY"}
  <2>1. s.congState \in {"OPEN", "DISORDER"} BY <1>1, <1>3, SenderFacts
  <2>0. PICK u : u = [s EXCEPT !.dupAcks = @ + 1, !.congState = "DISORDER"] OBVIOUS
  <2> DEFINE enter == \/ u.dupAcks = RetxThresh /\ s.buf.first >= s.recover
                      \/ IsLost(s.buf, s.buf.first + s.segmentSize)
  <2>2. enter => DupAck(s, size) = EnterRecovery(u, size)
    <3> SUFFICES ASSUME enter PROVE DupAck(s, size) = EnterRecovery(u, size) OBVIOUS
    <3> QED BY <1>3, <2>0 DEF DupAck, Then
  <2>10. ~enter => DupAck(s, size) = u
    <3> SUFFICES ASSUME ~enter PROVE DupAck(s, size) = u OBVIOUS
    <3> QED BY <1>3, <2>0 DEF DupAck, Then
  <2>3. PICK d \in Nat : d = s.dupAcks /\ d < 3
    <3>1. s.dupAcks \in 0..3 /\ s.dupAcks < 3 BY <1>1, <2>1, SenderFacts DEF Counted, RetxThresh
    <3> QED BY <3>1
  <2>4. d + 1 \in 0..RetxThresh BY <2>3 DEF RetxThresh
  <2>5. u = [s EXCEPT !.dupAcks = d + 1, !.congState = "DISORDER"] BY <1>1, <2>0, <2>3 DEF Sender
  <2>6. /\ SameBuffer(s, u) /\ u.congState = "DISORDER" /\ u.dupAcks = d + 1 /\ u.gaveUp = s.gaveUp
        /\ u.recover = s.recover /\ u.timer = s.timer
    BY <1>1, <2>4, <2>5 DEF Sender, SameBuffer
  <2>7. Able(u) /\ Sends(s.buf, u.buf) /\ u.buf = s.buf /\ KeepsEven(s, u)
    BY <2>6, AbleWithSameBuffer DEF SameBuffer
  <2>8. CASE enter
    <3>1. PICK t : t = EnterRecovery(u, size) OBVIOUS
    <3>2. Continues(u, t, size) /\ t.timer /\ t.congState = "RECOVERY" BY <2>7, <3>1, EnterRecoveryFits
    <3>3. Continues(s, t, size) BY <2>6, <2>7, <3>2 DEF Continues, KeepsEven
    <3>4. Counted(t) BY <3>2 DEF Counted
    <3> QED BY <2>2, <2>8, <3>1, <3>2, <3>3, <3>4
  <2>9. CASE ~enter
    <3>1. s.recover <= s.buf.first BY <2>1 DEF Counted
    <3>2. s.buf.first >= s.recover
      <4>1. s.buf.first \in Nat /\ s.recover \in 0..(Data + 1) BY <1>1, SenderFacts, FitsFacts
      <4> QED BY <3>1, <4>1
    <3>3. d + 1 < 3 BY <2>3, <2>6, <2>9, <3>2 DEF RetxThresh
    <3>4. Counted(u) BY <2>6, <2>7, <3>1, <3>3 DEF Counted, RetxThresh
    <3> QED BY <2>10, <2>6, <2>7, <2>9, <3>4 DEF Continues
  <2> QED BY <2>8, <2>9
<1> QED BY <1>2, <1>3

\* The fields that decide on a recovery.
SameState(s, t) ==
  /\ t.congState = s.congState /\ t.recover = s.recover /\ t.dupAcks = s.dupAcks
  /\ t.gaveUp = s.gaveUp

\* The timer runs unless all is acknowledged.
Watched(s) == s.timer \/ Size(s.buf) = 0

\* The window grows, and nothing else.
LEMMA IncreaseWindowFits ==
  ASSUME NEW s \in Sender, NEW segments \in Nat, NEW grows \in BOOLEAN
  PROVE  LET t == IncreaseWindow(s, segments, grows)
         IN  SameBuffer(s, t) /\ SameState(s, t) /\ t.timer = s.timer
<1>1. PICK z \in Nat, w \in Nat \ {0} : z = s.segmentSize /\ w = s.cWnd BY SenderFacts
<1>2. PICK g : g = w + IF s.cWnd < s.ssThresh THEN segments * z
                       ELSE IF segments > 0 /\ grows THEN z ELSE 0
  OBVIOUS
<1>3. segments * z \in Nat BY <1>1, Product
<1>4. g \in Nat \ {0}
  <2>1. PICK p \in Nat : p = segments * z BY <1>3
  <2>2. g = w + IF s.cWnd < s.ssThresh THEN p ELSE IF segments > 0 /\ grows THEN z ELSE 0
    BY <1>2, <2>1
  <2>3. CASE s.cWnd < s.ssThresh BY <1>1, <2>1, <2>2, <2>3
  <2>4. CASE ~(s.cWnd < s.ssThresh) /\ segments > 0 /\ grows BY <1>1, <2>2, <2>4
  <2>5. CASE ~(s.cWnd < s.ssThresh) /\ ~(segments > 0 /\ grows)
    <3>1. g = w + 0 BY <2>2, <2>5
    <3> QED BY <1>1, <3>1
  <2> QED BY <2>3, <2>4, <2>5
<1>5. IncreaseWindow(s, segments, grows) = [s EXCEPT !.cWnd = g]
  BY <1>1, <1>2 DEF IncreaseWindow, Sender
<1> QED BY <1>4, <1>5 DEF Sender, SameBuffer, SameState

\* The timer is set again or stopped (TcpSocketBase::NewAck).
LEMMA NewAckFits ==
  ASSUME NEW s, Able(s), NEW resetRTO \in BOOLEAN
  PROVE  LET t == NewAck(s, resetRTO)
         IN  /\ SameBuffer(s, t) /\ SameState(s, t)
             /\ s.timer \/ resetRTO => Watched(t)
<1>1. s \in Sender /\ Fits(s.buf) BY DEF Able
<1>2. Size(s.buf) \in Nat BY <1>1, SizeIs
<1>3. PICK r \in BOOLEAN : r <=> (s.timer \/ resetRTO) /\ Size(s.buf) > 0
  <2>1. ((s.timer \/ resetRTO) /\ Size(s.buf) > 0) \in BOOLEAN OBVIOUS
  <2> QED BY <2>1
<1>4. r = ((s.timer \/ resetRTO) /\ Size(s.buf) > 0)
  BY <1>3
<1>5. NewAck(s, resetRTO) = [s EXCEPT !.retries = DataRetries, !.timer = r] BY <1>4 DEF NewAck
<1>6. DataRetries \in 0..DataRetries BY Constants
<1>7. PICK t : t = NewAck(s, resetRTO) OBVIOUS
<1>8. SameBuffer(s, t) /\ SameState(s, t) /\ t.timer = r
  <2>1. t = [s EXCEPT !.retries = DataRetries, !.timer = r] BY <1>5, <1>7
  <2>2. t \in Sender BY <1>1, <1>3, <1>6, <2>1 DEF Sender
  <2>3. t.buf = s.buf /\ t.out = s.out /\ t.segmentSize = s.segmentSize /\ t.timer = r
    BY <1>1, <2>1 DEF Sender
  <2>4. SameState(s, t) BY <1>1, <2>1 DEF Sender, SameState
  <2> QED BY <2>2, <2>3, <2>4 DEF SameBuffer
<1>9. ASSUME s.timer \/ resetRTO PROVE Watched(t)
  <2>1. t.buf = s.buf BY <1>8 DEF SameBuffer
  <2>2. CASE Size(s.buf) > 0
    <3>1. r BY <1>3, <1>9, <2>2
    <3> QED BY <1>8, <3>1 DEF Watched
  <2>3. CASE ~(Size(s.buf) > 0)
    <3>1. Size(s.buf) = 0 BY <1>2, <2>3
    <3> QED BY <2>1, <3>1 DEF Watched
  <2> QED BY <2>2, <2>3
<1> QED BY <1>7, <1>8, <1>9

\* A part of what is to be recovered is acknowledged.
LEMMA PartialAckFits ==
  ASSUME NEW s, Able(s), s.buf.first <= Data, NEW size \in SizesSet
  PROVE  LET t == PartialAck(s, size)
         IN  Continues(s, t, size) /\ Watched(t) /\ t.congState = s.congState
<1>1. s \in Sender /\ Fits(s.buf) /\ s.firstPartial \in BOOLEAN BY SenderFacts DEF Able
<1>2. PICK b : b = DeleteRetransmittedFlagFromHead(s.buf) OBVIOUS
<1>3. Sends(s.buf, b) /\ (EvenBuffer(s.buf) => EvenBuffer(b))
  <2>1. Fits(b) /\ HeadChanged(s.buf, b) BY <1>1, <1>2, DeleteRetransmittedFits
  <2> QED BY <1>1, <2>1, HeadChangedSends, HeadChangedEven
<1>4. PICK t : t = [s EXCEPT !.buf = b] OBVIOUS
<1>5. Able(t) /\ t.buf = b /\ t.congState = s.congState /\ t.gaveUp = s.gaveUp /\ KeepsEven(s, t)
  BY <1>3, <1>4, AbleWithBuffer
<1>6. PICK u : u = DoRetransmit(t, size) OBVIOUS
<1>7. Able(u) /\ SendsOnly(t, u) /\ (size = SendSize => KeepsEven(t, u))
  <2>1. t.buf.first <= Data BY <1>3, <1>5 DEF Sends
  <2> QED BY <1>5, <1>6, <2>1, DoRetransmitFits
<1>8. PICK v : v = NewAck(u, s.firstPartial) OBVIOUS
<1>9. SameBuffer(u, v) /\ SameState(u, v) /\ Watched(v)
  <2>1. u.timer BY <1>7 DEF SendsOnly
  <2>2. /\ SameBuffer(u, v) /\ SameState(u, v)
        /\ u.timer \/ s.firstPartial => Watched(v)
    BY <1>1, <1>7, <1>8, NewAckFits
  <2> QED BY <2>1, <2>2
<1>10. PICK w : w = [v EXCEPT !.firstPartial = FALSE] OBVIOUS
<1>11. PartialAck(s, size) = w
  <2>1. PartialAck(s, size) = [NewAck(DoRetransmit([s EXCEPT !.buf = DeleteRetransmittedFlagFromHead(s.buf)], size), s.firstPartial) EXCEPT !.firstPartial = FALSE]
    BY DEF PartialAck, Then
  <2> QED BY <1>2, <1>4, <1>6, <1>8, <1>10, <2>1
<1>12. SameBuffer(v, w) /\ SameState(v, w) /\ w.timer = v.timer
  <2>1. v \in Sender BY <1>9 DEF SameBuffer
  <2> QED BY <1>10, <2>1 DEF Sender, SameBuffer, SameState
<1>13. w.buf = u.buf /\ w.out = u.out /\ w \in Sender /\ w.segmentSize = u.segmentSize
  BY <1>9, <1>12 DEF SameBuffer
<1>14. Able(w) /\ KeepsEven(u, w)
  <2>1. SameBuffer(u, w) BY <1>13 DEF SameBuffer
  <2> QED BY <1>7, <2>1, AbleWithSameBuffer
<1>15. Sends(s.buf, w.buf)
  <2>1. Sends(b, u.buf) BY <1>5, <1>7 DEF SendsOnly
  <2>2. Sends(s.buf, u.buf) BY <1>1, <1>3, <2>1, SendsTrans
  <2> QED BY <1>13, <2>2
<1>16. w.congState = s.congState /\ w.gaveUp = s.gaveUp
  BY <1>5, <1>7, <1>9, <1>12 DEF SendsOnly, SameState
<1>17. Watched(w) BY <1>9, <1>12 DEF Watched, SameBuffer
<1>18. size = SendSize => KeepsEven(s, w) BY <1>5, <1>7, <1>14 DEF KeepsEven
<1> QED BY <1>11, <1>14, <1>15, <1>16, <1>17, <1>18 DEF Continues

\* All that is to be recovered is acknowledged.
LEMMA FullAckFits ==
  ASSUME NEW s, Able(s), Counted(s), NEW segments \in Nat, NEW isDupack \in BOOLEAN,
         NEW size, NEW grows \in BOOLEAN,
         s.congState \in {"RECOVERY", "LOSS"} => s.recover <= s.buf.first
  PROVE  LET t == FullAck(s, s.buf.first, segments, isDupack, grows)
         IN  Continues(s, t, size) /\ Counted(t) /\ Watched(t)
<1>1. /\ s \in Sender /\ Fits(s.buf) /\ s.recover \in 0..(Data + 1) /\ s.dupAcks \in 0..3
      /\ s.firstPartial \in BOOLEAN /\ s.congState \in {"OPEN", "DISORDER", "RECOVERY", "LOSS"}
  BY SenderFacts DEF Able
<1>2. PICK z \in Nat \ {0}, f \in Nat, r \in Nat : z = s.segmentSize /\ f = s.buf.first /\ r = s.recover
  <2>1. s.segmentSize \in Nat \ {0} /\ s.buf.first \in Nat BY <1>1, SenderFacts, FitsFacts
  <2>2. s.recover \in Nat BY <1>1
  <2> QED BY <2>1, <2>2
<1>3. PICK counted : counted = CASE s.congState = "RECOVERY" -> 0
                                 [] s.congState = "LOSS" -> (f - r) \div z
                                 [] OTHER -> segments
  OBVIOUS
<1>4. counted \in Nat
  <2>1. CASE s.congState = "RECOVERY" BY <1>3, <2>1
  <2>2. CASE s.congState = "LOSS"
    <3>1. f - r \in Nat BY <1>2, <2>2
    <3>2. (f - r) \div z \in Nat BY <3>1, Divided
    <3>3. s.congState # "RECOVERY" BY <2>2
    <3> QED BY <1>3, <2>2, <3>2, <3>3
  <2>3. CASE s.congState # "RECOVERY" /\ s.congState # "LOSS" BY <1>3, <2>3
  <2> QED BY <2>1, <2>2, <2>3
<1>5. PICK u : u = IncreaseWindow(s, counted, grows) OBVIOUS
<1>6. SameBuffer(s, u) /\ SameState(s, u) /\ u.timer = s.timer
  BY <1>1, <1>4, <1>5, IncreaseWindowFits
<1>7. PICK recovering \in BOOLEAN : recovering = (s.congState \in {"RECOVERY", "LOSS"})
  <2>1. (s.congState \in {"RECOVERY", "LOSS"}) \in BOOLEAN OBVIOUS
  <2> QED BY <2>1
<1> DEFINE state == IF s.congState = "DISORDER" /\ isDupack THEN s.congState ELSE "OPEN"
           dups == IF s.congState = "RECOVERY" THEN 0 ELSE s.dupAcks
<1>8. PICK v : v = [u EXCEPT !.congState = IF @ = "DISORDER" /\ isDupack THEN @ ELSE "OPEN",
                             !.firstPartial = @ \/ recovering,
                             !.dupAcks = IF s.congState = "RECOVERY" THEN 0 ELSE @]
  OBVIOUS
<1>9. u \in Sender /\ u.congState = s.congState /\ u.dupAcks = s.dupAcks /\ u.firstPartial \in BOOLEAN
  BY <1>6, SenderFacts DEF SameBuffer, SameState
<1>20. PICK fp \in BOOLEAN : fp = (u.firstPartial \/ recovering)
  <2>1. (u.firstPartial \/ recovering) \in BOOLEAN OBVIOUS
  <2> QED BY <2>1
<1>10. v = [u EXCEPT !.congState = state, !.firstPartial = fp, !.dupAcks = dups]
  BY <1>8, <1>9, <1>20 DEF Sender
<1>11. state \in {"OPEN", "DISORDER"} /\ dups \in 0..RetxThresh BY <1>1 DEF RetxThresh
<1>12. dups < RetxThresh
  <2>1. CASE s.congState = "RECOVERY" BY <2>1 DEF RetxThresh
  <2>2. CASE s.congState # "RECOVERY" BY <2>2 DEF Counted
  <2> QED BY <2>1, <2>2
<1> HIDE DEF state, dups
<1>13. /\ SameBuffer(u, v) /\ v.congState = state /\ v.dupAcks = dups /\ v.recover = u.recover
       /\ v.gaveUp = u.gaveUp
  BY <1>9, <1>10, <1>11, <1>20 DEF Sender, SameBuffer
<1>14. SameBuffer(s, v) BY <1>6, <1>13 DEF SameBuffer
<1>15. Able(v) /\ Sends(s.buf, v.buf) BY <1>14, AbleWithSameBuffer
<1>16. PICK t : t = NewAck(v, TRUE) OBVIOUS
<1>17. SameBuffer(v, t) /\ SameState(v, t) /\ Watched(t) BY <1>15, <1>16, NewAckFits
<1>18. FullAck(s, s.buf.first, segments, isDupack, grows) = t
  BY ZenonT(60), <1>2, <1>3, <1>5, <1>7, <1>8, <1>16 DEF FullAck, Then
<1>19. SameBuffer(s, t) BY <1>14, <1>17 DEF SameBuffer
<1>21. Able(t) /\ Sends(s.buf, t.buf) /\ KeepsEven(s, t) BY <1>19, AbleWithSameBuffer
<1>22. Counted(t)
  <2>1. t.congState = state /\ t.dupAcks = dups /\ t.recover = s.recover /\ t.buf = s.buf
    BY <1>6, <1>13, <1>17, <1>19 DEF SameState, SameBuffer
  <2>2. s.recover <= s.buf.first BY <1>1 DEF Counted
  <2> QED BY <1>11, <1>12, <2>1, <2>2 DEF Counted
<1>23. t.gaveUp = s.gaveUp BY <1>6, <1>13, <1>17 DEF SameState
<1> QED BY <1>17, <1>18, <1>21, <1>22, <1>23 DEF Continues

\* The head moves (the branches of TcpSocketBase::ProcessAck).
LEMMA CumulativeAckFits ==
  ASSUME NEW s, Able(s), Counted(s), NEW bytes \in Nat, NEW isDupack \in BOOLEAN,
         NEW size \in SizesSet, NEW grows \in BOOLEAN
  PROVE  LET t == CumulativeAck(s, s.buf.first, bytes, isDupack, size, grows)
         IN  Continues(s, t, size) /\ Counted(t) /\ Watched(t)
<1>1. /\ s \in Sender /\ Fits(s.buf) /\ s.recover \in 0..(Data + 1) /\ s.dupAcks \in 0..3
      /\ s.congState \in {"OPEN", "DISORDER", "RECOVERY", "LOSS"}
  BY SenderFacts DEF Able
<1>2. PICK z \in Nat \ {0}, k \in Nat : z = s.segmentSize /\ k = s.carry BY <1>1, SenderFacts
<1>3. PICK rest \in Nat : rest = k + (bytes % z) /\ rest = s.carry + (bytes % s.segmentSize)
  <2>1. bytes % z \in Nat BY Divided
  <2> QED BY <1>2, <2>1
<1>4. PICK segments \in Nat : segments = (bytes \div s.segmentSize) + IF rest >= s.segmentSize THEN 1 ELSE 0
  <2>1. bytes \div z \in Nat BY Divided
  <2>2. (bytes \div z) + (IF rest >= z THEN 1 ELSE 0) \in Nat BY <2>1
  <2> QED BY <1>2, <2>2
<1> DEFINE carry == IF rest >= s.segmentSize THEN rest - s.segmentSize ELSE rest
           dups == IF isDupack THEN s.dupAcks ELSE 0
<1>5. PICK u : u = [s EXCEPT !.carry = carry, !.dupAcks = dups] OBVIOUS
<1>6. carry \in Nat /\ dups \in 0..RetxThresh BY <1>1, <1>2 DEF RetxThresh
<1>7. dups < RetxThresh \/ (s.congState = "RECOVERY" /\ dups = s.dupAcks)
  BY <1>1 DEF Counted, RetxThresh
<1>29. u = [s EXCEPT !.carry = IF rest >= s.segmentSize THEN rest - s.segmentSize ELSE rest,
                     !.dupAcks = IF isDupack THEN @ ELSE 0]
  BY <1>1, <1>5 DEF Sender
<1> HIDE DEF carry, dups
<1>8. /\ SameBuffer(s, u) /\ u.congState = s.congState /\ u.recover = s.recover
      /\ u.gaveUp = s.gaveUp /\ u.dupAcks = dups
  BY <1>1, <1>5, <1>6 DEF Sender, SameBuffer
<1>9. Able(u) /\ Sends(s.buf, u.buf) /\ u.buf = s.buf /\ KeepsEven(s, u)
  BY <1>8, AbleWithSameBuffer DEF SameBuffer
<1>10. Counted(u) BY <1>7, <1>8, <1>9 DEF Counted
<1>11. PICK f \in Nat, r \in Nat : f = s.buf.first /\ r = s.recover /\ r <= Data + 1
  <2>1. s.buf.first \in Nat BY <1>1, FitsFacts
  <2>2. s.recover \in Nat /\ s.recover <= Data + 1 BY <1>1, Constants
  <2> QED BY <2>1, <2>2
<1>12. PICK t : t = CumulativeAck(s, s.buf.first, bytes, isDupack, size, grows) OBVIOUS
<1>13. CASE s.buf.first < s.recover /\ s.congState = "RECOVERY"
  <2>1. t = PartialAck(u, size) BY <1>3, <1>4, <1>12, <1>13, <1>29 DEF CumulativeAck, Then
  <2>2. u.buf.first <= Data
    <3>1. f < r BY <1>11, <1>13
    <3>2. f <= Data BY <1>11, <3>1, Constants
    <3> QED BY <1>9, <1>11, <3>2
  <2>3. Continues(u, t, size) /\ Watched(t) /\ t.congState = u.congState
    BY <1>9, <2>1, <2>2, PartialAckFits
  <2>4. Counted(t) BY <1>8, <1>13, <2>3 DEF Counted
  <2> QED BY <1>8, <1>9, <1>12, <2>3, <2>4 DEF Continues, KeepsEven
<1>14. CASE s.buf.first < s.recover /\ s.congState = "LOSS"
  <2>1. PICK v : v = IncreaseWindow(u, segments, grows) OBVIOUS
  <2>2. t = NewAck(v, TRUE)
    <3>1. ~(s.congState = "RECOVERY") BY <1>14
    <3> QED BY <1>3, <1>4, <1>12, <1>14, <1>29, <2>1, <3>1 DEF CumulativeAck, Then
  <2>3. SameBuffer(u, v) /\ SameState(u, v)
    <3>1. u \in Sender BY <1>8 DEF SameBuffer
    <3> QED BY <2>1, <3>1, IncreaseWindowFits
  <2>4. Able(v) BY <1>9, <2>3, AbleWithSameBuffer
  <2>5. SameBuffer(v, t) /\ SameState(v, t) /\ Watched(t) BY <2>2, <2>4, NewAckFits
  <2>6. SameBuffer(s, t) BY <1>8, <2>3, <2>5 DEF SameBuffer
  <2>7. Able(t) /\ Sends(s.buf, t.buf) /\ KeepsEven(s, t) BY <2>6, AbleWithSameBuffer
  <2>8. t.congState = "LOSS" /\ t.dupAcks = dups /\ t.gaveUp = s.gaveUp
    BY <1>8, <1>14, <2>3, <2>5 DEF SameState
  <2>9. Counted(t) BY <1>7, <1>14, <2>8 DEF Counted
  <2> QED BY <1>12, <2>5, <2>7, <2>8, <2>9 DEF Continues
<1>15. CASE ~(s.buf.first < s.recover /\ s.congState \in {"RECOVERY", "LOSS"})
  <2>1. t = FullAck(u, s.buf.first, segments, isDupack, grows)
    <3>1. /\ ~(s.buf.first < s.recover /\ s.congState = "RECOVERY")
          /\ ~(s.buf.first < s.recover /\ s.congState = "LOSS")
      BY <1>15
    <3>2. t = CASE s.buf.first < s.recover /\ s.congState = "RECOVERY" -> PartialAck(u, size)
                [] s.buf.first < s.recover /\ s.congState = "LOSS" ->
                     Then(IncreaseWindow(u, segments, grows), LAMBDA w : NewAck(w, TRUE))
                [] OTHER -> FullAck(u, s.buf.first, segments, isDupack, grows)
      BY <1>3, <1>4, <1>12, <1>29 DEF CumulativeAck, Then
    <3> QED BY <3>1, <3>2
  <2>2. t = FullAck(u, u.buf.first, segments, isDupack, grows) BY <1>9, <2>1
  <2>3. u.congState \in {"RECOVERY", "LOSS"} => u.recover <= u.buf.first
    <3> SUFFICES ASSUME u.congState \in {"RECOVERY", "LOSS"} PROVE u.recover <= u.buf.first OBVIOUS
    <3>1. ~(f < r) BY <1>8, <1>11, <1>15
    <3>2. r <= f BY <3>1
    <3> QED BY <1>8, <1>9, <1>11, <3>2
  <2>4. Continues(u, t, size) /\ Counted(t) /\ Watched(t) BY <1>9, <1>10, <2>2, <2>3, FullAckFits
  <2> QED BY <1>8, <1>9, <1>12, <2>4 DEF Continues, KeepsEven
<1> QED BY <1>13, <1>14, <1>15

\* An acknowledgement is processed (TcpSocketBase::ProcessAck).
LEMMA ProcessAckFits ==
  ASSUME NEW s, Able(s), Counted(s), Watched(s), NEW oldHead \in Nat, oldHead <= s.buf.first,
         NEW isDupack \in BOOLEAN, isDupack => s.buf.first <= Data,
         NEW size \in SizesSet, NEW grows \in BOOLEAN
  PROVE  LET t == ProcessAck(s, s.buf.first, oldHead, isDupack, size, grows)
         IN  Continues(s, t, size) /\ Counted(t) /\ Watched(t)
<1>1. s \in Sender /\ Fits(s.buf) /\ s.buf.first \in Nat BY FitsFacts DEF Able
<1>2. PICK u : u = IF isDupack THEN DupAck(s, size) ELSE s OBVIOUS
<1>3. Continues(s, u, size) /\ Counted(u) /\ (s.timer => u.timer)
  <2>1. CASE isDupack
    <3>1. u = DupAck(s, size) BY <1>2, <2>1
    <3> QED BY <2>1, <3>1, DupAckFits
  <2>2. CASE ~isDupack
    <3>1. u = s BY <1>2, <2>2
    <3> QED BY <1>1, <3>1, SendsRefl DEF Continues, KeepsEven
  <2> QED BY <2>1, <2>2
<1>4. Able(u) /\ Sends(s.buf, u.buf) /\ u.buf.first = s.buf.first /\ Fits(u.buf)
      /\ u.gaveUp = s.gaveUp
  BY <1>3 DEF Continues, Sends
<1>5. PICK bytes : bytes = s.buf.first - oldHead OBVIOUS
<1>6. bytes \in Nat BY <1>1, <1>5
<1>7. PICK t : t = ProcessAck(s, s.buf.first, oldHead, isDupack, size, grows) OBVIOUS
<1>8. CASE s.buf.first = oldHead
  <2>1. t = u BY <1>2, <1>7, <1>8 DEF ProcessAck, Then
  <2>2. Watched(u)
    <3>1. Size(u.buf) = Size(s.buf) BY <1>1, <1>4, SizeIs
    <3> QED BY <1>3, <3>1 DEF Watched
  <2> QED BY <1>3, <1>7, <2>1, <2>2
<1>9. CASE s.buf.first # oldHead
  <2>1. t = CumulativeAck(u, s.buf.first, bytes, isDupack, size, grows)
    BY <1>2, <1>5, <1>7, <1>9 DEF ProcessAck, Then
  <2>2. t = CumulativeAck(u, u.buf.first, bytes, isDupack, size, grows) BY <1>4, <2>1
  <2>3. Continues(u, t, size) /\ Counted(t) /\ Watched(t) BY <1>3, <1>4, <1>6, <2>2, CumulativeAckFits
  <2>4. Sends(s.buf, t.buf)
    <3>1. Sends(u.buf, t.buf) BY <2>3 DEF Continues
    <3> QED BY <1>1, <1>4, <3>1, SendsTrans
  <2>5. size = SendSize => KeepsEven(s, t) BY <1>3, <2>3 DEF Continues, KeepsEven
  <2> QED BY <1>4, <1>7, <2>3, <2>4, <2>5 DEF Continues
<1> QED BY <1>8, <1>9

\* The bytes of all blocks of a list.
AllBytes(sacks) == {x \in 1..Data : \E k \in DOMAIN sacks : x \in BytesOf(sacks[k])}

\* The acknowledgement m is one the sender can get.
Due(b, m) ==
  /\ m \in Ack /\ b.first <= m.ack /\ m.ack <= SentEnd(b)
  /\ m.ack \notin SackedBytes(b)
  /\ \A k \in DOMAIN m.sacks : m.ack < m.sacks[k].first

\* An acknowledgement arrives (TcpSocketBase::ReceivedAck).
LEMMA ReceivedAckFits ==
  ASSUME NEW s, Able(s), Counted(s), Watched(s), s.buf.failed = {}, NEW m, Due(s.buf, m),
         NEW size \in SizesSet, NEW grows \in BOOLEAN
  PROVE  LET t == ReceivedAck(s, m, size, grows)
         IN  /\ Able(t) /\ Counted(t) /\ Watched(t) /\ t.gaveUp = s.gaveUp
             /\ t.buf.first = m.ack /\ SentEnd(s.buf) <= SentEnd(t.buf)
             /\ SackedBytes(t.buf) \subseteq SackedBytes(s.buf) \cup AllBytes(m.sacks)
             /\ size = SendSize /\ m.ack \in Edges => KeepsEven(s, t)
<1>1. s \in Sender /\ Fits(s.buf) BY DEF Able
<1>2. PICK e \in Nat, f \in Nat, a \in 1..(Data + 1) :
        e = SentEnd(s.buf) /\ f = s.buf.first /\ a = m.ack /\ f <= a /\ a <= e
  <2>1. SentEnd(s.buf) \in Nat /\ s.buf.first \in Nat BY <1>1, FitsFacts
  <2>2. m.ack \in 1..(Data + 1) BY DEF Due, Ack
  <2> QED BY <2>1, <2>2 DEF Due
<1>3. m.sacks \in Seq(Block) /\ \A k \in DOMAIN m.sacks : m.sacks[k] \in Block
  <2>1. m.sacks \in Seq(Block) BY DEF Due, Ack
  <2> QED BY <2>1
<1>4. ASSUME NEW k \in DOMAIN m.sacks PROVE a < m.sacks[k].first /\ m.sacks[k].first \in 1..Data
  BY <1>2, <1>3 DEF Due, Block
<1>5. \A k \in DOMAIN m.sacks : s.buf.first < m.sacks[k].first
  <2> TAKE k \in DOMAIN m.sacks
  <2>1. a < m.sacks[k].first /\ m.sacks[k].first \in 1..Data BY <1>4
  <2> QED BY <1>2, <2>1
<1>6. PICK b : b = Update(s.buf, m.sacks, RetxThresh) OBVIOUS
<1>7. /\ Fits(b) /\ SameCut(s.buf, b) /\ b.failed = {}
      /\ \A x \in SackedBytes(b) :
           x \in SackedBytes(s.buf) \/ \E k \in DOMAIN m.sacks : x \in BytesOf(m.sacks[k])
  <2>1. RetxThresh \in Nat BY DEF RetxThresh
  <2> QED BY <1>1, <1>3, <1>5, <1>6, <2>1, UpdateFits
<1>8. SackedBytes(b) \subseteq SackedBytes(s.buf) \cup AllBytes(m.sacks)
  <2>1. SackedBytes(b) \subseteq 1..Data BY DEF SackedBytes
  <2> QED BY <1>7, <2>1 DEF AllBytes
<1>9. SentEnd(b) = e /\ b.first = f
  <2>1. b \in Buffer /\ Laid(s.buf) BY <1>1, <1>7, FitsFacts
  <2>2. SentEnd(b) = SentEnd(s.buf) BY <1>7, <2>1, SameCutLaid
  <2> QED BY <1>2, <1>7, <2>2 DEF SameCut
<1>10. m.ack \notin SackedBytes(b)
  <2>1. m.ack \notin AllBytes(m.sacks)
    <3> SUFFICES ASSUME NEW k \in DOMAIN m.sacks, m.ack \in BytesOf(m.sacks[k]) PROVE FALSE
      BY DEF AllBytes
    <3>1. m.sacks[k].first <= a BY <1>2 DEF BytesOf
    <3>2. a < m.sacks[k].first /\ m.sacks[k].first \in 1..Data BY <1>4
    <3> QED BY <1>2, <3>1, <3>2
  <2> QED BY <1>8, <2>1 DEF Due
<1>11. PICK c : c = DiscardUpTo(b, m.ack) OBVIOUS
<1>12. /\ Fits(c) /\ c.failed = {} /\ SentEnd(c) = SentEnd(b) /\ c.first = Larger(b.first, m.ack)
       /\ SackedBytes(c) \subseteq SackedBytes(b)
  <2>1. m.ack \in Nat /\ m.ack <= SentEnd(b) BY <1>2, <1>9
  <2> QED BY <1>7, <1>10, <1>11, <2>1, DiscardUpToFits
<1>13. c.first = a BY <1>2, <1>9, <1>12 DEF Larger
<1>14. PICK t : t = [s EXCEPT !.buf = c] OBVIOUS
<1>15. /\ Able(t) /\ t.buf = c /\ t.timer = s.timer /\ t.gaveUp = s.gaveUp
       /\ t.out = s.out /\ t.segmentSize = s.segmentSize
       /\ t.congState = s.congState /\ t.recover = s.recover /\ t.dupAcks = s.dupAcks
  <2>1. t \in Sender
    <3>1. c \in Buffer BY <1>12, FitsFacts
    <3> QED BY <1>1, <1>14, <3>1 DEF Sender
  <2>2. /\ t.buf = c /\ t.timer = s.timer /\ t.gaveUp = s.gaveUp /\ t.out = s.out
        /\ t.segmentSize = s.segmentSize
        /\ t.congState = s.congState /\ t.recover = s.recover /\ t.dupAcks = s.dupAcks
    BY <1>1, <1>14 DEF Sender
  <2>3. SentEnd(c) = SentEnd(s.buf) BY <1>2, <1>9, <1>12
  <2>4. Able(t) BY <1>12, <2>1, <2>2, <2>3 DEF Able
  <2> QED BY <2>2, <2>4
<1>16. Counted(t)
  <2>1. s.recover \in 0..(Data + 1) BY <1>1, SenderFacts
  <2>2. s.recover <= f => s.recover <= a BY <1>2, <2>1
  <2> QED BY <1>2, <1>13, <1>15, <2>2 DEF Counted
<1>17. Watched(t)
  <2>1. CASE s.timer BY <1>15, <2>1 DEF Watched
  <2>2. CASE ~s.timer
    <3>1. f = Data + 1 BY <1>1, <1>2, <2>2, SizeIs DEF Watched
    <3>2. a = Data + 1
      <4>1. Data \in Nat BY Constants
      <4> QED BY <1>2, <3>1, <4>1
    <3>3. Size(t.buf) = 0 BY <1>12, <1>13, <1>15, <3>2, SizeIs
    <3> QED BY <3>3 DEF Watched
  <2> QED BY <2>1, <2>2
<1>18. PICK isDupack \in BOOLEAN : isDupack = Modifies(s.buf, m.sacks)
  <2>1. Modifies(s.buf, m.sacks) \in BOOLEAN BY DEF Modifies
  <2> QED BY <2>1
<1>19. isDupack => t.buf.first <= Data
  <2> SUFFICES ASSUME isDupack PROVE t.buf.first <= Data OBVIOUS
  <2>1. PICK k \in DOMAIN m.sacks : TRUE BY <1>18 DEF Modifies
  <2>2. a < m.sacks[k].first /\ m.sacks[k].first \in 1..Data BY <1>4
  <2>3. a <= Data BY <1>2, <2>2, Constants
  <2> QED BY <1>13, <1>15, <2>3
<1>20. PICK u : u = ReceivedAck(s, m, size, grows) OBVIOUS
<1>21. u = ProcessAck(t, m.ack, s.buf.first, isDupack, size, grows)
  BY <1>6, <1>11, <1>14, <1>18, <1>20 DEF ReceivedAck, Then
<1>22. u = ProcessAck(t, t.buf.first, s.buf.first, isDupack, size, grows)
  BY <1>2, <1>13, <1>15, <1>21
<1>23. Continues(t, u, size) /\ Counted(u) /\ Watched(u)
  <2>1. s.buf.first \in Nat /\ s.buf.first <= t.buf.first BY <1>2, <1>13, <1>15
  <2> QED BY <1>15, <1>16, <1>17, <1>19, <1>22, <2>1, ProcessAckFits
<1>24. /\ Able(u) /\ u.gaveUp = s.gaveUp /\ u.buf.first = m.ack /\ SentEnd(c) <= SentEnd(u.buf)
       /\ SackedBytes(u.buf) = SackedBytes(c)
  BY <1>2, <1>13, <1>15, <1>23 DEF Continues, Sends
<1>25. SentEnd(s.buf) <= SentEnd(u.buf) BY <1>2, <1>9, <1>12, <1>24
<1>26. SackedBytes(u.buf) \subseteq SackedBytes(s.buf) \cup AllBytes(m.sacks)
  BY <1>8, <1>12, <1>24
<1>27. ASSUME size = SendSize, m.ack \in Edges, EvenSender(s) PROVE EvenSender(u)
  <2>1. EvenBuffer(b)
    <3>1. EvenBuffer(s.buf) BY <1>27 DEF EvenSender
    <3> QED BY <1>7, <3>1, SameCutEven
  <2>2. EvenBuffer(c)
    <3>1. m.ack <= SentEnd(b) BY <1>2, <1>9
    <3> QED BY <1>7, <1>10, <1>11, <1>27, <2>1, <3>1, DiscardUpToEven
  <2>3. EvenSender(t) BY <1>15, <1>27, <2>2 DEF EvenSender
  <2> QED BY <1>23, <1>27, <2>3 DEF Continues, KeepsEven
<1>28. size = SendSize /\ m.ack \in Edges => KeepsEven(s, u) BY <1>27 DEF KeepsEven
<1> QED BY <1>20, <1>23, <1>24, <1>25, <1>26, <1>28

-----------------------------------------------------------------------------
\* The network.

\* One copy less in a bag.
LEMMA BagRemoveFacts ==
  ASSUME NEW B, IsABag(B), NEW m
  PROVE  IsABag(B (-) SetToBag({m})) /\ BagToSet(B (-) SetToBag({m})) \subseteq BagToSet(B)
<1> DEFINE one == SetToBag({m})
           rest == [e \in DOMAIN B |-> IF e \in DOMAIN one THEN B[e] - one[e] ELSE B[e]]
           C == [e \in {d \in DOMAIN rest : rest[d] > 0} |-> rest[e]]
<1>1. B (-) one = C BY DEF (-)
<1>2. DOMAIN one = {m} /\ (m \in DOMAIN one => one[m] = 1) BY DEF SetToBag
<1>3. \A e \in DOMAIN B : B[e] \in Nat BY DEF IsABag
<1>4. ASSUME NEW e \in DOMAIN B PROVE rest[e] \in Int
  <2>1. CASE e = m
    <3>1. rest[e] = B[e] - 1 BY <1>2, <2>1
    <3> QED BY <1>3, <3>1
  <2>2. CASE e # m
    <3>1. rest[e] = B[e] BY <1>2, <2>2
    <3> QED BY <1>3, <3>1
  <2> QED BY <2>1, <2>2
<1>5. DOMAIN rest = DOMAIN B OBVIOUS
<1> HIDE DEF rest, one
<1>6. DOMAIN C \subseteq DOMAIN B BY <1>5
<1>7. ASSUME NEW e \in DOMAIN C PROVE C[e] \in {n \in Nat : n > 0}
  <2>1. C[e] = rest[e] /\ rest[e] > 0 /\ rest[e] \in Int BY <1>4, <1>5
  <2> QED BY <2>1
<1>8. C \in [DOMAIN C -> {n \in Nat : n > 0}] BY <1>7
<1> HIDE DEF C
<1>9. IsABag(C) /\ BagToSet(C) \subseteq BagToSet(B) BY <1>6, <1>8 DEF IsABag, BagToSet
<1> QED BY <1>1, <1>9 DEF one

\* One copy more in a bag.
LEMMA BagAddFacts ==
  ASSUME NEW B, NEW C, IsABag(B), IsABag(C)
  PROVE  IsABag(B (+) C) /\ BagToSet(B (+) C) = BagToSet(B) \cup BagToSet(C)
<1> DEFINE D == [e \in (DOMAIN B) \cup (DOMAIN C) |->
                   (IF e \in DOMAIN B THEN B[e] ELSE 0) + (IF e \in DOMAIN C THEN C[e] ELSE 0)]
<1>1. B (+) C = D BY DEF (+)
<1>2. /\ \A e \in DOMAIN B : B[e] \in Nat /\ B[e] > 0
      /\ \A e \in DOMAIN C : C[e] \in Nat /\ C[e] > 0
  BY DEF IsABag
<1>3. ASSUME NEW e \in (DOMAIN B) \cup (DOMAIN C) PROVE D[e] \in {n \in Nat : n > 0}
  <2>1. PICK x, y : /\ x = IF e \in DOMAIN B THEN B[e] ELSE 0
                    /\ y = IF e \in DOMAIN C THEN C[e] ELSE 0
    OBVIOUS
  <2>2. x \in Nat /\ y \in Nat /\ (x > 0 \/ y > 0) BY <1>2, <2>1
  <2>3. D[e] = x + y BY <2>1
  <2> QED BY <2>2, <2>3
<1>4. DOMAIN D = (DOMAIN B) \cup (DOMAIN C) OBVIOUS
<1>5. D \in [DOMAIN D -> {n \in Nat : n > 0}] BY <1>3
<1> HIDE DEF D
<1>6. IsABag(D) /\ BagToSet(D) = BagToSet(B) \cup BagToSet(C) BY <1>4, <1>5 DEF IsABag, BagToSet
<1> QED BY <1>1, <1>6

\* What an event has sent, as a bag.
LEMMA SentBag ==
  ASSUME NEW T, NEW out \in Seq(T)
  PROVE  LET C == [m \in ToSet(out) |-> Cardinality({k \in DOMAIN out : out[k] = m})]
         IN  IsABag(C) /\ BagToSet(C) = {out[k] : k \in 1..Len(out)}
<1> DEFINE C == [m \in ToSet(out) |-> Cardinality({k \in DOMAIN out : out[k] = m})]
<1>1. Len(out) \in Nat /\ DOMAIN out = 1..Len(out) OBVIOUS
<1>2. ToSet(out) = {out[k] : k \in 1..Len(out)} BY <1>1 DEF ToSet
<1>3. ASSUME NEW m \in ToSet(out) PROVE C[m] \in {n \in Nat : n > 0}
  <2> DEFINE K == {k \in DOMAIN out : out[k] = m}
  <2>1. PICK k \in 1..Len(out) : m = out[k] BY <1>2
  <2>2. K # {} /\ K \subseteq 1..Len(out) BY <1>1, <2>1
  <2>3. IsFiniteSet(1..Len(out)) BY <1>1, FS_Interval
  <2> HIDE DEF K
  <2>4. IsFiniteSet(K) BY <2>2, <2>3, FS_Subset
  <2>5. Cardinality(K) \in Nat /\ Cardinality(K) # 0 BY <2>2, <2>4, FS_CardinalityType, FS_EmptySet
  <2>6. C[m] = Cardinality(K) BY DEF K
  <2>7. Cardinality(K) > 0 BY <2>5
  <2> QED BY <2>5, <2>6, <2>7
<1>4. DOMAIN C = ToSet(out) OBVIOUS
<1>5. C \in [DOMAIN C -> {n \in Nat : n > 0}] BY <1>3
<1> HIDE DEF C
<1>6. IsABag(C) /\ BagToSet(C) = {out[k] : k \in 1..Len(out)}
  BY <1>2, <1>4, <1>5 DEF IsABag, BagToSet
<1> QED BY <1>6 DEF C

-----------------------------------------------------------------------------
\* Timeouts.

\* The window lets the sender go on.
MaySend(s) ==
  /\ AvailableWindow(s) > 0
  /\ NextToSend(s) # NoSeq
  /\ \/ AvailableWindow(s) >= s.segmentSize
     \/ AvailableWindow(s) >= SizeFromSequence(s.buf, NextToSend(s))

\* CanSend, for a sender that is not the current one.
LEMMA CanSendIs == CanSend <=> Running(snd) /\ MaySend(snd)
BY DEF CanSend, MaySend

\* With nothing in flight and a window of one segment, the sender can go on
\* as long as a byte is not acknowledged.
LEMMA ReTxTimeoutFits ==
  ASSUME NEW s, Able(s), s.buf.failed = {}, s.retries # 0
  PROVE  LET t == ReTxTimeout(s)
         IN  /\ Able(t) /\ Counted(t) /\ Sends(s.buf, t.buf) /\ t.buf.failed = {}
             /\ SentEnd(t.buf) = SentEnd(s.buf) /\ t.gaveUp = s.gaveUp /\ t.out = s.out
             /\ Size(t.buf) > 0 => MaySend(t)
             /\ KeepsEven(s, t)
<1>1. s \in Sender /\ Fits(s.buf) BY DEF Able
<1>2. PICK c : c = SetSentListLost(s.buf) OBVIOUS
<1>3. /\ Fits(c) /\ c.failed = {} /\ SameCut(s.buf, c) /\ SackedBytes(c) = SackedBytes(s.buf)
      /\ BytesInFlight(c) = 0 /\ (s.buf.first <= Data => NextSeg(c, FALSE) # NoSeq)
  BY <1>1, <1>2, SetSentListLostFits, NothingInFlight
<1>4. SentEnd(c) = SentEnd(s.buf) /\ c.first = s.buf.first
  <2>1. c \in Buffer /\ Laid(s.buf) BY <1>1, <1>3, FitsFacts
  <2> QED BY <1>3, <2>1, SameCutLaid DEF SameCut
<1>5. Sends(s.buf, c)
  <2>1. SentEnd(s.buf) \in Nat BY <1>1, FitsFacts
  <2> QED BY <1>3, <1>4, <2>1 DEF Sends
<1>6. PICK g : g = GetSsThresh(s, BytesInFlight(s.buf)) OBVIOUS
<1>7. g \in Nat \ {0} BY <1>1, <1>6, BytesInFlightType, GetSsThreshType
<1>8. PICK r : r = s.retries - 1 OBVIOUS
<1>9. r \in 0..DataRetries
  <2>1. s.retries \in 0..DataRetries /\ DataRetries \in Nat BY <1>1, SenderFacts, Constants
  <2> QED BY <1>8, <2>1
<1>10. PICK t : t = ReTxTimeout(s) OBVIOUS
<1>11. t = [s EXCEPT !.buf = c, !.retries = r, !.dupAcks = 0, !.recover = s.highTx,
                     !.ssThresh = g, !.cWnd = s.segmentSize, !.congState = "LOSS",
                     !.timer = FALSE]
  BY <1>2, <1>6, <1>8, <1>10 DEF ReTxTimeout
<1>12. /\ t.buf = c /\ t.dupAcks = 0 /\ t.congState = "LOSS" /\ t.gaveUp = s.gaveUp
       /\ t.out = s.out /\ t.cWnd = s.segmentSize /\ t.segmentSize = s.segmentSize
  BY <1>1, <1>11 DEF Sender
<1>13. t \in Sender
  <2>1. c \in Buffer BY <1>3, FitsFacts
  <2>2. s.segmentSize \in Nat \ {0} /\ s.highTx \in 0..(Data + 1) BY <1>1, SenderFacts, Constants
  <2>3. 0 \in 0..RetxThresh BY DEF RetxThresh
  <2> QED BY <1>1, <1>7, <1>9, <1>11, <2>1, <2>2, <2>3 DEF Sender
<1>14. Able(t) BY <1>3, <1>4, <1>12, <1>13 DEF Able
<1>15. Counted(t) BY <1>12 DEF Counted, RetxThresh
<1>16. ASSUME Size(t.buf) > 0 PROVE MaySend(t)
  <2>1. s.buf.first <= Data
    <3>1. Size(c) = Data + 1 - c.first /\ c.first \in 1..(Data + 1) /\ Size(c) # 0 BY <1>3, <1>12, <1>16, SizeIs
    <3>2. c.first # Data + 1 BY <1>3, <3>1, SizeIs
    <3> QED BY <1>4, <3>1, <3>2, Constants
  <2>2. NextToSend(t) # NoSeq
    <3>1. (t.congState = "RECOVERY") = FALSE BY <1>12
    <3>2. NextToSend(t) = NextSeg(c, FALSE) BY <1>12, <3>1 DEF NextToSend
    <3> QED BY <1>3, <2>1, <3>2
  <2>3. PICK z \in Nat \ {0} : z = s.segmentSize BY <1>1, SenderFacts
  <2>4. z - 0 = z /\ z > 0 /\ z >= z BY <2>3
  <2>5. AvailableWindow(t) = Larger(z - 0, 0) BY <1>3, <1>12, <2>3, Zenon DEF AvailableWindow
  <2>6. AvailableWindow(t) = z BY <2>4, <2>5 DEF Larger
  <2> QED BY <1>12, <2>2, <2>3, <2>4, <2>6 DEF MaySend
<1>17. KeepsEven(s, t)
  <2>1. EvenBuffer(s.buf) => EvenBuffer(c) BY <1>3, SameCutEven
  <2> QED BY <1>12, <2>1 DEF KeepsEven, EvenSender
<1> QED BY <1>3, <1>4, <1>5, <1>10, <1>12, <1>14, <1>15, <1>16, <1>17

\* The buffer of the beginning.
LEMMA NewBufferFits ==
  ASSUME NEW b, b = NewBuffer(Data)
  PROVE  Fits(b) /\ b.first = 1 /\ SentEnd(b) = 1 /\ SackedBytes(b) = {} /\ b.failed = {}
<1>1. Data \in Nat \ {0} BY Constants
<1>2. /\ b.first = 1 /\ b.sent = <<>> /\ b.unsent = Data /\ b.sackedOut = 0 /\ b.lostOut = 0
      /\ b.retrans = 0 /\ b.highest = NoSeq /\ b.failed = {}
  BY DEF NewBuffer
<1>3. b \in Buffer
  <2>1. <<>> \in Seq(Item) OBVIOUS
  <2>2. {} \in SUBSET Assertion OBVIOUS
  <2> QED BY <1>1, <2>1, <2>2 DEF Buffer, NewBuffer, NoSeq
<1>4. Len(b.sent) = 0 /\ Indices(b) = {} BY <1>2 DEF Indices
<1>5. SentEnd(b) = 1 BY <1>2 DEF SentEnd
<1>6. SackedBytes(b) = {} BY <1>4 DEF SackedBytes
<1>7. Laid(b)
  <2>1. Contiguous(b) BY <1>2, <1>4 DEF Contiguous
  <2>2. SentEnd(b) + b.unsent = Data + 1 /\ b.first >= 1 BY <1>1, <1>2, <1>5
  <2> QED BY <1>3, <2>1, <2>2 DEF Laid
<1>8. Ordered(b) /\ Exclusive(b) /\ Topped(b) BY <1>4, <1>6 DEF Ordered, Exclusive, Topped
<1>9. Consistent(b)
  <2>1. ASSUME NEW S PROVE SizeOf(b, S) = 0
    <3> DEFINE w == [i \in Indices(b) |-> IF i \in S THEN b.sent[i].len ELSE 0]
    <3>1. w \in [1..0 -> Int] BY <1>4
    <3> HIDE DEF w
    <3>2. Total(w) = 0 BY <3>1, TotalEmpty
    <3> QED BY <3>2 DEF SizeOf, w
  <2> QED BY <1>2, <2>1 DEF Consistent, Bytes
<1> QED BY <1>2, <1>5, <1>6, <1>7, <1>8, <1>9 DEF Fits

-----------------------------------------------------------------------------
\* The receiver's blocks.

\* f holds the selections from the first elements of q: those at the places S.
Selections(q, n, S, f) ==
  f[0] = <<>> /\ \A k \in 1..n : f[k] = IF k \in S THEN Append(f[k - 1], q[k]) ELSE f[k - 1]

\* The selections from a sequence exist.
LEMMA SelectionsExist ==
  ASSUME NEW n \in Nat, NEW q \in [1..n -> Block], NEW S
  PROVE  \E f \in [0..n -> Seq(Block)] : Selections(q, n, S, f)
<1> DEFINE P == {m \in Nat : m <= n => \E f \in [0..m -> Seq(Block)] : Selections(q, m, S, f)}
<1>1. 0 \in P
  <2> DEFINE f == [k \in 0..0 |-> <<>>]
  <2>1. f[0] = <<>> /\ f \in [0..0 -> Seq(Block)] OBVIOUS
  <2> HIDE DEF f
  <2>2. Selections(q, 0, S, f) BY <2>1 DEF Selections
  <2> QED BY <2>1, <2>2
<1>2. ASSUME NEW m \in Nat, m \in P PROVE m + 1 \in P
  <2>1. SUFFICES ASSUME m + 1 <= n
                 PROVE  \E f \in [0..(m + 1) -> Seq(Block)] : Selections(q, m + 1, S, f)
    OBVIOUS
  <2>2. PICK g \in [0..m -> Seq(Block)] : Selections(q, m, S, g) BY <1>2, <2>1
  <2>3. PICK l : l = IF m + 1 \in S THEN Append(g[m], q[m + 1]) ELSE g[m] OBVIOUS
  <2>4. l \in Seq(Block)
    <3>1. q[m + 1] \in Block /\ g[m] \in Seq(Block) BY <2>1
    <3>2. Append(g[m], q[m + 1]) \in Seq(Block) BY <3>1
    <3> QED BY <2>3, <3>1, <3>2
  <2> DEFINE h == [k \in 0..(m + 1) |-> IF k <= m THEN g[k] ELSE l]
  <2>5. h \in [0..(m + 1) -> Seq(Block)] BY <2>4
  <2>6. h[0] = <<>> BY <2>2 DEF Selections
  <2>7. ASSUME NEW k \in 1..(m + 1)
        PROVE  h[k] = IF k \in S THEN Append(h[k - 1], q[k]) ELSE h[k - 1]
    <3>1. CASE k = m + 1
      <4>1. h[k] = l /\ h[k - 1] = g[m] BY <3>1
      <4> QED BY <2>3, <3>1, <4>1
    <3>2. CASE k # m + 1
      <4>1. k \in 1..m /\ k - 1 \in 0..m /\ k - 1 \in 0..(m + 1) BY <3>2
      <4>2. h[k] = g[k] /\ h[k - 1] = g[k - 1] BY <4>1
      <4>3. g[k] = IF k \in S THEN Append(g[k - 1], q[k]) ELSE g[k - 1]
        BY <2>2, <4>1 DEF Selections
      <4> QED BY <4>2, <4>3
    <3> QED BY <3>1, <3>2
  <2> HIDE DEF h
  <2>8. Selections(q, m + 1, S, h) BY <2>6, <2>7 DEF Selections
  <2> QED BY <2>5, <2>8
<1> HIDE DEF P
<1>3. Nat \subseteq P BY <1>1, <1>2, Induction
<1> QED BY <1>3 DEF P

\* r holds elements of q at the places S.
Selected(q, S, r) ==
  r \in Seq(Block) /\ \A i \in 1..Len(r) : \E k \in 1..Len(q) : k \in S /\ r[i] = q[k]

\* A selection holds the elements at the places of S.
LEMMA SelectionFacts ==
  ASSUME NEW q \in Seq(Block), NEW S, NEW f, Selections(q, Len(q), S, f)
  PROVE  Selected(q, S, f[Len(q)])
<1> DEFINE n == Len(q)
           P == {m \in Nat : m <= n => Selected(q, S, f[m])}
<1>0. n \in Nat /\ \A k \in 1..n : q[k] \in Block OBVIOUS
<1> HIDE DEF n
<1>1. 0 \in P
  <2>1. f[0] = <<>> BY DEF Selections
  <2>2. <<>> \in Seq(Block) /\ Len(<<>>) = 0 OBVIOUS
  <2>3. Selected(q, S, <<>>) BY <2>2 DEF Selected
  <2> QED BY <2>1, <2>3
<1>2. ASSUME NEW m \in Nat, m \in P PROVE m + 1 \in P
  <2>1. SUFFICES ASSUME m + 1 <= n PROVE Selected(q, S, f[m + 1]) OBVIOUS
  <2>2. m + 1 \in 1..n /\ (m + 1) - 1 = m BY <1>0, <2>1
  <2>3. f[m + 1] = IF m + 1 \in S THEN Append(f[m], q[m + 1]) ELSE f[m]
    BY <2>2 DEF Selections, n
  <2>4. Selected(q, S, f[m]) BY <1>0, <1>2, <2>1
  <2>5. CASE m + 1 \notin S BY <2>3, <2>4, <2>5
  <2>6. CASE m + 1 \in S
    <3>1. PICK r : r = f[m] OBVIOUS
    <3>2. r \in Seq(Block) /\ q[m + 1] \in Block BY <1>0, <2>2, <2>4, <3>1 DEF Selected
    <3>3. PICK l : l = Append(r, q[m + 1]) OBVIOUS
    <3>4. /\ l \in Seq(Block) /\ Len(l) = Len(r) + 1 /\ Len(r) \in Nat /\ l[Len(r) + 1] = q[m + 1]
          /\ \A i \in 1..Len(r) : l[i] = r[i]
      BY <3>2, <3>3
    <3>5. ASSUME NEW i \in 1..Len(l) PROVE \E k \in 1..Len(q) : k \in S /\ l[i] = q[k]
      <4>1. CASE i = Len(r) + 1 BY <2>2, <2>6, <3>4, <4>1 DEF n
      <4>2. CASE i # Len(r) + 1
        <5>1. i \in 1..Len(r) BY <3>4, <4>2
        <5> QED BY <2>4, <3>1, <3>4, <5>1 DEF Selected
      <4> QED BY <4>1, <4>2
    <3>6. Selected(q, S, l) BY <3>4, <3>5 DEF Selected
    <3> QED BY <2>3, <2>6, <3>1, <3>3, <3>6
  <2> QED BY <2>5, <2>6
<1> HIDE DEF P
<1>3. Nat \subseteq P BY <1>1, <1>2, Induction
<1>4. n <= n BY <1>0
<1> QED BY <1>0, <1>3, <1>4 DEF P, n

\* Select(q, S) is a sequence of elements of q.
LEMMA SelectFacts ==
  ASSUME NEW q \in Seq(Block), NEW S
  PROVE  Selected(q, S, Select(q, S))
<1> DEFINE Rec(f) == f = [k \in 0..Len(q) |->
                            IF k = 0 THEN <<>>
                            ELSE IF k \in S THEN Append(f[k - 1], q[k]) ELSE f[k - 1]]
           f == CHOOSE f : Rec(f)
<1>1. Len(q) \in Nat /\ q \in [1..Len(q) -> Block] OBVIOUS
<1>2. PICK h \in [0..Len(q) -> Seq(Block)] : Selections(q, Len(q), S, h) BY <1>1, SelectionsExist
<1>3. Rec(h)
  <2>1. ASSUME NEW k \in 0..Len(q)
        PROVE  h[k] = IF k = 0 THEN <<>>
                      ELSE IF k \in S THEN Append(h[k - 1], q[k]) ELSE h[k - 1]
    <3>1. CASE k = 0 BY <1>2, <3>1 DEF Selections
    <3>2. CASE k # 0
      <4>1. k \in 1..Len(q) BY <1>1, <3>2
      <4> QED BY <1>2, <3>2, <4>1 DEF Selections
    <3> QED BY <3>1, <3>2
  <2> QED BY <2>1
<1>4. Rec(f) BY <1>3
<1>5. Select(q, S) = f[Len(q)] BY DEF Select
<1> HIDE DEF f
<1>6. Selections(q, Len(q), S, f)
  <2>1. f[0] = <<>> BY <1>1, <1>4
  <2>2. ASSUME NEW k \in 1..Len(q)
        PROVE  f[k] = IF k \in S THEN Append(f[k - 1], q[k]) ELSE f[k - 1]
    <3>1. k \in 0..Len(q) /\ k # 0 BY <1>1
    <3> QED BY <1>4, <3>1
  <2> QED BY <2>1, <2>2 DEF Selections
<1> QED BY <1>5, <1>6, SelectionFacts

\* The bytes of the blocks of q are received.
Held(q, have) == \A k \in 1..Len(q) : BytesOf(q[k]) \subseteq have

\* The blocks that are touched become one (TcpRxBuffer::UpdateSackList).
LEMMA UpdateSackListFits ==
  ASSUME NEW q \in Seq(Block), NEW have, Held(q, have),
         NEW head \in 1..Data, NEW tail \in 1..(Data + 1),
         \A x \in 1..Data : head <= x /\ x < tail => x \in have
  PROVE  LET r == UpdateSackList(q, head, tail)
         IN  r \in Seq(Block) /\ Held(r, have)
<1> DEFINE left == {k \in DOMAIN q : q[k].second = head}
           right == {k \in DOMAIN q : q[k].first = tail}
<1>0. /\ Len(q) \in Nat /\ DOMAIN q = 1..Len(q)
      /\ \A k \in 1..Len(q) : q[k] \in Block /\ q[k].first \in 1..Data /\ q[k].second \in 1..(Data + 1)
  <2>1. Len(q) \in Nat /\ DOMAIN q = 1..Len(q) /\ \A k \in 1..Len(q) : q[k] \in Block OBVIOUS
  <2> QED BY <2>1 DEF Block
<1>01. Data \in Nat BY Constants
<1>1. left \in SUBSET Nat /\ right \in SUBSET Nat /\ left \subseteq 1..Len(q) /\ right \subseteq 1..Len(q)
  BY <1>0
<1>2. PICK a, z : /\ a = IF left = {} THEN head ELSE q[Min(left)].first
                  /\ z = IF right = {} THEN tail ELSE q[Min(right)].second
  OBVIOUS
<1>3. left # {} => Min(left) \in left
  <2> HIDE DEF left
  <2> QED BY <1>1, MinFacts
<1>4. right # {} => Min(right) \in right
  <2> HIDE DEF right
  <2> QED BY <1>1, MinFacts
<1>5. a \in 1..Data /\ z \in 1..(Data + 1) BY <1>0, <1>2, <1>3, <1>4
<1> DEFINE one == [first |-> a, second |-> z]
<1>6. one \in Block /\ one.first = a /\ one.second = z BY <1>5 DEF Block
<1>7. ASSUME NEW x \in BytesOf(one) PROVE x \in have
  <2>1. x \in 1..Data /\ a <= x /\ x < z BY <1>6 DEF BytesOf
  <2>2. CASE x < head
    <3>1. left # {} BY <1>2, <2>1, <2>2
    <3>2. PICK k \in 1..Len(q) : k = Min(left) /\ q[k].second = head /\ a = q[k].first
      BY <1>0, <1>2, <1>3, <3>1
    <3>3. x \in BytesOf(q[k]) BY <2>1, <2>2, <3>2 DEF BytesOf
    <3> QED BY <3>3 DEF Held
  <2>3. CASE head <= x /\ x < tail BY <2>1, <2>3
  <2>4. CASE tail <= x
    <3>1. right # {} BY <1>2, <2>1, <2>4
    <3>2. PICK k \in 1..Len(q) : k = Min(right) /\ q[k].first = tail /\ z = q[k].second
      BY <1>0, <1>2, <1>4, <3>1
    <3>3. x \in BytesOf(q[k]) BY <2>1, <2>4, <3>2 DEF BytesOf
    <3> QED BY <3>3 DEF Held
  <2>5. x < head \/ (head <= x /\ x < tail) \/ tail <= x BY <2>1
  <2> QED BY <2>2, <2>3, <2>4, <2>5
<1> HIDE DEF one
<1>8. PICK p : p = Select(q, DOMAIN q \ (left \cup right)) OBVIOUS
<1>9. Selected(q, DOMAIN q \ (left \cup right), p)
  <2> HIDE DEF left, right
  <2> QED BY <1>8, SelectFacts
<1>10. p \in Seq(Block) /\ \A i \in 1..Len(p) : \E k \in 1..Len(q) : p[i] = q[k]
  BY <1>9 DEF Selected
<1>11. PICK r : r = <<one>> \o p OBVIOUS
<1>12. /\ r \in Seq(Block) /\ Len(r) = Len(p) + 1 /\ r[1] = one /\ Len(p) \in Nat
       /\ \A i \in 1..Len(p) : r[i + 1] = p[i]
  BY <1>6, <1>10, <1>11
<1>13. ASSUME NEW i \in 1..Len(r) PROVE BytesOf(r[i]) \subseteq have
  <2>1. CASE i = 1 BY <1>7, <1>12, <2>1
  <2>2. CASE i # 1
    <3>1. i - 1 \in 1..Len(p) /\ (i - 1) + 1 = i BY <1>12, <2>2
    <3>2. r[i] = p[i - 1]
      <4>1. r[(i - 1) + 1] = p[i - 1] BY <1>12, <3>1
      <4> QED BY <3>1, <4>1
    <3>3. PICK k \in 1..Len(q) : p[i - 1] = q[k] BY <1>10, <3>1
    <3> QED BY <3>2, <3>3 DEF Held
  <2> QED BY <2>1, <2>2
<1>14. UpdateSackList(q, head, tail) = r
  BY <1>2, <1>8, <1>11 DEF UpdateSackList, one
<1> QED BY <1>12, <1>13, <1>14 DEF Held

-----------------------------------------------------------------------------
\* Data at the receiver.

\* The bytes the receiver has.
Received(r) == r.early \cup 1..(r.next - 1)

\* What is beyond a gap lies after the next byte, and so do the blocks.
Taking(r) ==
  /\ r \in Receiver
  /\ \A x \in r.early : r.next < x
  /\ \A k \in 1..Len(r.sacks) : r.next < r.sacks[k].first
  /\ Held(r.sacks, r.early)

\* All that is received was sent.
Below(r, e) == r.next <= e /\ \A x \in r.early : x < e

\* The fields of the receiver.
LEMMA ReceiverFacts ==
  ASSUME NEW r \in Receiver
  PROVE  /\ r.next \in 1..(Data + 1) /\ r.early \subseteq 1..Data /\ r.sacks \in Seq(Block)
         /\ r.delAck \in 0..(DelAckMax - 1) /\ r.out \in Seq(Ack)
         /\ Len(r.sacks) \in Nat /\ DOMAIN r.sacks = 1..Len(r.sacks)
<1>1. r.sacks \in Seq(Block) BY DEF Receiver
<1> QED BY <1>1 DEF Receiver

\* A part of a segment: without gaps but for what was there before.
Fresh(r, bytes) ==
  /\ bytes \subseteq 1..Data /\ bytes # {}
  /\ \A x \in bytes : r.next <= x /\ x \notin r.early
  /\ \A x \in 1..Data : (\E y, z \in bytes : y <= x /\ x <= z) => x \in r.early \cup bytes

\* Bytes are added (TcpRxBuffer::Add): the receiver has what it had, and them.
LEMMA AddFits ==
  ASSUME NEW r, Taking(r), NEW bytes, Fresh(r, bytes), NEW e \in 1..(Data + 1), Below(r, e),
         \A x \in bytes : x < e
  PROVE  LET s == Add(r, bytes)
         IN  /\ Taking(s) /\ Below(s, e) /\ r.next <= s.next /\ s.out = r.out
             /\ Received(s) = Received(r) \cup bytes
<1>0. /\ Data \in Nat /\ r \in Receiver
      /\ r.next \in 1..(Data + 1) /\ r.early \subseteq 1..Data /\ r.sacks \in Seq(Block)
  BY ReceiverFacts, Constants DEF Taking
<1>1. PICK have : have = r.early \cup bytes OBVIOUS
<1>2. have \subseteq 1..Data /\ (\A x \in have : x < e /\ x >= r.next) /\ bytes \subseteq have
  <2>1. bytes \subseteq 1..Data BY DEF Fresh
  <2>2. ASSUME NEW x \in have PROVE x < e /\ x >= r.next
    <3>1. CASE x \in r.early
      <4>1. r.next < x /\ x < e BY <3>1 DEF Taking, Below
      <4> QED BY <1>0, <3>1, <4>1
    <3>2. CASE x \in bytes
      <4>1. r.next <= x /\ x < e BY <3>2 DEF Fresh
      <4> QED BY <1>0, <2>1, <3>2, <4>1
    <3> QED BY <1>1, <3>1, <3>2
  <2> QED BY <1>0, <1>1, <2>1, <2>2
<1> DEFINE Free == {q \in r.next..(Data + 1) : q \notin have}
<1>3. Free \in SUBSET Nat /\ Free # {}
  <2>1. Data + 1 \in Free BY <1>0, <1>2
  <2> QED BY <1>0, <2>1
<1>4. PICK gap \in Free : \A y \in Free : gap <= y
  <2> HIDE DEF Free
  <2> QED BY <1>3, MinFacts
<1>5. \E q \in r.next..(Data + 1) : q \notin have /\ r.next..(q - 1) \subseteq have
  <2>1. ASSUME NEW x \in r.next..(gap - 1) PROVE x \in have
    <3>1. x \in r.next..(Data + 1) /\ ~(gap <= x) BY <1>0, <1>4
    <3> QED BY <1>4, <3>1
  <2> QED BY <1>4, <2>1
<1>6. PICK next : next = CHOOSE q \in r.next..(Data + 1) : q \notin have /\ r.next..(q - 1) \subseteq have
  OBVIOUS
<1>7. next \in r.next..(Data + 1) /\ next \notin have /\ r.next..(next - 1) \subseteq have
  BY <1>5, <1>6
<1>8. PICK head \in 1..Data, last \in 1..Data :
        head = Min(bytes) /\ last = Max(bytes) /\ head \in bytes /\ last \in bytes
  <2>1. bytes \in SUBSET Nat /\ bytes \in SUBSET (1..Data) /\ bytes # {} BY <1>0 DEF Fresh
  <2>2. Min(bytes) \in bytes BY <2>1, MinFacts
  <2>3. Max(bytes) \in bytes BY <1>0, <2>1, MaxFacts
  <2> QED BY <2>1, <2>2, <2>3
<1>9. PICK sacks : sacks = IF head > r.next THEN UpdateSackList(r.sacks, head, last + 1) ELSE r.sacks
  OBVIOUS
<1>10. sacks \in Seq(Block) /\ Held(sacks, have)
  <2>1. Held(r.sacks, have) BY <1>1 DEF Taking, Held
  <2>2. ASSUME NEW x \in 1..Data, head <= x, x < last + 1 PROVE x \in have
    <3>1. x <= last BY <2>2
    <3> QED BY <1>1, <1>8, <2>2, <3>1 DEF Fresh
  <2>3. last + 1 \in 1..(Data + 1) BY <1>0
  <2>4. UpdateSackList(r.sacks, head, last + 1) \in Seq(Block)
        /\ Held(UpdateSackList(r.sacks, head, last + 1), have)
    BY <1>0, <2>1, <2>2, <2>3, UpdateSackListFits
  <2> QED BY <1>0, <1>9, <2>1, <2>4
<1>11. PICK later : later = Select(sacks, {k \in DOMAIN sacks : sacks[k].second > next}) OBVIOUS
<1>12. /\ later \in Seq(Block)
       /\ \A i \in 1..Len(later) : \E k \in 1..Len(sacks) : sacks[k].second > next /\ later[i] = sacks[k]
  <2> DEFINE S == {k \in DOMAIN sacks : sacks[k].second > next}
  <2>1. \A k \in S : sacks[k].second > next OBVIOUS
  <2>2. later = Select(sacks, S) BY <1>11
  <2> HIDE DEF S
  <2>3. Selected(sacks, S, later) BY <1>10, <2>2, SelectFacts
  <2> QED BY <2>1, <2>3 DEF Selected
<1>13. PICK early : early = {q \in have : q > next} OBVIOUS
<1>14. ASSUME NEW i \in 1..Len(later)
       PROVE  next < later[i].first /\ BytesOf(later[i]) \subseteq early
  <2>1. PICK k \in 1..Len(sacks) : sacks[k].second > next /\ later[i] = sacks[k] BY <1>12
  <2>2. sacks[k].first \in 1..Data /\ sacks[k].second \in 1..(Data + 1)
    <3>1. sacks[k] \in Block BY <1>10, <2>1
    <3> QED BY <3>1 DEF Block
  <2>3. BytesOf(sacks[k]) \subseteq have BY <1>10 DEF Held
  <2>4. next < sacks[k].first
    <3> SUFFICES ASSUME ~(next < sacks[k].first) PROVE FALSE OBVIOUS
    <3>1. next \in 1..Data /\ sacks[k].first <= next /\ next < sacks[k].second
      BY SMTT(30), <1>0, <1>7, <2>1, <2>2
    <3>2. next \in BytesOf(sacks[k]) BY <3>1 DEF BytesOf
    <3> QED BY <1>7, <2>3, <3>2
  <2>5. ASSUME NEW x \in BytesOf(sacks[k]) PROVE x \in early
    <3>1. x \in have /\ x \in 1..Data /\ sacks[k].first <= x BY <2>3 DEF BytesOf
    <3>2. x > next BY <1>0, <1>7, <2>2, <2>4, <3>1
    <3> QED BY <1>13, <3>1, <3>2
  <2> QED BY <2>1, <2>4, <2>5
<1>15. PICK s : s = Add(r, bytes) OBVIOUS
<1>16. s = [r EXCEPT !.early = early, !.next = next, !.sacks = later]
  <2> DEFINE h == r.early \cup bytes
             n == CHOOSE q \in r.next..(Data + 1) : q \notin h /\ r.next..(q - 1) \subseteq h
             g == IF Min(bytes) > r.next
                  THEN UpdateSackList(r.sacks, Min(bytes), Max(bytes) + 1) ELSE r.sacks
  <2>1. Add(r, bytes) = [r EXCEPT !.early = {q \in h : q > n}, !.next = n, !.sacks = Select(g, {k \in DOMAIN g : g[k].second > n})]
    BY DEF Add, Then
  <2>2. g = sacks BY <1>8, <1>9
  <2>3. n = next BY <1>1, <1>6
  <2>4. h = have BY <1>1
  <2> HIDE DEF g, n, h
  <2> QED BY <1>11, <1>13, <1>15, <2>1, <2>2, <2>3, <2>4
<1>17. s.early = early /\ s.next = next /\ s.sacks = later /\ s.out = r.out
  BY <1>0, <1>16 DEF Receiver
<1>18. next \in 1..(Data + 1) /\ early \subseteq 1..Data
  <2>1. early \subseteq have BY <1>13
  <2> QED BY <1>0, <1>2, <1>7, <2>1
<1>19. s \in Receiver BY <1>0, <1>12, <1>16, <1>18 DEF Receiver
<1>20. Taking(s)
  <2>1. \A x \in early : next < x BY <1>7, <1>13, <1>18
  <2>2. Held(later, early) BY <1>14 DEF Held
  <2> QED BY <1>14, <1>17, <1>19, <2>1, <2>2 DEF Taking
<1>21. Below(s, e)
  <2>1. \A x \in early : x < e BY <1>2, <1>13
  <2>2. next <= e
    <3> SUFFICES ASSUME ~(next <= e) PROVE FALSE OBVIOUS
    <3>1. e \in r.next..(next - 1) BY <1>0, <1>7 DEF Below
    <3>2. e \in have BY <1>7, <3>1
    <3> QED BY <1>2, <3>2
  <2> QED BY <1>17, <2>1, <2>2 DEF Below
<1>22. r.next <= next BY <1>0, <1>7
<1>23. Received(s) = Received(r) \cup bytes
  <2>1. ASSUME NEW x \in Received(s) PROVE x \in Received(r) \cup bytes
    <3>1. x \in early \/ x \in 1..(next - 1) BY <1>17 DEF Received
    <3>2. CASE x \in early BY <1>1, <1>13, <3>2 DEF Received
    <3>3. CASE x \in 1..(next - 1)
      <4>1. x \in 1..(r.next - 1) \/ x \in r.next..(next - 1) BY <1>0, <1>7, <3>3
      <4> QED BY <1>1, <1>7, <4>1 DEF Received
    <3> QED BY <3>1, <3>2, <3>3
  <2>2. ASSUME NEW x \in Received(r) \cup bytes PROVE x \in Received(s)
    <3>1. x \in have \/ x \in 1..(r.next - 1) BY <1>1 DEF Received
    <3>2. CASE x \in have
      <4>1. x # next /\ x \in 1..Data BY <1>2, <1>7, <3>2
      <4>2. x > next \/ x \in 1..(next - 1) BY <1>0, <1>7, <4>1
      <4> QED BY <1>13, <1>17, <3>2, <4>2 DEF Received
    <3>3. CASE x \in 1..(r.next - 1)
      <4>1. x \in 1..(next - 1) BY <1>0, <1>7, <3>3
      <4> QED BY <1>17, <4>1 DEF Received
    <3> QED BY <3>1, <3>2, <3>3
  <2> QED BY <2>1, <2>2
<1> QED BY <1>15, <1>17, <1>20, <1>21, <1>22, <1>23

\* An acknowledgement says what the receiver has.
Acknowledges(m, r) == m = [ack |-> r.next, sacks |-> r.sacks]

\* What the receiver answers: nothing, or how far it has come.
Replies(s) == s.out = <<>> \/ (Len(s.out) = 1 /\ Acknowledges(s.out[1], s))

\* An acknowledgement is sent.
LEMMA SendEmptyAckFits ==
  ASSUME NEW r, Taking(r)
  PROVE  LET s == SendEmptyAck(r)
         IN  /\ Taking(s) /\ s.next = r.next /\ s.early = r.early /\ s.sacks = r.sacks
             /\ Len(s.out) = 1 /\ Acknowledges(s.out[1], s)
<1>1. r \in Receiver BY DEF Taking
<1>2. r.next \in 1..(Data + 1) /\ r.sacks \in Seq(Block) BY <1>1, ReceiverFacts
<1> DEFINE m == [ack |-> r.next, sacks |-> r.sacks]
           s == SendEmptyAck(r)
<1>3. m \in Ack BY <1>2 DEF Ack
<1> HIDE DEF m
<1>4. <<m>> \in Seq(Ack) /\ Len(<<m>>) = 1 /\ <<m>>[1] = m BY <1>3
<1>5. s = [r EXCEPT !.delAck = 0, !.out = <<m>>] BY DEF SendEmptyAck, m
<1> HIDE DEF s
<1>6. s.next = r.next /\ s.early = r.early /\ s.sacks = r.sacks /\ s.out = <<m>>
  BY <1>1, <1>5 DEF Receiver
<1>7. s \in Receiver
  <2>1. 0 \in 0..(DelAckMax - 1) BY Constants
  <2> QED BY <1>1, <1>4, <1>5, <2>1 DEF Receiver
<1>8. Taking(s) BY <1>6, <1>7 DEF Taking
<1>9. m = [ack |-> s.next, sacks |-> s.sacks] BY <1>6 DEF m
<1>10. Len(s.out) = 1 /\ s.out[1] = m BY <1>4, <1>6
<1> QED BY <1>6, <1>8, <1>9, <1>10 DEF s, Acknowledges

\* The receiver answers at once or later.
LEMMA AnswerFits ==
  ASSUME NEW r \in Receiver, NEW s, Taking(s), s.out = <<>>, NEW m
  PROVE  LET t == Answer(r, s, m)
         IN  /\ Taking(t) /\ t.next = s.next /\ t.early = s.early /\ t.sacks = s.sacks
             /\ Replies(t)
<1>1. s \in Receiver /\ s.delAck \in 0..(DelAckMax - 1) /\ DelAckMax \in Nat \ {0}
  BY ReceiverFacts, Constants DEF Taking
<1>2. PICK now \in BOOLEAN :
        now = (s.early # {} \/ s.next > r.next + m.len \/ s.delAck + 1 >= DelAckMax)
  <2>1. (s.early # {} \/ s.next > r.next + m.len \/ s.delAck + 1 >= DelAckMax) \in BOOLEAN OBVIOUS
  <2> QED BY <2>1
<1>3. PICK t : t = Answer(r, s, m) OBVIOUS
<1>4. CASE now
  <2>1. t = SendEmptyAck(s) BY <1>2, <1>3, <1>4 DEF Answer
  <2> QED BY <1>3, <2>1, SendEmptyAckFits DEF Replies
<1>5. CASE ~now
  <2>1. t = [s EXCEPT !.delAck = @ + 1] BY <1>2, <1>3, <1>5 DEF Answer
  <2>2. s.delAck + 1 \in 0..(DelAckMax - 1)
    <3>1. ~(s.delAck + 1 >= DelAckMax) BY <1>2, <1>5, Zenon
    <3> QED BY <1>1, <3>1
  <2>3. t \in Receiver BY <1>1, <2>1, <2>2 DEF Receiver
  <2>4. t.next = s.next /\ t.early = s.early /\ t.sacks = s.sacks /\ t.out = <<>>
    BY <1>1, <2>1 DEF Receiver
  <2> QED BY <1>3, <2>3, <2>4 DEF Taking, Replies
<1> QED BY <1>4, <1>5

\* A segment arrives (TcpSocketBase::ReceivedData).
LEMMA ReceivedDataFits ==
  ASSUME NEW r, Taking(r), r.out = <<>>, NEW m \in Segment, NEW e \in 1..(Data + 1),
         m.seq + m.len <= e, Below(r, e)
  PROVE  LET t == ReceivedData(r, m)
         IN  /\ Taking(t) /\ Below(t, e) /\ r.next <= t.next /\ Replies(t)
             /\ Received(t) = Received(r) \cup m.seq..(m.seq + m.len - 1)
<1>0. /\ r \in Receiver /\ r.next \in 1..(Data + 1) /\ Data \in Nat
      /\ m.seq \in 1..Data /\ m.len \in 1..Data
  BY ReceiverFacts, Constants DEF Taking, Segment
<1> DEFINE B == {q \in m.seq..(m.seq + m.len - 1) : q >= r.next /\ q \notin r.early}
<1>1. PICK bytes : bytes = B OBVIOUS
<1>2. PICK t : t = ReceivedData(r, m) OBVIOUS
<1>5. bytes \cup Received(r) = Received(r) \cup m.seq..(m.seq + m.len - 1)
  <2>1. ASSUME NEW x \in m.seq..(m.seq + m.len - 1), x \notin bytes PROVE x \in Received(r)
    <3>1. ~(x >= r.next) \/ x \in r.early BY <1>1, <2>1
    <3>2. ~(x >= r.next) => x \in 1..(r.next - 1) BY <1>0
    <3> QED BY <3>1, <3>2 DEF Received
  <2>2. bytes \subseteq m.seq..(m.seq + m.len - 1) BY <1>1
  <2> QED BY <2>1, <2>2
<1>3. CASE bytes = {}
  <2>1. t = SendEmptyAck(r) BY <1>1, <1>2, <1>3 DEF ReceivedData, Then
  <2>2. /\ Taking(t) /\ t.next = r.next /\ t.early = r.early
        /\ Len(t.out) = 1 /\ Acknowledges(t.out[1], t)
    BY <2>1, SendEmptyAckFits
  <2>3. r.next <= t.next BY <1>0, <2>2
  <2>4. Received(t) = Received(r) BY <2>2 DEF Received
  <2>5. Received(t) = Received(r) \cup m.seq..(m.seq + m.len - 1) BY <1>3, <1>5, <2>4
  <2> QED BY <1>2, <2>2, <2>3, <2>5 DEF Below, Replies
<1>4. CASE bytes # {}
  <2>1. t = Answer(r, Add(r, bytes), m) BY <1>1, <1>2, <1>4 DEF ReceivedData, Then
  <2>2. \A x \in bytes : x \in 1..Data /\ x < e
    <3> SUFFICES ASSUME NEW x \in bytes PROVE x \in 1..Data /\ x < e OBVIOUS
    <3>1. x \in m.seq..(m.seq + m.len - 1) BY <1>1
    <3> QED BY <1>0, <3>1
  <2>3. Fresh(r, bytes)
    <3>1. \A x \in bytes : r.next <= x /\ x \notin r.early
      <4> SUFFICES ASSUME NEW x \in bytes PROVE r.next <= x /\ x \notin r.early OBVIOUS
      <4>1. x >= r.next /\ x \notin r.early BY <1>1
      <4> QED BY <1>0, <2>2, <4>1
    <3>2. ASSUME NEW x \in 1..Data, NEW y \in bytes, NEW z \in bytes, y <= x, x <= z
          PROVE  x \in r.early \cup bytes
      <4>1. /\ y \in m.seq..(m.seq + m.len - 1) /\ y >= r.next
            /\ z \in m.seq..(m.seq + m.len - 1)
        BY <1>1
      <4>2. x \in m.seq..(m.seq + m.len - 1) /\ x >= r.next BY <1>0, <3>2, <4>1
      <4> QED BY <1>1, <4>2
    <3>3. \A x \in 1..Data : (\E y, z \in bytes : y <= x /\ x <= z) => x \in r.early \cup bytes
      BY <3>2
    <3> QED BY <1>4, <2>2, <3>1, <3>3 DEF Fresh
  <2>4. PICK s : s = Add(r, bytes) OBVIOUS
  <2>5. /\ Taking(s) /\ Below(s, e) /\ r.next <= s.next /\ s.out = <<>>
        /\ Received(s) = Received(r) \cup bytes
    BY <2>2, <2>3, <2>4, AddFits
  <2>6. t = Answer(r, s, m) BY <2>1, <2>4
  <2>7. Taking(t) /\ t.next = s.next /\ t.early = s.early /\ t.sacks = s.sacks /\ Replies(t)
    BY <1>0, <2>5, <2>6, AnswerFits
  <2>8. Below(t, e) /\ r.next <= t.next BY <2>5, <2>7 DEF Below
  <2>9. Received(t) = Received(s) BY <2>7 DEF Received
  <2>10. Received(t) = Received(r) \cup m.seq..(m.seq + m.len - 1) BY <1>5, <2>5, <2>9
  <2> QED BY <1>2, <2>7, <2>8, <2>10
<1> QED BY <1>3, <1>4

-----------------------------------------------------------------------------
\* The acknowledgements on their way.

\* m is an acknowledgement of r for a sender with the buffer b.
Coming(m, b, r) ==
  /\ m \in Ack /\ b.first <= m.ack /\ m.ack <= r.next
  /\ m.ack \notin SackedBytes(b) /\ AllBytes(m.sacks) \subseteq Received(r)
  /\ \A k \in DOMAIN m.sacks : m.ack < m.sacks[k].first

\* n was sent after m: it does not end where m has a block.
After(m, n) == m.ack <= n.ack /\ n.ack \notin AllBytes(m.sacks)

\* Every acknowledgement of q is right, and was sent after those before it.
OnTheWay(q, b, r) ==
  /\ q \in Seq(Ack)
  /\ \A k \in 1..Len(q) : Coming(q[k], b, r)
  /\ \A i, j \in 1..Len(q) : i < j => After(q[i], q[j])

\* p is a part of q, in the same order.
PartOf(p, q, f) ==
  /\ p \in Seq(Ack) /\ \A i \in 1..Len(p) : f[i] \in 1..Len(q) /\ p[i] = q[f[i]]
  /\ \A i, j \in 1..Len(p) : i < j => f[i] < f[j]

\* A part of the acknowledgements is right if all are.
LEMMA PartOnTheWay ==
  ASSUME NEW q, NEW b, NEW r, OnTheWay(q, b, r), NEW p, NEW f, PartOf(p, q, f)
  PROVE  OnTheWay(p, b, r)
<1>1. \A k \in 1..Len(p) : Coming(p[k], b, r) BY DEF OnTheWay, PartOf
<1>2. ASSUME NEW i \in 1..Len(p), NEW j \in 1..Len(p), i < j PROVE After(p[i], p[j])
  BY <1>2 DEF OnTheWay, PartOf
<1> QED BY <1>1, <1>2 DEF OnTheWay, PartOf

\* The tail is a part.
LEMMA TailIsPart ==
  ASSUME NEW q \in Seq(Ack), q # <<>>
  PROVE  PartOf(Tail(q), q, [i \in 1..(Len(q) - 1) |-> i + 1])
<1> DEFINE f == [i \in 1..(Len(q) - 1) |-> i + 1]
<1>0. PICK n \in Nat : n = Len(q) /\ n # 0 OBVIOUS
<1>1. PICK p : p = Tail(q) /\ n = Len(q) /\ n # 0 BY <1>0
<1>2. p \in Seq(Ack) /\ Len(p) = n - 1 /\ \A i \in 1..(n - 1) : p[i] = q[i + 1] BY <1>1
<1>3. \A i \in 1..(n - 1) : f[i] = i + 1 BY <1>1
<1> HIDE DEF f
<1>4. ASSUME NEW i \in 1..Len(p) PROVE f[i] \in 1..Len(q) /\ p[i] = q[f[i]]
  <2>1. i \in 1..(n - 1) /\ i + 1 \in 1..n BY <1>1, <1>2
  <2> QED BY <1>1, <1>2, <1>3, <2>1
<1>5. ASSUME NEW i \in 1..Len(p), NEW j \in 1..Len(p), i < j PROVE f[i] < f[j]
  <2>1. f[i] = i + 1 /\ f[j] = j + 1 BY <1>2, <1>3
  <2> QED BY <1>5, <2>1
<1> QED BY <1>1, <1>2, <1>4, <1>5 DEF PartOf, f

\* All but one are a part.
LEMMA RemovedIsPart ==
  ASSUME NEW q \in Seq(Ack), NEW k \in 1..Len(q)
  PROVE  PartOf(RemoveAt(q, k), q, [i \in 1..Len(q) |-> IF i < k THEN i ELSE i + 1])
<1> DEFINE f == [i \in 1..Len(q) |-> IF i < k THEN i ELSE i + 1]
<1>0. PICK n \in Nat : n = Len(q) OBVIOUS
<1>1. k \in 1..n /\ k - 1 \in Nat /\ n - k \in Nat BY <1>0
<1>2. PICK u, v : u = SubSeq(q, 1, k - 1) /\ v = SubSeq(q, k + 1, Len(q)) OBVIOUS
<1>3. u \in Seq(Ack) /\ Len(u) = k - 1 /\ \A i \in 1..(k - 1) : u[i] = q[i] BY <1>0, <1>1, <1>2
<1>4. v \in Seq(Ack) /\ Len(v) = n - k /\ \A i \in 1..(n - k) : v[i] = q[k + i]
  <2>1. /\ v \in Seq(Ack) /\ Len(v) = IF k + 1 <= n THEN n - (k + 1) + 1 ELSE 0
        /\ \A i \in 1..Len(v) : v[i] = q[(k + 1) + i - 1]
    BY <1>0, <1>1, <1>2, SubSeqProperties
  <2>2. Len(v) = n - k BY <1>0, <1>1, <2>1
  <2>3. ASSUME NEW i \in 1..(n - k) PROVE v[i] = q[k + i]
    <3>1. (k + 1) + i - 1 = k + i BY <1>1
    <3> QED BY <2>1, <2>2, <3>1
  <2> QED BY <2>1, <2>2, <2>3
<1>5. PICK p : p = u \o v OBVIOUS
<1>6. /\ p \in Seq(Ack) /\ Len(p) = Len(u) + Len(v)
      /\ \A i \in 1..Len(u) : p[i] = u[i]
      /\ \A i \in 1..Len(v) : p[Len(u) + i] = v[i]
  <2>1. u \in Seq(Ack) /\ v \in Seq(Ack) BY <1>3, <1>4
  <2> QED BY <1>5, <2>1, JoinFacts
<1>7. Len(p) = n - 1 BY <1>1, <1>3, <1>4, <1>6
<1>8. \A i \in 1..n : f[i] = IF i < k THEN i ELSE i + 1 BY <1>0
<1> HIDE DEF f
<1>9. ASSUME NEW i \in 1..Len(p) PROVE f[i] \in 1..Len(q) /\ p[i] = q[f[i]]
  <2>1. i \in 1..n /\ i <= n - 1 BY <1>0, <1>7
  <2>2. CASE i < k
    <3>1. i \in 1..(k - 1) /\ f[i] = i BY <1>1, <1>8, <2>1, <2>2
    <3> QED BY <1>0, <1>3, <1>6, <2>1, <3>1
  <2>3. CASE ~(i < k)
    <3>1. PICK j \in 1..(n - k) : i = (k - 1) + j
      <4>1. i - (k - 1) \in 1..(n - k) /\ i = (k - 1) + (i - (k - 1)) BY <1>1, <2>1, <2>3
      <4> QED BY <4>1
    <3>2. f[i] = i + 1 /\ i + 1 = k + j /\ i + 1 \in 1..n BY <1>1, <1>8, <2>1, <2>3, <3>1
    <3>3. p[i] = v[j] BY <1>3, <1>4, <1>6, <3>1
    <3> QED BY <1>0, <1>4, <3>2, <3>3
  <2> QED BY <2>2, <2>3
<1>10. ASSUME NEW i \in 1..Len(p), NEW j \in 1..Len(p), i < j PROVE f[i] < f[j]
  <2>1. i \in 1..n /\ j \in 1..n BY <1>0, <1>7
  <2>2. f[i] = (IF i < k THEN i ELSE i + 1) /\ f[j] = (IF j < k THEN j ELSE j + 1) BY <1>8, <2>1
  <2> QED BY <1>1, <1>10, <2>1, <2>2
<1>11. RemoveAt(q, k) = p BY <1>2, <1>5 DEF RemoveAt
<1> QED BY <1>6, <1>9, <1>10, <1>11 DEF PartOf, f

\* What an acknowledgement on its way says.
LEMMA ComingFacts ==
  ASSUME NEW m, NEW b, NEW r, Coming(m, b, r)
  PROVE  m \in Ack /\ m.ack \in 1..(Data + 1) /\ m.sacks \in Seq(Block) /\ b.first <= m.ack /\ m.ack <= r.next
BY DEF Coming, Ack

\* The first acknowledgement is taken in.
LEMMA QueueRest ==
  ASSUME NEW q, NEW b, NEW c, NEW r, OnTheWay(q, b, r), q # <<>>, c.first = q[1].ack,
         SackedBytes(c) \subseteq SackedBytes(b) \cup AllBytes(q[1].sacks)
  PROVE  OnTheWay(Tail(q), c, r)
<1>1. q \in Seq(Ack) BY DEF OnTheWay
<1>2. PICK n \in Nat : n = Len(q) /\ n # 0 BY <1>1
<1>3. PICK p : p = Tail(q) OBVIOUS
<1>4. OnTheWay(p, b, r)
  <2> DEFINE f == [i \in 1..(Len(q) - 1) |-> i + 1]
  <2>1. PartOf(p, q, f) BY <1>1, <1>3, TailIsPart
  <2> HIDE DEF f
  <2> QED BY <2>1, PartOnTheWay
<1>5. p \in Seq(Ack) /\ Len(p) = n - 1 /\ \A i \in 1..(n - 1) : p[i] = q[i + 1] BY <1>1, <1>2, <1>3
<1>6. ASSUME NEW i \in 1..Len(p) PROVE Coming(p[i], c, r)
  <2>1. i + 1 \in 1..Len(q) /\ 1 \in 1..Len(q) /\ 1 < i + 1 /\ p[i] = q[i + 1] BY <1>2, <1>5
  <2>2. After(q[1], p[i])
    <3>1. After(q[1], q[i + 1]) BY <2>1 DEF OnTheWay
    <3> QED BY <2>1, <3>1
  <2>3. Coming(p[i], b, r) BY <1>4 DEF OnTheWay
  <2>4. p[i].ack \notin SackedBytes(c) /\ c.first <= p[i].ack BY <2>2, <2>3 DEF After, Coming
  <2> QED BY <2>3, <2>4 DEF Coming
<1> QED BY <1>3, <1>4, <1>6 DEF OnTheWay

\* The sender sends, or the receiver gets something.
LEMMA QueueStays ==
  ASSUME NEW q, NEW b, NEW c, NEW r, NEW t, OnTheWay(q, b, r), c.first = b.first,
         SackedBytes(c) = SackedBytes(b), r.next \in Nat, t.next \in Nat, r.next <= t.next,
         Received(r) \subseteq Received(t)
  PROVE  OnTheWay(q, c, t)
<1>1. ASSUME NEW k \in 1..Len(q) PROVE Coming(q[k], c, t)
  <2>1. Coming(q[k], b, r) BY DEF OnTheWay
  <2>2. q[k].ack \in 1..(Data + 1) BY <2>1, ComingFacts
  <2>3. q[k].ack <= t.next
    <3>1. q[k].ack <= r.next BY <2>1 DEF Coming
    <3>2. q[k].ack \in Int BY <2>2
    <3> QED BY <3>1, <3>2
  <2> QED BY <2>1, <2>3 DEF Coming
<1> QED BY <1>1 DEF OnTheWay

\* The receiver waits for a byte that no block holds.
LEMMA NextNotReceived ==
  ASSUME NEW r, Taking(r)
  PROVE  r.next \notin Received(r)
<1>1. r.next \in 1..(Data + 1) /\ r.early \subseteq 1..Data BY ReceiverFacts DEF Taking
<1>2. r.next \notin r.early BY <1>1 DEF Taking
<1>3. r.next \notin 1..(r.next - 1) BY <1>1
<1> QED BY <1>2, <1>3 DEF Received

\* Of a cell S holds all or nothing.
Whole(S) ==
  \A e \in Edges : e # Data + 1 =>
    \A x \in S : e <= x /\ x < Succ(e) => e..(Succ(e) - 1) \subseteq S

\* A receiver of whole cells waits for an edge.
LEMMA NextIsEdge ==
  ASSUME NEW r, Taking(r), Whole(Received(r))
  PROVE  r.next \in Edges
<1>1. r.next \in 1..(Data + 1) /\ Data \in Nat BY ReceiverFacts, Constants DEF Taking
<1>2. CASE r.next = Data + 1 BY <1>2, EdgeFacts
<1>3. CASE r.next # Data + 1
  <2>1. r.next \in 1..Data BY <1>1, <1>3
  <2>2. PICK e \in Edges : e # Data + 1 /\ e <= r.next /\ r.next < Succ(e) BY <2>1, EdgeBelow
  <2>3. e \in 1..Data /\ e < Succ(e) /\ Succ(e) \in Nat BY <2>2, EdgeFacts, SuccFacts
  <2>4. CASE e = r.next BY <2>4
  <2>5. CASE e # r.next
    <3>1. e \in 1..(r.next - 1) /\ e <= e BY <1>1, <2>2, <2>3, <2>5
    <3>2. e \in Received(r) BY <3>1 DEF Received
    <3>3. e..(Succ(e) - 1) \subseteq Received(r) BY <2>2, <2>3, <3>1, <3>2 DEF Whole
    <3>4. r.next \in e..(Succ(e) - 1) BY <1>1, <2>2, <2>3
    <3> QED BY <3>3, <3>4, NextNotReceived
  <2> QED BY <2>4, <2>5
<1> QED BY <1>2, <1>3

\* A cell more.
LEMMA WholeWithCell ==
  ASSUME NEW S, Whole(S), NEW f \in Edges, f # Data + 1
  PROVE  Whole(S \cup f..(Succ(f) - 1))
<1> DEFINE T == S \cup f..(Succ(f) - 1)
<1> SUFFICES ASSUME NEW e \in Edges, e # Data + 1, NEW x \in T, e <= x, x < Succ(e)
             PROVE  e..(Succ(e) - 1) \subseteq T
  BY DEF Whole
<1>1. CASE x \in S
  <2>1. e..(Succ(e) - 1) \subseteq S BY <1>1 DEF Whole
  <2> QED BY <2>1
<1>2. CASE x \in f..(Succ(f) - 1)
  <2>1. e \in Nat /\ Succ(e) \in Nat /\ f \in Nat /\ Succ(f) \in Nat BY SuccFacts
  <2>2. x \in Int /\ f <= x /\ x < Succ(f) BY <1>2, <2>1
  <2>3. ~(e < f)
    <3> SUFFICES ASSUME e < f PROVE FALSE OBVIOUS
    <3>1. Succ(e) <= f BY EdgesApart
    <3> QED BY <2>1, <2>2, <3>1
  <2>4. ~(f < e)
    <3> SUFFICES ASSUME f < e PROVE FALSE OBVIOUS
    <3>1. Succ(f) <= e BY EdgesApart
    <3> QED BY <2>1, <2>2, <3>1
  <2>5. e = f BY <2>1, <2>3, <2>4
  <2> QED BY <2>5
<1> QED BY <1>1, <1>2

\* Every acknowledgement ends at an edge.
EvenAcks(q) == \A k \in 1..Len(q) : q[k].ack \in Edges

\* Some of them.
LEMMA PartEven ==
  ASSUME NEW q, EvenAcks(q), NEW p, NEW f, PartOf(p, q, f)
  PROVE  EvenAcks(p)
BY DEF EvenAcks, PartOf

\* Those of a receiver of whole cells after the others.
LEMMA ReplyEven ==
  ASSUME NEW q \in Seq(Ack), EvenAcks(q), NEW t, Taking(t), Whole(Received(t)), Replies(t)
  PROVE  EvenAcks(q \o t.out)
<1>1. CASE t.out = <<>>
  <2>1. q \o <<>> = q BY ConcatEmptySeq
  <2> QED BY <1>1, <2>1
<1>2. CASE t.out # <<>>
  <2>1. Len(t.out) = 1 /\ t.out[1].ack = t.next BY <1>2 DEF Replies, Acknowledges
  <2>2. t.out \in Seq(Ack) BY ReceiverFacts DEF Taking
  <2>3. t.next \in Edges BY NextIsEdge
  <2>7. /\ Len(q) \in Nat /\ q \o t.out \in Seq(Ack)
        /\ Len(q \o t.out) = Len(q) + Len(t.out)
        /\ \A k \in 1..(Len(q) + Len(t.out)) :
             (q \o t.out)[k] = IF k <= Len(q) THEN q[k] ELSE t.out[k - Len(q)]
    BY <2>2, ConcatProperties, LenProperties
  <2>4. PICK n \in Nat, p \in Seq(Ack) : n = Len(q) /\ p = q \o t.out BY <2>7, Zenon
  <2>5. Len(p) = n + 1 /\ p[n + 1] = t.out[1] /\ \A k \in 1..n : p[k] = q[k]
    <3>1. PICK y : y = t.out OBVIOUS
    <3>2. Len(y) = 1 /\ Len(p) = n + Len(y)
          /\ \A k \in 1..(n + Len(y)) : p[k] = IF k <= n THEN q[k] ELSE y[k - n]
      BY <2>1, <2>4, <2>7, <3>1, Zenon
    <3>3. Len(p) = n + 1 /\ \A k \in 1..(n + 1) : p[k] = IF k <= n THEN q[k] ELSE y[k - n]
      BY <3>2
    <3>4. p[n + 1] = y[1]
      <4>1. n + 1 \in 1..(n + 1) /\ ~(n + 1 <= n) /\ (n + 1) - n = 1 OBVIOUS
      <4> QED BY <3>3, <4>1
    <3>5. \A k \in 1..n : k \in 1..(n + 1) /\ k <= n OBVIOUS
    <3> QED BY <3>1, <3>3, <3>4, <3>5, Zenon
  <2>6. ASSUME NEW k \in 1..(n + 1) PROVE p[k].ack \in Edges
    <3>1. CASE k = n + 1 BY <2>1, <2>3, <2>5, <3>1
    <3>2. CASE k # n + 1
      <4>1. k \in 1..n BY <3>2
      <4> QED BY <2>4, <2>5, <4>1 DEF EvenAcks
    <3> QED BY <3>1, <3>2
  <2> QED BY <2>4, <2>5, <2>6 DEF EvenAcks
<1> QED BY <1>1, <1>2

\* The receiver answers.
LEMMA QueueReply ==
  ASSUME NEW q, NEW b, NEW r, NEW t, OnTheWay(q, b, r), r \in Receiver, Taking(t), Replies(t),
         r.next <= t.next, Received(r) \subseteq Received(t),
         b.first \in Nat, b.first <= r.next, SackedBytes(b) \subseteq Received(r)
  PROVE  OnTheWay(q \o t.out, b, t)
<1>1. q \in Seq(Ack) BY DEF OnTheWay
<1>2. r.next \in 1..(Data + 1) /\ t \in Receiver /\ t.next \in 1..(Data + 1) /\ t.sacks \in Seq(Block)
  BY ReceiverFacts DEF Taking
<1>3. OnTheWay(q, b, t)
  <2>1. r.next \in Nat /\ t.next \in Nat BY <1>2
  <2> QED BY <2>1, QueueStays
<1>4. CASE t.out = <<>>
  <2>1. q \o <<>> = q BY <1>1, ConcatEmptySeq
  <2> QED BY <1>3, <1>4, <2>1
<1>5. CASE t.out # <<>>
  <2>1. Len(t.out) = 1 /\ Acknowledges(t.out[1], t) BY <1>5 DEF Replies
  <2>2. PICK m : m = t.out[1] OBVIOUS
  <2>3. m = [ack |-> t.next, sacks |-> t.sacks] BY <2>1, <2>2 DEF Acknowledges
  <2>4. m \in Ack /\ m.ack = t.next /\ m.sacks = t.sacks BY <1>2, <2>3 DEF Ack
  <2>5. t.out \in Seq(Ack) BY <1>2, ReceiverFacts
  <2>6. AllBytes(t.sacks) \subseteq t.early
    <3> SUFFICES ASSUME NEW x \in AllBytes(t.sacks) PROVE x \in t.early OBVIOUS
    <3>1. PICK k \in DOMAIN t.sacks : x \in BytesOf(t.sacks[k]) BY DEF AllBytes
    <3>2. k \in 1..Len(t.sacks) BY <1>2
    <3> QED BY <3>1, <3>2 DEF Taking, Held
  <2>7. t.next \notin Received(t) BY NextNotReceived
  <2>8. Coming(m, b, t)
    <3>1. b.first <= t.next /\ t.next <= t.next BY <1>2
    <3>2. AllBytes(t.sacks) \subseteq Received(t) BY <2>6 DEF Received
    <3>3. \A k \in DOMAIN t.sacks : t.next < t.sacks[k].first BY <1>2 DEF Taking
    <3> QED BY <2>4, <2>7, <3>1, <3>2, <3>3 DEF Coming
  <2>9. PICK p, o : p = q \o t.out /\ o = t.out OBVIOUS
  <2>10. /\ p \in Seq(Ack) /\ Len(p) = Len(q) + 1 /\ Len(q) \in Nat
         /\ \A i \in 1..Len(q) : p[i] = q[i]
         /\ p[Len(q) + 1] = m
    <3>1. /\ p \in Seq(Ack) /\ Len(p) = Len(q) + Len(o)
          /\ \A i \in 1..Len(q) : p[i] = q[i]
          /\ \A i \in 1..Len(o) : p[Len(q) + i] = o[i]
      BY <1>1, <2>5, <2>9, JoinFacts
    <3>2. Len(q) \in Nat /\ 1 \in 1..Len(o) /\ Len(o) = 1 /\ o[1] = m BY <1>1, <2>1, <2>2, <2>9
    <3> QED BY <3>1, <3>2
  <2>11. ASSUME NEW i \in 1..Len(p) PROVE Coming(p[i], b, t)
    <3>1. CASE i = Len(q) + 1 BY <2>8, <2>10, <3>1
    <3>2. CASE i # Len(q) + 1
      <4>1. i \in 1..Len(q) /\ p[i] = q[i] BY <2>10, <3>2
      <4> QED BY <1>3, <4>1 DEF OnTheWay
    <3> QED BY <3>1, <3>2
  <2>12. ASSUME NEW i \in 1..Len(p), NEW j \in 1..Len(p), i < j PROVE After(p[i], p[j])
    <3>1. i \in 1..Len(q) /\ p[i] = q[i] BY <2>10, <2>12
    <3>2. CASE j = Len(q) + 1
      <4>1. Coming(q[i], b, t) BY <1>3, <3>1 DEF OnTheWay
      <4>2. p[j] = m BY <2>10, <3>2
      <4> QED BY <2>4, <2>7, <3>1, <4>1, <4>2 DEF After, Coming
    <3>3. CASE j # Len(q) + 1
      <4>1. j \in 1..Len(q) /\ p[j] = q[j] BY <2>10, <3>3
      <4> QED BY <1>3, <2>12, <3>1, <4>1 DEF OnTheWay
    <3> QED BY <3>2, <3>3
  <2> QED BY <2>9, <2>10, <2>11, <2>12 DEF OnTheWay
<1> QED BY <1>4, <1>5

-----------------------------------------------------------------------------
\* The invariant.

\* The sender s goes on by itself, has nothing to wait for, or has a timer.
Awake(s) == (Running(s) /\ Size(s.buf) > 0 /\ ~MaySend(s)) => s.timer

\* Between two events: the sender is able to go on, and what it sent is on its way.
SenderFits == Able(snd) /\ snd.out = <<>> /\ Counted(snd) /\ Awake(snd)

\* Between two events: the receiver waits, and has answered.
ReceiverFits == Taking(rcv) /\ rcv.out = <<>>

\* Every segment on its way is a part of what was sent.
DataFits ==
  /\ IsABag(data) /\ BagToSet(data) \subseteq Segment
  /\ \A m \in BagToSet(data) : m.seq + m.len <= SentEnd(snd.buf)

\* What is sacked was received, what was received was sent, every acknowledgement is right.
BothFit ==
  /\ Below(rcv, SentEnd(snd.buf)) /\ snd.buf.first <= rcv.next
  /\ SackedBytes(snd.buf) \subseteq Received(rcv)
  /\ OnTheWay(acks, snd.buf, rcv)

\* Every segment on its way is a cell.
EvenData == \A m \in BagToSet(data) : Piece(m)

\* The receiver has whole cells, and said so.
EvenReceiver == Whole(Received(rcv)) /\ EvenAcks(acks)

\* A flow whose segment size never changes is cut at the edges alone, wherever it is.
EvenFits ==
  scenario.steady => scenario.updates = 0 /\ EvenSender(snd) /\ EvenData /\ EvenReceiver

\* The inductive invariant.
RecInv ==
  SenderFits /\ ReceiverFits /\ DataFits /\ BothFit /\ EvenFits /\ scenario \in Scenario

\* NeverSilent says that the sender is awake.
LEMMA NeverSilentIs == NeverSilent <=> Awake(snd)
BY CanSendIs DEF NeverSilent, Awake

\* The window of the beginning is positive.
LEMMA WindowType ==
  ASSUME NEW s, Able(s)
  PROVE  AvailableWindow(s) \in Nat
<1>1. PICK w \in Nat, f \in Int : w = s.cWnd /\ f = BytesInFlight(s.buf)
  <2>1. s \in Sender /\ Fits(s.buf) BY DEF Able
  <2>2. s.cWnd \in Nat BY <2>1, SenderFacts
  <2>3. BytesInFlight(s.buf) \in Int BY <2>1, BytesInFlightType
  <2> QED BY <2>2, <2>3
<1>2. AvailableWindow(s) = Larger(w - f, 0) BY <1>1 DEF AvailableWindow
<1> QED BY <1>1, <1>2 DEF Larger

\* The invariant holds at the beginning.
LEMMA InitFits == Init => RecInv
<1> SUFFICES ASSUME Init PROVE RecInv OBVIOUS
<1>1. PICK b : b = NewBuffer(Data) OBVIOUS
<1>2. Fits(b) /\ b.first = 1 /\ SentEnd(b) = 1 /\ SackedBytes(b) = {} /\ b.failed = {}
  BY <1>1, NewBufferFits
<1>3. scenario \in Scenario BY Constants DEF Init
<1>4. PICK w \in Nat \ {0} : w = scenario.segments * SendSize /\ w >= SendSize
  <2>1. PICK k \in Nat \ {0} : k = scenario.segments BY <1>3 DEF Scenario
  <2>2. PICK z \in Nat \ {0} : z = SendSize BY Constants
  <2>3. k * z \in Nat /\ k * z # 0 BY <2>1, <2>2, Product
  <2>4. k * z >= z
    <3>1. PICK j \in Nat : k = j + 1
      <4>1. k - 1 \in Nat /\ k = (k - 1) + 1 BY <2>1
      <4> QED BY <4>1
    <3>2. (j + 1) * z = j * z + z BY <2>2, <3>1
    <3>3. PICK p \in Nat : p = j * z BY <2>2, <3>1, Product
    <3> QED BY <2>2, <3>1, <3>2, <3>3
  <2> QED BY <2>1, <2>2, <2>3, <2>4
<1>5. snd = [buf |-> b, segmentSize |-> SendSize, cWnd |-> w, ssThresh |-> Unbounded, carry |-> 0,
             highTx |-> 1, recover |-> 0, congState |-> "OPEN", dupAcks |-> 0,
             firstPartial |-> TRUE, timer |-> FALSE, retries |-> DataRetries,
             gaveUp |-> FALSE, out |-> <<>>]
  BY <1>1, <1>4 DEF Init
<1>6. snd \in Sender
  <2>1. b \in Buffer BY <1>2, FitsFacts
  <2>2. /\ SendSize \in Sizes \cup {SendSize} /\ Unbounded \in Nat \ {0} /\ 0 \in Nat
        /\ 1 \in 1..(Data + 1) /\ 0 \in 0..(Data + 1) /\ 0 \in 0..RetxThresh
        /\ DataRetries \in 0..DataRetries
    BY Constants DEF RetxThresh
  <2>3. <<>> \in Seq(Segment) OBVIOUS
  <2> QED BY <1>4, <1>5, <2>1, <2>2, <2>3 DEF Sender
<1>7. Able(snd)
  <2>1. Len(snd.out) = 0 BY <1>5
  <2> QED BY <1>2, <1>5, <1>6, <2>1 DEF Able
<1>8. Counted(snd) BY <1>2, <1>5 DEF Counted, RetxThresh
<1>9. MaySend(snd)
  <2>1. BytesInFlight(b) = 0
    <3>1. b.sackedOut = 0 /\ b.lostOut = 0 /\ b.retrans = 0 BY <1>1 DEF NewBuffer
    <3> QED BY <1>2, <3>1 DEF BytesInFlight, SentSize
  <2>2. AvailableWindow(snd) = Larger(w - 0, 0) BY <1>5, <2>1, Zenon DEF AvailableWindow
  <2>3. AvailableWindow(snd) = w BY <1>4, <2>2 DEF Larger
  <2>4. NextToSend(snd) # NoSeq
    <3>1. NextToSend(snd) # NoSeq \/ b.unsent = 0
      <4>1. PICK rec : rec = (snd.congState = "RECOVERY") OBVIOUS
      <4>2. NextToSend(snd) = NextSeg(b, rec) BY <1>5, <4>1 DEF NextToSend
      <4> QED BY <1>2, <4>2, NextSegFacts
    <3>2. b.unsent = Data BY <1>1 DEF NewBuffer
    <3> QED BY <3>1, <3>2, Constants
  <2> QED BY <1>4, <1>5, <2>3, <2>4, Constants DEF MaySend
<1>10. SenderFits BY <1>5, <1>7, <1>8, <1>9 DEF SenderFits, Awake
<1>11. rcv = [next |-> 1, early |-> {}, sacks |-> <<>>, delAck |-> 0, out |-> <<>>] BY DEF Init
<1>12. ReceiverFits
  <2>1. <<>> \in Seq(Block) /\ <<>> \in Seq(Ack) /\ 0 \in 0..(DelAckMax - 1) /\ 1 \in 1..(Data + 1)
    BY Constants
  <2>2. rcv \in Receiver BY <1>11, <2>1 DEF Receiver
  <2>3. rcv.early = {} /\ Len(rcv.sacks) = 0 /\ rcv.out = <<>> BY <1>11
  <2> QED BY <2>2, <2>3 DEF ReceiverFits, Taking, Held
<1>13. DataFits
  <2>1. data = EmptyBag BY DEF Init
  <2>2. DOMAIN data = {} /\ data \in [DOMAIN data -> {n \in Nat : n > 0}]
    BY <2>1 DEF EmptyBag, SetToBag
  <2> QED BY <2>2 DEF DataFits, IsABag, BagToSet
<1>14. BothFit
  <2>1. rcv.next = 1 /\ rcv.early = {} /\ snd.buf = b BY <1>5, <1>11
  <2>2. Below(rcv, SentEnd(b)) BY <1>2, <2>1 DEF Below
  <2>3. acks = <<>> BY DEF Init
  <2>4. OnTheWay(acks, b, rcv) BY <2>3 DEF OnTheWay
  <2> QED BY <1>2, <2>1, <2>2, <2>4 DEF BothFit
<1>15. EvenFits
  <2> SUFFICES ASSUME scenario.steady
               PROVE  scenario.updates = 0 /\ EvenSender(snd) /\ EvenData /\ EvenReceiver
    BY DEF EvenFits
  <2>1. scenario.updates = 0 BY TcpRecoveryAssumption DEF Init
  <2>2. EvenSender(snd)
    <3>1. b.sent = <<>> BY <1>1 DEF NewBuffer
    <3>2. Indices(b) = {} BY <3>1 DEF Indices
    <3>3. EvenBuffer(b) BY <1>2, <3>2, EdgeFacts DEF EvenBuffer
    <3>4. snd.segmentSize = SendSize /\ snd.buf = b /\ Len(snd.out) = 0 BY <1>5
    <3> QED BY <3>3, <3>4 DEF EvenSender
  <2>3. EvenData
    <3>1. data = EmptyBag BY DEF Init
    <3> QED BY <3>1 DEF EvenData, BagToSet, EmptyBag, SetToBag
  <2>4. EvenReceiver
    <3>1. rcv.next = 1 /\ rcv.early = {} /\ Len(acks) = 0 BY <1>11 DEF Init
    <3>2. Received(rcv) = {} BY <3>1 DEF Received
    <3> QED BY <3>1, <3>2 DEF EvenReceiver, Whole, EvenAcks
  <2> QED BY <2>1, <2>2, <2>3, <2>4
<1> QED BY <1>3, <1>10, <1>12, <1>13, <1>14, <1>15 DEF RecInv

-----------------------------------------------------------------------------
\* The steps.

\* What s has sent is on its way: the sender is s without it.
LEMMA TransmitFits ==
  ASSUME DataFits, Able(snd), NEW s, Able(s), Counted(s), s.timer \/ Size(s.buf) = 0,
         SentEnd(snd.buf) <= SentEnd(s.buf), Transmit(s)
  PROVE  /\ SenderFits' /\ DataFits' /\ snd'.buf = s.buf
         /\ EvenSender(s) /\ EvenData => EvenSender(snd') /\ EvenData'
<1>1. s \in Sender /\ s.out \in Seq(Segment) /\ Fits(s.buf)
  <2>1. s \in Sender /\ Fits(s.buf) BY DEF Able
  <2> QED BY <2>1, SenderFacts
<1>2. PICK t : t = [s EXCEPT !.out = <<>>] OBVIOUS
<1>3. snd' = t BY <1>2 DEF Transmit
<1>4. /\ t \in Sender /\ t.buf = s.buf /\ t.out = <<>> /\ t.segmentSize = s.segmentSize
      /\ t.timer = s.timer /\ t.congState = s.congState /\ t.recover = s.recover
      /\ t.dupAcks = s.dupAcks /\ t.gaveUp = s.gaveUp
  <2>1. <<>> \in Seq(Segment) OBVIOUS
  <2> QED BY <1>1, <1>2, <2>1 DEF Sender
<1>5. Able(t)
  <2>1. Len(t.out) = 0 BY <1>4
  <2> QED BY <1>1, <1>4, <2>1 DEF Able
<1>6. Counted(t) BY <1>4 DEF Counted
<1>7. Awake(t)
  <2>1. CASE s.timer BY <1>4, <2>1 DEF Awake
  <2>2. CASE Size(s.buf) = 0 BY <1>4, <2>2 DEF Awake
  <2> QED BY <2>1, <2>2
<1>8. SenderFits' BY <1>3, <1>4, <1>5, <1>6, <1>7 DEF SenderFits
<1> DEFINE sent == [m \in ToSet(s.out) |-> Cardinality({k \in DOMAIN s.out : s.out[k] = m})]
<1>9. IsABag(sent) /\ BagToSet(sent) = {s.out[k] : k \in 1..Len(s.out)} BY <1>1, SentBag
<1>10. data' = data (+) sent BY DEF Transmit
<1> HIDE DEF sent
<1>11. PICK d : d = data (+) sent OBVIOUS
<1>12. IsABag(d) /\ BagToSet(d) = BagToSet(data) \cup {s.out[k] : k \in 1..Len(s.out)}
  <2>1. IsABag(data) BY DEF DataFits
  <2> QED BY <1>9, <1>11, <2>1, BagAddFacts
<1>13. ASSUME NEW m \in BagToSet(d) PROVE m \in Segment /\ m.seq + m.len <= SentEnd(s.buf)
  <2>1. CASE m \in BagToSet(data)
    <3>1. m \in Segment /\ m.seq + m.len <= SentEnd(snd.buf) BY <2>1 DEF DataFits
    <3>2. m.seq \in Nat /\ m.len \in Nat BY <3>1 DEF Segment
    <3>3. SentEnd(snd.buf) \in Nat /\ SentEnd(s.buf) \in Nat
      <4>1. Fits(snd.buf) BY DEF Able
      <4> QED BY <1>1, <4>1, FitsFacts
    <3> QED BY <3>1, <3>2, <3>3
  <2>2. CASE m \notin BagToSet(data)
    <3>1. PICK k \in 1..Len(s.out) : m = s.out[k] BY <1>12, <2>2
    <3>2. s.out[k] \in Segment BY <1>1
    <3> QED BY <3>1, <3>2 DEF Able
  <2> QED BY <2>1, <2>2
<1>14. DataFits' BY <1>3, <1>4, <1>10, <1>11, <1>12, <1>13 DEF DataFits
<1>15. ASSUME EvenSender(s), EvenData PROVE EvenSender(snd') /\ EvenData'
  <2>1. Len(t.out) = 0 BY <1>4
  <2>2. EvenSender(t) BY <1>4, <1>15, <2>1 DEF EvenSender
  <2>3. \A m \in BagToSet(d) : Piece(m) BY <1>12, <1>15 DEF EvenData, EvenSender
  <2> QED BY <1>3, <1>10, <1>11, <2>2, <2>3 DEF EvenData
<1> QED BY <1>3, <1>4, <1>8, <1>14, <1>15

\* The receiver becomes t, and answers.
LEMMA ReplyFits ==
  ASSUME Fits(snd.buf), ReceiverFits, BothFit, NEW t, Taking(t), Below(t, SentEnd(snd.buf)),
         Replies(t), rcv.next <= t.next, Received(rcv) \subseteq Received(t), Reply(t), snd' = snd
  PROVE  ReceiverFits' /\ BothFit' /\ (EvenReceiver /\ Whole(Received(t)) => EvenReceiver')
<1>1. t \in Receiver /\ rcv \in Receiver BY DEF Taking, ReceiverFits
<1>2. PICK r : r = [t EXCEPT !.out = <<>>] OBVIOUS
<1>3. r \in Receiver /\ r.next = t.next /\ r.early = t.early /\ r.sacks = t.sacks /\ r.out = <<>>
  <2>1. <<>> \in Seq(Ack) OBVIOUS
  <2> QED BY <1>1, <1>2, <2>1 DEF Receiver
<1>4. rcv' = r BY <1>2 DEF Reply
<1>5. Taking(r) BY <1>3 DEF Taking
<1>6. Received(r) = Received(t) BY <1>3 DEF Received
<1>7. snd.buf.first \in Nat /\ t.next \in 1..(Data + 1) /\ rcv.next \in 1..(Data + 1)
  BY <1>1, FitsFacts, ReceiverFacts
<1>8. OnTheWay(acks \o t.out, snd.buf, t)
  <2>1. OnTheWay(acks, snd.buf, rcv) /\ snd.buf.first <= rcv.next /\ SackedBytes(snd.buf) \subseteq Received(rcv)
    BY DEF BothFit
  <2> QED BY <1>1, <1>7, <2>1, QueueReply
<1>9. OnTheWay(acks \o t.out, snd.buf, r)
  <2>1. t.next \in Nat /\ r.next \in Nat /\ t.next <= r.next BY <1>3, <1>7
  <2>2. Received(t) \subseteq Received(r) BY <1>6
  <2> HIDE DEF Received
  <2> QED BY <1>8, <2>1, <2>2, QueueStays
<1>10. acks' = acks \o t.out BY DEF Reply
<1>11. Below(r, SentEnd(snd.buf)) BY <1>3 DEF Below
<1>12. snd.buf.first <= r.next BY <1>3, <1>7 DEF BothFit
<1>13. SackedBytes(snd.buf) \subseteq Received(r) BY <1>6 DEF BothFit
<1>14. ReceiverFits' /\ BothFit'
  BY <1>3, <1>4, <1>5, <1>9, <1>10, <1>11, <1>12, <1>13 DEF ReceiverFits, BothFit
<1>15. ASSUME EvenReceiver, Whole(Received(t)) PROVE EvenReceiver'
  <2>1. acks \in Seq(Ack) /\ EvenAcks(acks) BY <1>15 DEF BothFit, OnTheWay, EvenReceiver
  <2>2. EvenAcks(acks \o t.out) BY <1>15, <2>1, ReplyEven
  <2> QED BY <1>4, <1>6, <1>10, <1>15, <2>2 DEF EvenReceiver
<1> QED BY <1>14, <1>15

\* The size of the segment changes as often as the scenario says.
LEMMA UpdatesFits ==
  ASSUME scenario \in Scenario, snd \in Sender, NEW size \in NewSizes, Updates(size)
  PROVE  /\ scenario' \in Scenario /\ size \in SizesSet /\ scenario'.steady = scenario.steady
         /\ scenario.updates = 0 => size = snd.segmentSize /\ scenario'.updates = 0
<1>1. snd.segmentSize \in SizesSet BY SenderFacts
<1>2. size \in SizesSet BY <1>1, Constants DEF NewSizes
<1>3. PICK u \in Nat : u = scenario.updates BY DEF Scenario
<1>4. PICK v : v = u - IF size = snd.segmentSize THEN 0 ELSE 1 OBVIOUS
<1>5. v \in Nat
  <2>1. CASE size = snd.segmentSize BY <1>3, <1>4, <2>1
  <2>2. CASE size # snd.segmentSize
    <3>1. u > 0 BY <1>3, <2>2 DEF NewSizes
    <3>2. v = u - 1 BY <1>4, <2>2
    <3> QED BY <1>3, <3>1, <3>2
  <2> QED BY <2>1, <2>2
<1>6. scenario' = [scenario EXCEPT !.updates = v] BY <1>3, <1>4 DEF Updates
<1>7. scenario' \in Scenario /\ scenario'.steady = scenario.steady /\ scenario'.updates = v
  BY <1>5, <1>6 DEF Scenario
<1>8. ASSUME scenario.updates = 0 PROVE size = snd.segmentSize /\ v = 0
  <2>1. ~(scenario.updates > 0) BY <1>8
  <2>2. size = snd.segmentSize BY <2>1 DEF NewSizes
  <2> QED BY <1>3, <1>4, <1>8, <2>2
<1> QED BY <1>2, <1>7, <1>8

\* The sender sends what the window allows.
LEMMA SendStep == RecInv /\ Send => RecInv'
<1> SUFFICES ASSUME RecInv, Send PROVE RecInv' OBVIOUS
<1>1. Able(snd) /\ Counted(snd) /\ DataFits /\ BothFit /\ ReceiverFits /\ scenario \in Scenario
  BY DEF RecInv, SenderFits
<1>2. snd \in Sender /\ Fits(snd.buf) BY <1>1 DEF Able
<1>3. PICK size \in NewSizes, seq \in {NextToSend(snd)},
           n \in {Smaller(AvailableWindow(snd), snd.segmentSize)} :
        /\ \E s \in {SendDataPacket(snd, seq, n, size)} : Transmit(s)
        /\ Updates(size)
  BY DEF Send
<1>4. scenario' \in Scenario /\ size \in SizesSet BY <1>1, <1>2, <1>3, UpdatesFits
<1>5. MaySend(snd) BY CanSendIs DEF Send
<1>6. Sendable(snd.buf, seq)
  <2>1. PICK rec : rec = (snd.congState = "RECOVERY") OBVIOUS
  <2>2. seq = NextSeg(snd.buf, rec) BY <1>3, <2>1 DEF NextToSend
  <2>3. seq # NoSeq BY <1>3, <1>5 DEF MaySend
  <2> QED BY <1>2, <2>2, <2>3, NextSegFacts
<1>7. n \in Nat \ {0}
  <2>1. PICK w \in Nat, z \in Nat \ {0} : w = AvailableWindow(snd) /\ z = snd.segmentSize
    BY <1>1, <1>2, WindowType, SenderFacts
  <2>2. w > 0 BY <1>5, <2>1 DEF MaySend
  <2>3. n = Smaller(w, z) BY <1>3, <2>1
  <2> QED BY <2>1, <2>2, <2>3 DEF Smaller
<1>8. PICK s : s = SendDataPacket(snd, seq, n, size) OBVIOUS
<1>9. Able(s) /\ SendsOnly(snd, s) BY <1>1, <1>4, <1>6, <1>7, <1>8, SendDataPacketFits
<1>10. Transmit(s) BY <1>3, <1>8
<1>11. /\ Sends(snd.buf, s.buf) /\ s.timer /\ s.congState = snd.congState
       /\ s.recover = snd.recover /\ s.dupAcks = snd.dupAcks
  BY <1>9 DEF SendsOnly
<1>12. /\ s.buf.first = snd.buf.first /\ SackedBytes(s.buf) = SackedBytes(snd.buf)
       /\ SentEnd(snd.buf) <= SentEnd(s.buf) /\ Fits(s.buf)
  BY <1>11 DEF Sends
<1>13. Counted(s) BY <1>1, <1>11, <1>12 DEF Counted
<1>14. SenderFits' /\ DataFits' /\ snd'.buf = s.buf
  BY <1>1, <1>9, <1>10, <1>11, <1>12, <1>13, TransmitFits
<1>15. rcv' = rcv /\ acks' = acks BY DEF Send
<1>16. ReceiverFits' BY <1>1, <1>15 DEF ReceiverFits
<1>17. BothFit'
  <2>1. rcv \in Receiver /\ rcv.next \in Nat
    <3>1. rcv \in Receiver BY <1>1 DEF ReceiverFits, Taking
    <3> QED BY <3>1, ReceiverFacts
  <2>2. Below(rcv, SentEnd(s.buf))
    <3>1. rcv.next \in 1..(Data + 1) /\ rcv.early \subseteq 1..Data BY <2>1, ReceiverFacts
    <3>2. SentEnd(s.buf) \in Nat /\ SentEnd(snd.buf) \in Nat BY <1>2, <1>12, FitsFacts
    <3>3. rcv.next <= SentEnd(snd.buf) /\ \A x \in rcv.early : x < SentEnd(snd.buf)
      BY <1>1 DEF BothFit, Below
    <3>4. rcv.next <= SentEnd(s.buf) BY <1>12, <3>1, <3>2, <3>3
    <3>5. ASSUME NEW x \in rcv.early PROVE x < SentEnd(s.buf)
      <4>1. x < SentEnd(snd.buf) /\ x \in 1..Data BY <3>1, <3>3
      <4> QED BY <1>12, <3>2, <4>1
    <3> QED BY <3>4, <3>5 DEF Below
  <2>3. OnTheWay(acks, s.buf, rcv)
    <3>1. OnTheWay(acks, snd.buf, rcv) BY <1>1 DEF BothFit
    <3>2. rcv.next <= rcv.next BY <2>1
    <3> QED BY <1>12, <2>1, <3>1, <3>2, QueueStays
  <2> QED BY <1>1, <1>12, <1>14, <1>15, <2>2, <2>3 DEF BothFit
<1>18. EvenFits'
  <2>1. ASSUME scenario.steady
        PROVE  scenario'.updates = 0 /\ EvenSender(snd') /\ EvenData' /\ EvenReceiver'
    <3>1. scenario.updates = 0 /\ EvenSender(snd) /\ EvenData /\ EvenReceiver
      BY <2>1 DEF RecInv, EvenFits
    <3>2. snd.segmentSize = SendSize BY <3>1 DEF EvenSender
    <3>3. size = SendSize /\ scenario'.updates = 0 BY <1>1, <1>2, <1>3, <3>1, <3>2, UpdatesFits
    <3>4. Takes(n, seq)
      <4>1. PICK w \in Nat, z \in Nat \ {0} : w = AvailableWindow(snd) /\ z = SendSize
        BY <1>1, WindowType, Constants
      <4>2. n = Smaller(w, z) BY <1>3, <3>2, <4>1
      <4>3. PICK d \in Nat, q \in Nat : d = Data /\ q = seq /\ 1 <= q /\ q <= d
        <5>1. seq \in 1..Data BY <1>2, <1>6, <1>7, CopyFits
        <5> QED BY <5>1, Constants
      <4>4. SizeFromSequence(snd.buf, seq) = d + 1 - q
        <5>1. SentEnd(snd.buf) + snd.buf.unsent = Data + 1 BY <1>2, FitsFacts
        <5>2. SizeFromSequence(snd.buf, seq) = Larger(d + 1 - q, 0)
          <6>1. SizeFromSequence(snd.buf, seq) = Larger(SentEnd(snd.buf) + snd.buf.unsent - seq, 0)
            BY Zenon DEF SizeFromSequence
          <6>2. PICK e \in Nat, u \in Nat : e = SentEnd(snd.buf) /\ u = snd.buf.unsent
            BY <1>2, FitsFacts
          <6>3. e + u = d + 1 BY <4>3, <5>1, <6>2, Zenon
          <6>4. e + u - q = d + 1 - q BY <6>3
          <6>5. SentEnd(snd.buf) + snd.buf.unsent - seq = d + 1 - q BY <4>3, <6>2, <6>4, Zenon
          <6> QED BY <6>1, <6>5, Zenon
        <5> QED BY <4>3, <5>2 DEF Larger
      <4>5. w >= z \/ w >= d + 1 - q BY <1>3, <1>5, <3>2, <4>1, <4>4 DEF MaySend
      <4>6. n <= z /\ (n >= z \/ n >= d + 1 - q) BY <4>1, <4>2, <4>3, <4>5 DEF Smaller
      <4> QED BY <4>1, <4>3, <4>6 DEF Takes
    <3>5. EvenSender(s)
      <4>1. KeepsEven(snd, s) BY <1>1, <1>6, <1>7, <1>8, <3>3, <3>4, SendDataPacketEven
      <4> QED BY <3>1, <4>1 DEF KeepsEven
    <3>6. EvenSender(snd') /\ EvenData'
      BY <1>1, <1>9, <1>10, <1>11, <1>12, <1>13, <3>1, <3>5, TransmitFits
    <3>7. EvenReceiver' BY <1>15, <3>1 DEF EvenReceiver
    <3> QED BY <3>3, <3>6, <3>7
  <2>2. scenario'.steady = scenario.steady BY <1>1, <1>2, <1>3, UpdatesFits
  <2> QED BY <2>1, <2>2 DEF EvenFits
<1> QED BY <1>4, <1>14, <1>16, <1>17, <1>18 DEF RecInv

\* The sender, the data and the acknowledgements stay as they are.
LEMMA SenderStays ==
  ASSUME SenderFits, snd' = snd
  PROVE  SenderFits'
BY DEF SenderFits

\* Whatever else the scenario says, an even flow stays even if its parts do.
LEMMA EvenStays ==
  ASSUME EvenFits, scenario'.steady = scenario.steady, scenario'.updates = scenario.updates,
         scenario.steady /\ EvenSender(snd) /\ EvenData /\ EvenReceiver =>
           EvenSender(snd') /\ EvenData' /\ EvenReceiver'
  PROVE  EvenFits'
BY DEF EvenFits

\* An acknowledgement arrives, and the sender may go on.
LEMMA AckArrivesStep == RecInv /\ AckArrives => RecInv'
<1> SUFFICES ASSUME RecInv, AckArrives PROVE RecInv' OBVIOUS
<1>1. /\ Able(snd) /\ Counted(snd) /\ Awake(snd) /\ DataFits /\ BothFit /\ ReceiverFits
      /\ SenderFits /\ EvenFits /\ scenario \in Scenario
  BY DEF RecInv, SenderFits
<1>2. snd \in Sender /\ Fits(snd.buf) BY <1>1 DEF Able
<1>3. OnTheWay(acks, snd.buf, rcv) /\ acks # <<>> /\ acks' = Tail(acks) /\ rcv' = rcv /\ acks \in Seq(Ack)
  BY <1>1 DEF BothFit, AckArrives, OnTheWay
<1>4. PICK m : m = acks[1] OBVIOUS
<1>5. m = Head(acks) BY <1>3, <1>4
<1>6. Coming(m, snd.buf, rcv)
  <2>1. 1 \in 1..Len(acks) BY <1>3
  <2> QED BY <1>3, <1>4, <2>1 DEF OnTheWay
<1>7. ReceiverFits' BY <1>1, <1>3 DEF ReceiverFits
<1>10. EvenReceiver => EvenReceiver'
  <2> DEFINE f == [i \in 1..(Len(acks) - 1) |-> i + 1]
  <2>1. PartOf(Tail(acks), acks, f) BY <1>3, TailIsPart
  <2> HIDE DEF f
  <2>2. EvenAcks(acks) => EvenAcks(Tail(acks)) BY <2>1, PartEven
  <2> QED BY <1>3, <2>2 DEF EvenReceiver
<1>8. CASE ~Running(snd) \/ m.ack < snd.buf.first
  <2>1. snd' = snd /\ data' = data /\ scenario' = scenario BY <1>5, <1>8 DEF AckArrives
  <2>2. SenderFits' BY <1>1, <2>1, SenderStays
  <2>3. DataFits' BY <1>1, <2>1 DEF DataFits
  <2>4. OnTheWay(Tail(acks), snd.buf, rcv)
    <3> DEFINE f == [i \in 1..(Len(acks) - 1) |-> i + 1]
    <3>1. PartOf(Tail(acks), acks, f) BY <1>3, TailIsPart
    <3> HIDE DEF f
    <3> QED BY <1>3, <3>1, PartOnTheWay
  <2>5. BothFit' BY <1>1, <1>3, <2>1, <2>4 DEF BothFit
  <2>6. EvenFits'
    <3>1. EvenData => EvenData' BY <2>1 DEF EvenData
    <3> QED BY <1>1, <1>10, <2>1, <3>1, EvenStays
  <2> QED BY <1>1, <1>7, <2>1, <2>2, <2>3, <2>5, <2>6 DEF RecInv
<1>9. CASE ~(~Running(snd) \/ m.ack < snd.buf.first)
  <2>1. PICK size \in NewSizes, grows \in BOOLEAN :
          /\ \E s \in {ReceivedAck(snd, m, size, grows)} : Transmit(s) /\ s.segmentSize = size
          /\ Updates(size)
    BY <1>5, <1>9 DEF AckArrives
  <2>2. scenario' \in Scenario /\ size \in SizesSet BY <1>1, <1>2, <2>1, UpdatesFits
  <2>3. PICK s : s = ReceivedAck(snd, m, size, grows) OBVIOUS
  <2>4. Transmit(s) BY <2>1, <2>3
  <2>5. snd.buf.failed = {} /\ Running(snd) BY <1>9 DEF Running
  <2>6. rcv \in Receiver /\ rcv.next \in 1..(Data + 1) /\ rcv.early \subseteq 1..Data
    <3>1. rcv \in Receiver BY <1>1 DEF ReceiverFits, Taking
    <3> QED BY <3>1, ReceiverFacts
  <2>7. SentEnd(snd.buf) \in 1..(Data + 1) /\ rcv.next <= SentEnd(snd.buf)
    BY <1>1, <1>2, SizeIs DEF BothFit, Below
  <2>8. Due(snd.buf, m)
    <3>1. m.ack \in 1..(Data + 1) /\ m.ack <= rcv.next BY <1>6, ComingFacts
    <3>2. m.ack <= SentEnd(snd.buf) BY <2>6, <2>7, <3>1
    <3> QED BY <1>6, <3>2 DEF Coming, Due
  <2>9. Watched(snd)
    <3>1. ~MaySend(snd) BY <2>5, CanSendIs DEF AckArrives
    <3>2. Size(snd.buf) \in Nat BY <1>2, SizeIs
    <3>3. snd.timer \/ ~(Size(snd.buf) > 0) BY <1>1, <2>5, <3>1 DEF Awake
    <3> QED BY <3>2, <3>3 DEF Watched
  <2>10. /\ Able(s) /\ Counted(s) /\ Watched(s)
         /\ s.buf.first = m.ack /\ SentEnd(snd.buf) <= SentEnd(s.buf)
         /\ SackedBytes(s.buf) \subseteq SackedBytes(snd.buf) \cup AllBytes(m.sacks)
         /\ size = SendSize /\ m.ack \in Edges => KeepsEven(snd, s)
    BY <1>1, <2>2, <2>3, <2>5, <2>8, <2>9, ReceivedAckFits
  <2>11. SenderFits' /\ DataFits' /\ snd'.buf = s.buf
    BY <1>1, <2>4, <2>10, TransmitFits DEF Watched
  <2>12. OnTheWay(Tail(acks), s.buf, rcv) BY <1>3, <1>4, <2>10, QueueRest
  <2>13. Below(rcv, SentEnd(s.buf))
    <3>1. SentEnd(s.buf) \in Nat
      <4>1. Fits(s.buf) BY <2>10 DEF Able
      <4> QED BY <4>1, FitsFacts
    <3>2. rcv.next <= SentEnd(s.buf) BY <2>6, <2>7, <2>10, <3>1
    <3>3. ASSUME NEW x \in rcv.early PROVE x < SentEnd(s.buf)
      <4>1. x < SentEnd(snd.buf) /\ x \in 1..Data BY <1>1, <2>6 DEF BothFit, Below
      <4> QED BY <2>7, <2>10, <3>1, <4>1
    <3> QED BY <3>2, <3>3 DEF Below
  <2>14. s.buf.first <= rcv.next BY <1>6, <2>10 DEF Coming
  <2>15. SackedBytes(s.buf) \subseteq Received(rcv)
    <3>1. SackedBytes(snd.buf) \subseteq Received(rcv) BY <1>1 DEF BothFit
    <3>2. AllBytes(m.sacks) \subseteq Received(rcv) BY <1>6 DEF Coming
    <3> QED BY <2>10, <3>1, <3>2
  <2>16. BothFit' BY <1>3, <2>11, <2>12, <2>13, <2>14, <2>15 DEF BothFit
  <2>17. EvenFits'
    <3>1. ASSUME scenario.steady
          PROVE  scenario'.updates = 0 /\ EvenSender(snd') /\ EvenData' /\ EvenReceiver'
      <4>1. scenario.updates = 0 /\ EvenSender(snd) /\ EvenData /\ EvenReceiver
        BY <1>1, <3>1 DEF EvenFits
      <4>2. size = SendSize /\ scenario'.updates = 0
        <5>1. snd.segmentSize = SendSize BY <4>1 DEF EvenSender
        <5> QED BY <1>1, <1>2, <2>1, <4>1, <5>1, UpdatesFits
      <4>3. m.ack \in Edges
        <5>1. 1 \in 1..Len(acks) BY <1>3
        <5> QED BY <1>4, <4>1, <5>1 DEF EvenReceiver, EvenAcks
      <4>4. EvenSender(s) BY <2>10, <4>1, <4>2, <4>3 DEF KeepsEven
      <4>5. EvenSender(snd') /\ EvenData'
        BY <1>1, <2>4, <2>10, <4>1, <4>4, TransmitFits DEF Watched
      <4> QED BY <1>10, <4>1, <4>2, <4>5
    <3>2. scenario'.steady = scenario.steady BY <1>1, <1>2, <2>1, UpdatesFits
    <3> QED BY <3>1, <3>2 DEF EvenFits
  <2> QED BY <1>7, <2>2, <2>11, <2>16, <2>17 DEF RecInv
<1> QED BY <1>8, <1>9

\* The retransmission timer expires.
LEMMA TimeoutStep == RecInv /\ Timeout => RecInv'
<1> SUFFICES ASSUME RecInv, Timeout PROVE RecInv' OBVIOUS
<1>1. /\ Able(snd) /\ snd.out = <<>> /\ DataFits /\ BothFit /\ ReceiverFits /\ scenario \in Scenario
  BY DEF RecInv, SenderFits
<1>2. Fits(snd.buf) BY <1>1 DEF Able
<1>3. snd.buf.failed = {} /\ snd.retries # 0
  BY DEF Timeout, TimerFires, Running
<1>4. PICK t : t = ReTxTimeout(snd) OBVIOUS
<1>5. /\ Able(t) /\ Counted(t) /\ Sends(snd.buf, t.buf)
      /\ SentEnd(t.buf) = SentEnd(snd.buf) /\ t.out = <<>>
      /\ Size(t.buf) > 0 => MaySend(t)
      /\ KeepsEven(snd, t)
  BY <1>1, <1>3, <1>4, ReTxTimeoutFits
<1>6. snd' = t /\ rcv' = rcv /\ data' = data /\ acks' = acks BY <1>4 DEF Timeout
<1>7. SenderFits' BY <1>5, <1>6 DEF SenderFits, Awake
<1>8. scenario' \in Scenario
  <2>1. CASE scenario' = scenario BY <1>1, <2>1
  <2>2. CASE scenario.early > 0 /\ scenario' = [scenario EXCEPT !.early = @ - 1]
    <3>1. scenario.early - 1 \in Nat BY <1>1, <2>2 DEF Scenario
    <3> QED BY <1>1, <2>2, <3>1 DEF Scenario
  <2> QED BY <2>1, <2>2 DEF Timeout, TimerFires
<1>9. ReceiverFits' BY <1>1, <1>6 DEF ReceiverFits
<1>10. DataFits' BY <1>1, <1>5, <1>6 DEF DataFits
<1>11. t.buf.first = snd.buf.first /\ SackedBytes(t.buf) = SackedBytes(snd.buf) BY <1>5 DEF Sends
<1>12. OnTheWay(acks, t.buf, rcv)
  <2>1. rcv.next \in Nat
    <3>1. rcv \in Receiver BY <1>1 DEF ReceiverFits, Taking
    <3> QED BY <3>1, ReceiverFacts
  <2>2. rcv.next <= rcv.next BY <2>1
  <2> QED BY <1>1, <1>11, <2>1, <2>2, QueueStays DEF BothFit
<1>13. BothFit' BY <1>1, <1>5, <1>6, <1>11, <1>12 DEF BothFit
<1>14. EvenFits'
  <2>1. scenario'.steady = scenario.steady /\ scenario'.updates = scenario.updates
    BY <1>1 DEF Timeout, TimerFires, Scenario
  <2>2. EvenSender(snd) /\ EvenData /\ EvenReceiver => EvenSender(snd') /\ EvenData' /\ EvenReceiver'
    BY <1>5, <1>6 DEF KeepsEven, EvenData, EvenReceiver
  <2> QED BY <2>1, <2>2, EvenStays DEF RecInv
<1> QED BY <1>7, <1>8, <1>9, <1>10, <1>13, <1>14 DEF RecInv

\* The sender gives up.
LEMMA GiveUpStep == RecInv /\ GiveUp => RecInv'
<1> SUFFICES ASSUME RecInv, GiveUp PROVE RecInv' OBVIOUS
<1>1. /\ Able(snd) /\ Counted(snd) /\ snd.out = <<>> /\ DataFits /\ BothFit /\ ReceiverFits
      /\ scenario \in Scenario
  BY DEF RecInv, SenderFits
<1>2. snd \in Sender BY <1>1 DEF Able
<1>3. PICK t : t = [snd EXCEPT !.gaveUp = TRUE, !.timer = FALSE] OBVIOUS
<1>4. snd' = t /\ rcv' = rcv /\ data' = data /\ acks' = acks BY <1>3 DEF GiveUp
<1>5. /\ t \in Sender /\ t.buf = snd.buf /\ t.out = snd.out /\ t.gaveUp
      /\ t.congState = snd.congState /\ t.recover = snd.recover /\ t.dupAcks = snd.dupAcks
      /\ t.segmentSize = snd.segmentSize
  BY <1>2, <1>3 DEF Sender
<1>6. SenderFits' BY <1>1, <1>4, <1>5 DEF SenderFits, Able, Counted, Awake, Running
<1>7. scenario' \in Scenario
  <2>1. CASE scenario' = scenario BY <1>1, <2>1
  <2>2. CASE scenario.early > 0 /\ scenario' = [scenario EXCEPT !.early = @ - 1]
    <3>1. scenario.early - 1 \in Nat BY <1>1, <2>2 DEF Scenario
    <3> QED BY <1>1, <2>2, <3>1 DEF Scenario
  <2> QED BY <2>1, <2>2 DEF GiveUp, TimerFires
<1>8. ReceiverFits' BY <1>1, <1>4 DEF ReceiverFits
<1>9. DataFits' BY <1>1, <1>4, <1>5 DEF DataFits
<1>10. BothFit' BY <1>1, <1>4, <1>5 DEF BothFit
<1>11. EvenFits'
  <2>1. scenario'.steady = scenario.steady /\ scenario'.updates = scenario.updates
    BY <1>1 DEF GiveUp, TimerFires, Scenario
  <2>2. EvenSender(snd) /\ EvenData /\ EvenReceiver => EvenSender(snd') /\ EvenData' /\ EvenReceiver'
    BY <1>4, <1>5 DEF EvenSender, EvenData, EvenReceiver
  <2> QED BY <2>1, <2>2, EvenStays DEF RecInv
<1> QED BY <1>6, <1>7, <1>8, <1>9, <1>10, <1>11 DEF RecInv

\* A segment arrives.
LEMMA DataArrivesStep == RecInv /\ DataArrives => RecInv'
<1> SUFFICES ASSUME RecInv, DataArrives PROVE RecInv' OBVIOUS
<1>1. /\ Able(snd) /\ SenderFits /\ DataFits /\ BothFit /\ ReceiverFits /\ scenario \in Scenario
  BY DEF RecInv, SenderFits
<1>2. Fits(snd.buf) BY <1>1 DEF Able
<1>3. PICK m \in BagToSet(data) :
        /\ data' = data (-) SetToBag({m})
        /\ \E r \in {ReceivedData(rcv, m)} : Reply(r)
  BY DEF DataArrives
<1>4. snd' = snd /\ scenario' = scenario BY DEF DataArrives
<1>5. m \in Segment /\ m.seq + m.len <= SentEnd(snd.buf) BY <1>1 DEF DataFits
<1>6. PICK t : t = ReceivedData(rcv, m) OBVIOUS
<1>7. /\ Taking(t) /\ Below(t, SentEnd(snd.buf)) /\ rcv.next <= t.next /\ Replies(t)
      /\ Received(t) = Received(rcv) \cup m.seq..(m.seq + m.len - 1)
  <2>1. SentEnd(snd.buf) \in 1..(Data + 1) BY <1>2, SizeIs
  <2>2. Taking(rcv) /\ rcv.out = <<>> /\ Below(rcv, SentEnd(snd.buf))
    BY <1>1 DEF ReceiverFits, BothFit
  <2> QED BY <1>5, <1>6, <2>1, <2>2, ReceivedDataFits
<1>8. Reply(t) BY <1>3, <1>6
<1>9. ReceiverFits' /\ BothFit' /\ (EvenReceiver /\ Whole(Received(t)) => EvenReceiver')
  <2>1. Received(rcv) \subseteq Received(t) BY <1>7
  <2> QED BY <1>1, <1>2, <1>4, <1>7, <1>8, <2>1, ReplyFits
<1>10. SenderFits' BY <1>1, <1>4, SenderStays
<1>11. DataFits'
  <2>1. PICK d : d = data (-) SetToBag({m}) OBVIOUS
  <2>2. IsABag(d) /\ BagToSet(d) \subseteq BagToSet(data)
    <3>1. IsABag(data) BY <1>1 DEF DataFits
    <3> QED BY <2>1, <3>1, BagRemoveFacts
  <2>3. data' = d BY <1>3, <2>1
  <2> QED BY <1>1, <1>4, <2>2, <2>3 DEF DataFits
<1>12. EvenFits'
  <2>1. ASSUME EvenSender(snd), EvenData, EvenReceiver
        PROVE  EvenSender(snd') /\ EvenData' /\ EvenReceiver'
    <3>1. m.seq \in Edges /\ m.seq # Data + 1 /\ m.seq + m.len = Succ(m.seq)
      BY <2>1 DEF EvenData, Piece
    <3>2. Whole(Received(rcv)) BY <2>1 DEF EvenReceiver
    <3>3. Whole(Received(rcv) \cup m.seq..(Succ(m.seq) - 1)) BY <3>1, <3>2, WholeWithCell
    <3>4. Whole(Received(t))
      <4>1. PICK a \in Nat, b \in Nat : a = m.seq /\ b = m.len BY <1>5, Constants DEF Segment
      <4>2. PICK c \in Nat : c = Succ(m.seq) BY <3>1, SuccFacts
      <4>3. a + b = c BY <3>1, <4>1, <4>2, Zenon
      <4>4. a + b - 1 = c - 1 BY <4>3
      <4>5. m.seq + m.len - 1 = Succ(m.seq) - 1 BY <4>1, <4>2, <4>4, Zenon
      <4> QED BY <1>7, <3>3, <4>5, Zenon
    <3>5. EvenReceiver' BY <1>9, <2>1, <3>4
    <3>6. EvenData'
      <4>1. PICK d : d = data (-) SetToBag({m}) OBVIOUS
      <4>2. BagToSet(d) \subseteq BagToSet(data)
        <5>1. IsABag(data) BY <1>1 DEF DataFits
        <5> QED BY <4>1, <5>1, BagRemoveFacts
      <4>3. data' = d BY <1>3, <4>1
      <4> QED BY <2>1, <4>2, <4>3 DEF EvenData
    <3> QED BY <1>4, <2>1, <3>5, <3>6
  <2> QED BY <1>4, <2>1, EvenStays DEF RecInv
<1> QED BY <1>1, <1>4, <1>9, <1>10, <1>11, <1>12 DEF RecInv

\* The delayed acknowledgement is sent.
LEMMA DelAckTimeoutStep == RecInv /\ DelAckTimeout => RecInv'
<1> SUFFICES ASSUME RecInv, DelAckTimeout PROVE RecInv' OBVIOUS
<1>1. /\ Able(snd) /\ SenderFits /\ DataFits /\ BothFit /\ ReceiverFits /\ scenario \in Scenario
  BY DEF RecInv, SenderFits
<1>2. Fits(snd.buf) BY <1>1 DEF Able
<1>3. snd' = snd /\ scenario' = scenario /\ data' = data BY DEF DelAckTimeout
<1>4. PICK t : t = SendEmptyAck(rcv) OBVIOUS
<1>5. Taking(rcv) /\ Below(rcv, SentEnd(snd.buf)) BY <1>1 DEF ReceiverFits, BothFit
<1>6. /\ Taking(t) /\ t.next = rcv.next /\ t.early = rcv.early
      /\ Len(t.out) = 1 /\ Acknowledges(t.out[1], t)
  BY <1>4, <1>5, SendEmptyAckFits
<1>7. Below(t, SentEnd(snd.buf)) /\ Replies(t) /\ Received(t) = Received(rcv)
  BY <1>5, <1>6 DEF Below, Replies, Received
<1>8. rcv.next <= t.next
  <2>1. rcv \in Receiver BY <1>5 DEF Taking
  <2>2. rcv.next \in Nat BY <2>1, ReceiverFacts
  <2> QED BY <1>6, <2>2
<1>9. Reply(t) BY <1>4 DEF DelAckTimeout
<1>10. ReceiverFits' /\ BothFit' /\ (EvenReceiver /\ Whole(Received(t)) => EvenReceiver')
  BY <1>1, <1>2, <1>3, <1>6, <1>7, <1>8, <1>9, ReplyFits
<1>11. SenderFits' BY <1>1, <1>3, SenderStays
<1>12. DataFits' BY <1>1, <1>3 DEF DataFits
<1>13. EvenFits'
  <2>1. EvenReceiver => EvenReceiver' BY <1>7, <1>10 DEF EvenReceiver
  <2>2. EvenData => EvenData' BY <1>3 DEF EvenData
  <2> QED BY <1>3, <2>1, <2>2, EvenStays DEF RecInv
<1> QED BY <1>1, <1>3, <1>10, <1>11, <1>12, <1>13 DEF RecInv

\* A segment or an acknowledgement is lost.
LEMMA LoseStep == RecInv /\ Lose => RecInv'
<1> SUFFICES ASSUME RecInv, Lose PROVE RecInv' OBVIOUS
<1>1. /\ SenderFits /\ DataFits /\ BothFit /\ ReceiverFits /\ scenario \in Scenario
  BY DEF RecInv, SenderFits
<1>2. /\ snd' = snd /\ rcv' = rcv /\ scenario.losses > 0
      /\ scenario' = [scenario EXCEPT !.losses = @ - 1]
  BY DEF Lose
<1>3. SenderFits' BY <1>1, <1>2, SenderStays
<1>4. ReceiverFits' BY <1>1, <1>2 DEF ReceiverFits
<1>5. scenario' \in Scenario
  <2>1. scenario.losses - 1 \in Nat BY <1>1, <1>2 DEF Scenario
  <2> QED BY <1>1, <1>2, <2>1 DEF Scenario
<1>6. /\ DataFits' /\ BothFit' /\ (EvenData => EvenData')
      /\ Whole(Received(rcv)) /\ EvenAcks(acks) => EvenReceiver'
  <2>1. ASSUME NEW m \in BagToSet(data), data' = data (-) SetToBag({m}), acks' = acks
        PROVE  /\ DataFits' /\ BothFit' /\ (EvenData => EvenData')
               /\ Whole(Received(rcv)) /\ EvenAcks(acks) => EvenReceiver'
    <3>1. PICK d : d = data (-) SetToBag({m}) OBVIOUS
    <3>2. IsABag(d) /\ BagToSet(d) \subseteq BagToSet(data)
      <4>1. IsABag(data) BY <1>1 DEF DataFits
      <4> QED BY <3>1, <4>1, BagRemoveFacts
    <3>3. data' = d BY <2>1, <3>1
    <3>4. DataFits' BY <1>1, <1>2, <3>2, <3>3 DEF DataFits
    <3>5. BothFit' BY <1>1, <1>2, <2>1 DEF BothFit
    <3>6. EvenData => EvenData' BY <3>2, <3>3 DEF EvenData
    <3>7. Whole(Received(rcv)) /\ EvenAcks(acks) => EvenReceiver' BY <1>2, <2>1 DEF EvenReceiver
    <3> QED BY <3>4, <3>5, <3>6, <3>7
  <2>2. ASSUME NEW k \in DOMAIN acks, acks' = RemoveAt(acks, k), data' = data
        PROVE  /\ DataFits' /\ BothFit' /\ (EvenData => EvenData')
               /\ Whole(Received(rcv)) /\ EvenAcks(acks) => EvenReceiver'
    <3>1. OnTheWay(acks, snd.buf, rcv) /\ acks \in Seq(Ack) BY <1>1 DEF BothFit, OnTheWay
    <3>2. k \in 1..Len(acks) BY <3>1
    <3>3. /\ OnTheWay(RemoveAt(acks, k), snd.buf, rcv)
          /\ EvenAcks(acks) => EvenAcks(RemoveAt(acks, k))
      <4> DEFINE f == [i \in 1..Len(acks) |-> IF i < k THEN i ELSE i + 1]
      <4>1. PartOf(RemoveAt(acks, k), acks, f) BY <3>1, <3>2, RemovedIsPart
      <4> HIDE DEF f
      <4> QED BY <3>1, <4>1, PartOnTheWay, PartEven
    <3>4. BothFit' BY <1>1, <1>2, <2>2, <3>3 DEF BothFit
    <3>5. DataFits' BY <1>1, <1>2, <2>2 DEF DataFits
    <3>6. EvenData => EvenData' BY <2>2 DEF EvenData
    <3>7. Whole(Received(rcv)) /\ EvenAcks(acks) => EvenReceiver'
      BY <1>2, <2>2, <3>3 DEF EvenReceiver
    <3> QED BY <3>4, <3>5, <3>6, <3>7
  <2> QED BY <2>1, <2>2 DEF Lose
<1>7. EvenFits'
  <2>1. scenario'.steady = scenario.steady /\ scenario'.updates = scenario.updates
    BY <1>1, <1>2 DEF Scenario
  <2> QED BY <1>2, <1>6, <2>1, EvenStays DEF RecInv, EvenReceiver
<1> QED BY <1>3, <1>4, <1>5, <1>6, <1>7 DEF RecInv

\* Nothing happens.
LEMMA StutterStep == RecInv /\ UNCHANGED vars => RecInv'
<1> SUFFICES ASSUME RecInv, UNCHANGED vars PROVE RecInv' OBVIOUS
<1>1. snd' = snd /\ rcv' = rcv /\ data' = data /\ acks' = acks /\ scenario' = scenario BY DEF vars
<1>2. EvenFits' BY <1>1 DEF RecInv, EvenFits, EvenData, EvenReceiver
<1> QED BY <1>1, <1>2 DEF RecInv, SenderFits, ReceiverFits, DataFits, BothFit

\* The inductive invariant holds in every state, for every size of the data,
\* every segment size and every scenario.
THEOREM RecInvHolds == Spec => []RecInv
<1>1. RecInv /\ [Next]_vars => RecInv'
  BY SendStep, AckArrivesStep, TimeoutStep, GiveUpStep, DataArrivesStep, DelAckTimeoutStep,
     LoseStep, StutterStep DEF Next
<1> QED BY InitFits, <1>1, PTL DEF Spec

\* What the invariant says of the scoreboard.
LEMMA FitsMeaning ==
  ASSUME RecInv
  PROVE  Fits(snd.buf) /\ snd \in Sender /\ snd.buf \in Buffer /\ Laid(snd.buf)
<1>1. Fits(snd.buf) /\ snd \in Sender BY DEF RecInv, SenderFits, Able
<1> QED BY <1>1, FitsFacts

\* Every variable keeps its type: above all, the counters and the segments
\* of the scoreboard stay in their ranges.
THEOREM TypeCorrect == Spec => []TypeOK
<1>1. RecInv => TypeOK
  <2> SUFFICES ASSUME RecInv PROVE TypeOK OBVIOUS
  <2>1. snd \in Sender BY FitsMeaning
  <2>2. rcv \in Receiver BY DEF RecInv, ReceiverFits, Taking
  <2>3. IsABag(data) /\ BagToSet(data) \subseteq Segment BY DEF RecInv, DataFits
  <2>4. acks \in Seq(Ack) BY DEF RecInv, BothFit, OnTheWay
  <2> QED BY <2>1, <2>2, <2>3, <2>4 DEF TypeOK, RecInv
<1> QED BY <1>1, RecInvHolds, PTL

\* The three counters of the scoreboard, which every operation updates by
\* itself, are the sums over the items (TcpTxBuffer::ConsistencyCheck).
THEOREM CountersMatchCorrect == Spec => []CountersMatch
<1>1. RecInv => CountersMatch BY FitsMeaning DEF CountersMatch, Fits
<1> QED BY <1>1, RecInvHolds, PTL

\* What the sender counts as sacked, and will not send again, the receiver has.
THEOREM SackedIsReceivedCorrect == Spec => []SackedIsReceived
<1>1. RecInv => SackedIsReceived
  <2> SUFFICES ASSUME RecInv, NEW i \in Indices(snd.buf), snd.buf.sent[i].sacked,
                      NEW x \in snd.buf.sent[i].start..(End(snd.buf.sent[i]) - 1)
               PROVE  x \in Received(rcv)
    BY DEF SackedIsReceived, Received
  <2>1. Fits(snd.buf) /\ snd.buf \in Buffer /\ Laid(snd.buf) /\ snd.buf.sent \in Seq(Item)
        /\ Indices(snd.buf) = 1..Len(snd.buf.sent)
    BY FitsMeaning, FitsFacts
  <2>2. snd.buf.sent[i].start \in Nat /\ End(snd.buf.sent[i]) \in Nat BY <2>1, ItemFacts
  <2>3. x \in Int /\ snd.buf.sent[i].start <= x /\ x < End(snd.buf.sent[i]) BY <2>2
  <2>4. x \in SackedBytes(snd.buf) BY <2>1, <2>3, SackedByte
  <2> QED BY <2>4 DEF RecInv, BothFit
<1> QED BY <1>1, RecInvHolds, PTL

\* Loss is a prefix: no item that is neither lost nor sacked comes before a lost one.
THEOREM LostFromTheHeadCorrect == Spec => []LostFromTheHead
<1>1. RecInv => LostFromTheHead BY FitsMeaning DEF LostFromTheHead, Fits, Ordered
<1> QED BY <1>1, RecInvHolds, PTL

\* A sender that has data, may not send and was not given up has its timer
\* running: it cannot wait for ever for acknowledgements that were lost.
THEOREM NeverSilentCorrect == Spec => []NeverSilent
<1>1. RecInv => NeverSilent BY NeverSilentIs DEF RecInv, SenderFits
<1> QED BY <1>1, RecInvHolds, PTL

\* Of the assertions of the scoreboard only the one of MergeItems can fail.
OnlyMergesDisagree == snd.buf.failed \subseteq {"merge lost"}

\* However the segment size changes, whatever is lost: no other assertion fails.
THEOREM OnlyMergesDisagreeCorrect == Spec => []OnlyMergesDisagree
<1>1. RecInv => OnlyMergesDisagree BY FitsMeaning DEF OnlyMergesDisagree, Fits
<1> QED BY <1>1, RecInvHolds, PTL

\* No assertion of the scoreboard fails in a flow whose segment size never
\* changes, whatever is lost; when it changes, only that of MergeItems may.
THEOREM AssertionsHoldCorrect == Spec => []AssertionsHold
<1>1. RecInv => AssertionsHold
  <2> SUFFICES ASSUME RecInv PROVE AssertionsHold OBVIOUS
  <2>1. snd.buf.failed \subseteq {"merge lost"} BY FitsMeaning DEF Fits
  <2>2. scenario.steady => snd.buf.failed = {} BY DEF RecInv, EvenFits, EvenSender, EvenBuffer
  <2> QED BY <2>1, <2>2 DEF AssertionsHold
<1> QED BY <1>1, RecInvHolds, PTL
=============================================================================
