-------------------------- MODULE EvaluationProofs --------------------------
(***************************************************************************)
(* `firm eval` for any regimes, days, fixtures, basket and fills: reports  *)
(* are what their regimes' fixtures make, the summary is of the reports    *)
(* there are and says what their ratios add up to, captured prices stay    *)
(* replayable, and trades and book agree.  The metrics are folds over      *)
(* sequences; a fold is shown to be a walk along the indices, which        *)
(* induction over a natural number then reasons about.                     *)
(***************************************************************************)
EXTENDS Evaluation, FiniteSetTheorems, TLAPS

-----------------------------------------------------------------------------
(* Numbers and folds.                                                      *)

\* A set of numbers has a least one.
LEMMA LeastNumber ==
  ASSUME NEW M \in SUBSET Nat, M # {}
  PROVE  \E n \in M : \A m \in M : n <= m
<1> DEFINE T == {1..n : n \in M}
<1>1. T \subseteq FiniteSubsetsOf(Nat)
  <2>1. \A n \in M : IsFiniteSet(1..n) /\ 1..n \subseteq Nat
    BY FS_Interval
  <2> QED
    BY <2>1 DEF FiniteSubsetsOf
<1>2. T # {}
  OBVIOUS
<1>3. PICK A \in T : \A B \in T : <<B, A>> \notin StrictSubsetOrdering(Nat)
  BY <1>1, <1>2, FS_StrictSubsetOrderingWellFounded, WFMin
<1>4. PICK n \in M : A = 1..n
  BY <1>3
<1>5. ASSUME NEW m \in M, m < n PROVE FALSE
  <2>1. 1..m \in T
    OBVIOUS
  <2>2. n \in 1..n /\ n \notin 1..m /\ 1..m \subseteq 1..n
    BY <1>5
  <2>3. <<1..m, 1..n>> \in StrictSubsetOrdering(Nat)
    BY <2>2 DEF StrictSubsetOrdering
  <2> QED
    BY <1>3, <1>4, <2>1, <2>3
<1> QED
  BY <1>5

\* Induction from 0 to n: what holds of 0 and of the successors of what it holds
\* of holds of every number up to n.
LEMMA CountUp ==
  ASSUME NEW n \in Nat, NEW P, 0 \in P,
         \A k \in 1..n : k - 1 \in P => k \in P
  PROVE  \A k \in 0..n : k \in P
<1> DEFINE M == {k \in 0..n : k \notin P}
<1> SUFFICES ASSUME M # {} PROVE FALSE
  OBVIOUS
<1>1. PICK k \in M : \A m \in M : k <= m
  <2>1. M \in SUBSET Nat /\ M # {}
    OBVIOUS
  <2> HIDE DEF M
  <2> QED
    BY <2>1, LeastNumber
<1>2. k \in 1..n /\ k - 1 \in 0..n /\ k - 1 \notin M
  BY <1>1
<1> QED
  BY <1>2

\* The largest of a set of indices.
LEMMA MaxIn ==
  ASSUME NEW n \in Nat, NEW U \in SUBSET (1..n), U # {}
  PROVE  Max(U) \in U /\ \A u \in U : u <= Max(U)
<1> DEFINE M == {n - u : u \in U}
<1>0. \A u \in U : n - u \in Nat
  OBVIOUS
<1>1. PICK d \in M : \A m \in M : d <= m
  <2>1. M \in SUBSET Nat /\ M # {}
    BY <1>0
  <2> HIDE DEF M
  <2> QED
    BY <2>1, LeastNumber
<1>2. PICK x \in U : d = n - x
  BY <1>1
<1>3. \A u \in U : x >= u
  <2> SUFFICES ASSUME NEW u \in U PROVE x >= u
    OBVIOUS
  <2>1. d <= n - u /\ d = n - x /\ u \in 1..n /\ x \in 1..n
    BY <1>1, <1>2
  <2> QED
    BY <2>1
<1> QED
  BY <1>3 DEF Max

\* The largest of the first k indices, and those before it.
LEMMA MaxOfFirst ==
  ASSUME NEW k \in Nat \ {0}
  PROVE  Max(1..k) = k /\ (1..k) \ {k} = 1..(k - 1)
<1>1. 1..k \in SUBSET (1..k) /\ k \in 1..k
  OBVIOUS
<1>2. Max(1..k) \in 1..k /\ k <= Max(1..k)
  BY <1>1, MaxIn
<1> QED
  BY <1>2

\* g folds F from b over every set of the indices 1..n, the largest one last.
IsFold(g, n, b, F) ==
  \A U \in SUBSET (1..n) :
    g[U] = IF U = {} THEN b ELSE F[<<Max(U), g[U \ {Max(U)}]>>]

\* iter does so wherever what it has for the smaller set is in T.
Folds(iter, n, T, b, F) ==
  /\ n \in Nat /\ b \in T /\ F \in [(1..n) \X T -> T]
  /\ iter[{}] = b
  /\ \A U \in SUBSET (1..n) : U # {} /\ iter[U \ {Max(U)}] \in T =>
        iter[U] = F[<<Max(U), iter[U \ {Max(U)}]>>]

\* h folds F from b over the first k of the indices, for each k.
IsWalk(h, n, T, b, F) ==
  /\ h \in [0..n -> T]
  /\ h[0] = b
  /\ \A k \in 1..n : h[k] = F[<<k, h[k - 1]>>]

\* A fold exists, one index after the other.
LEMMA FoldsExist ==
  ASSUME NEW n \in Nat, NEW T, NEW b \in T, NEW F \in [(1..n) \X T -> T]
  PROVE  \E g \in [SUBSET (1..n) -> T] : IsFold(g, n, b, F)
<1> DEFINE P == {k \in 0..n : \E g \in [SUBSET (1..k) -> T] : IsFold(g, k, b, F)}
<1>1. 0 \in P
  <2> DEFINE g == [U \in SUBSET (1..0) |-> b]
  <2>1. g \in [SUBSET (1..0) -> T] /\ IsFold(g, 0, b, F)
    BY DEF IsFold
  <2> QED
    BY <2>1
<1>2. ASSUME NEW k \in 1..n, k - 1 \in P PROVE k \in P
  <2>1. PICK g \in [SUBSET (1..(k - 1)) -> T] : IsFold(g, k - 1, b, F)
    BY <1>2
  <2> DEFINE h == [U \in SUBSET (1..k) |-> IF k \in U THEN F[<<k, g[U \ {k}]>>] ELSE g[U]]
  <2>2. ASSUME NEW U \in SUBSET (1..k)
        PROVE  /\ k \in U => Max(U) = k /\ U \ {k} \in SUBSET (1..(k - 1)) /\ k \notin U \ {k}
               /\ k \notin U => U \in SUBSET (1..(k - 1))
    <3>1. ASSUME k \in U PROVE Max(U) = k
      <4>1. k \in Nat /\ U # {}
        BY <3>1
      <4>2. Max(U) \in U /\ \A u \in U : u <= Max(U)
        BY <4>1, MaxIn
      <4>3. Max(U) \in 1..k /\ k <= Max(U)
        BY <3>1, <4>2
      <4> QED
        BY <4>3
    <3> QED
      BY <3>1
  <2>3. h \in [SUBSET (1..k) -> T]
    <3> SUFFICES ASSUME NEW U \in SUBSET (1..k) PROVE h[U] \in T
      OBVIOUS
    <3>1. CASE k \in U
      <4>1. g[U \ {k}] \in T
        BY <2>1, <2>2, <3>1
      <4> QED
        BY <3>1, <4>1
    <3>2. CASE k \notin U
      BY <2>1, <2>2, <3>2
    <3> QED
      BY <3>1, <3>2
  <2>4. IsFold(h, k, b, F)
    <3> SUFFICES ASSUME NEW U \in SUBSET (1..k)
                 PROVE  h[U] = IF U = {} THEN b ELSE F[<<Max(U), h[U \ {Max(U)}]>>]
      BY DEF IsFold
    <3>1. CASE k \in U
      <4>1. U \ {k} \in SUBSET (1..k) /\ h[U \ {k}] = g[U \ {k}]
        BY <2>2, <3>1
      <4>2. h[U] = F[<<k, g[U \ {k}]>>]
        BY <3>1
      <4> QED
        BY <2>2, <3>1, <4>1, <4>2
    <3>2. CASE k \notin U /\ U # {}
      <4>1. U \in SUBSET (1..(k - 1)) /\ Max(U) \in U
        <5>1. U \in SUBSET (1..(k - 1)) /\ k - 1 \in Nat
          BY <2>2, <3>2
        <5> QED
          BY <3>2, <5>1, MaxIn
      <4>2. h[U] = g[U] /\ h[U \ {Max(U)}] = g[U \ {Max(U)}]
        BY <3>2, <4>1
      <4>3. g[U] = F[<<Max(U), g[U \ {Max(U)}]>>]
        BY <2>1, <3>2, <4>1 DEF IsFold
      <4> QED
        BY <3>2, <4>2, <4>3
    <3>3. CASE U = {}
      <4>1. {} \in SUBSET (1..(k - 1)) /\ g[{}] = b
        BY <2>1 DEF IsFold
      <4> QED
        BY <3>3, <4>1
    <3> QED
      BY <3>1, <3>2, <3>3
  <2> HIDE DEF h
  <2> QED
    BY <2>3, <2>4
<1>3. n \in P
  <2> HIDE DEF P
  <2>1. \A k \in 0..n : k \in P
    BY <1>1, <1>2, CountUp
  <2> QED
    BY <2>1
<1> QED
  BY <1>3

\* Whatever satisfies the equation of a fold as far as it is typed, is one walk
\* along the indices.
LEMMA FoldIsWalk ==
  ASSUME NEW iter, NEW n, NEW T, NEW b, NEW F, Folds(iter, n, T, b, F)
  PROVE  \E h : IsWalk(h, n, T, b, F) /\ iter[1..n] = h[n]
<1> DEFINE h == [k \in 0..n |-> iter[1..k]]
           P == {k \in 0..n : h[k] \in T}
<1>0. n \in Nat /\ b \in T /\ F \in [(1..n) \X T -> T]
  BY DEF Folds
<1>1. h[0] = b
  BY 1..0 = {} DEF Folds
<1>2. ASSUME NEW k \in 1..n, h[k - 1] \in T
      PROVE  h[k] = F[<<k, h[k - 1]>>]
  <2>1. 1..k \in SUBSET (1..n) /\ 1..k # {} /\ k \in Nat \ {0} /\ k - 1 \in 0..n
    BY <1>0
  <2>2. Max(1..k) = k /\ (1..k) \ {k} = 1..(k - 1)
    BY <2>1, MaxOfFirst
  <2>3. h[k] = iter[1..k] /\ h[k - 1] = iter[1..(k - 1)]
    BY <2>1
  <2> QED
    BY <1>2, <2>1, <2>2, <2>3 DEF Folds
<1>3. \A k \in 0..n : h[k] \in T
  <2>1. 0 \in P
    BY <1>0, <1>1
  <2>2. ASSUME NEW k \in 1..n, k - 1 \in P PROVE k \in P
    <3> HIDE DEF h
    <3>1. h[k - 1] \in T
      BY <2>2
    <3>2. h[k] = F[<<k, h[k - 1]>>]
      BY <1>2, <3>1
    <3> QED
      BY <1>0, <3>1, <3>2
  <2>3. \A k \in 0..n : k \in P
    <3> HIDE DEF P
    <3> QED
      BY <1>0, <2>1, <2>2, CountUp
  <2> QED
    BY <2>3
<1>4. h \in [0..n -> T]
  BY <1>3, <1>0
<1>5. IsWalk(h, n, T, b, F)
  <2> HIDE DEF h
  <2> QED
    BY <1>0, <1>1, <1>2, <1>3, <1>4 DEF IsWalk
<1>6. h[n] = iter[1..n]
  BY <1>0
<1> QED
  BY <1>5, <1>6

\* Two walks that take the same steps come to the same.
SameSteps(h, g, n) ==
  n \in Nat /\ h[0] = g[0] /\ \A k \in 1..n : h[k - 1] = g[k - 1] => h[k] = g[k]

LEMMA SameWalk ==
  ASSUME NEW h, NEW g, NEW n, SameSteps(h, g, n)
  PROVE  \A k \in 0..n : h[k] = g[k]
<1> DEFINE P == {k \in 0..n : h[k] = g[k]}
<1>1. 0 \in P /\ \A k \in 1..n : k - 1 \in P => k \in P
  BY DEF SameSteps
<1> HIDE DEF P
<1>2. \A k \in 0..n : k \in P
  BY <1>1, CountUp DEF SameSteps
<1> QED
  BY <1>2 DEF P

-----------------------------------------------------------------------------
(* Sums.                                                                   *)

Sum(s) == FoldLeft(LAMBDA n, x : n + x, 0, s)

\* A sum, as its partial sums.
LEMMA SumWalk ==
  ASSUME NEW s \in Seq(Int)
  PROVE  \E h \in [0..Len(s) -> Int] :
           /\ h[0] = 0
           /\ \A k \in 1..Len(s) : h[k] = h[k - 1] + s[k]
           /\ Sum(s) = h[Len(s)]
<1> DEFINE n == Len(s)
           F == [p \in (1..n) \X Int |-> p[2] + s[p[1]]]
           Equation(g) == g = [U \in SUBSET DOMAIN s |->
                              IF U = {} THEN 0 ELSE g[U \ {Max(U)}] + s[Max(U)]]
           iter == CHOOSE g : Equation(g)
<1>1. n \in Nat /\ DOMAIN s = 1..n /\ F \in [(1..n) \X Int -> Int] /\ 0 \in Int
  OBVIOUS
<1> HIDE DEF n
<1>2. Sum(s) = iter[1..n]
  BY <1>1 DEF Sum, FoldLeft, MapThenFoldSet
<1>3. Equation(iter)
  <2>1. PICK g \in [SUBSET (1..n) -> Int] : IsFold(g, n, 0, F)
    <3> HIDE DEF F
    <3> QED
      BY <1>1, FoldsExist
  <2>2. Equation(g)
    <3> SUFFICES ASSUME NEW U \in SUBSET (1..n), U # {}
                 PROVE  g[U] = g[U \ {Max(U)}] + s[Max(U)]
      BY <1>1, <2>1 DEF IsFold
    <3>1. Max(U) \in 1..n /\ U \ {Max(U)} \in SUBSET (1..n)
      BY <1>1, MaxIn
    <3> QED
      BY <2>1, <3>1 DEF IsFold
  <2> HIDE DEF Equation
  <2> QED
    BY <2>2
<1>4. \A U \in SUBSET (1..n) :
        iter[U] = IF U = {} THEN 0 ELSE iter[U \ {Max(U)}] + s[Max(U)]
  <2> HIDE DEF iter
  <2> QED
    BY <1>1, <1>3
<1> HIDE DEF iter
<1>5. Folds(iter, n, Int, 0, F)
  BY <1>1, <1>4, MaxIn DEF Folds
<1>6. PICK h : IsWalk(h, n, Int, 0, F) /\ iter[1..n] = h[n]
  BY <1>5, FoldIsWalk
<1>7. ASSUME NEW k \in 1..n PROVE h[k] = h[k - 1] + s[k]
  <2>1. k - 1 \in 0..n
    BY <1>1
  <2>2. h[k] = F[<<k, h[k - 1]>>]
    <3> HIDE DEF F
    <3> QED
      BY <1>6 DEF IsWalk
  <2> QED
    BY <1>6, <2>1, <2>2 DEF IsWalk
<1> QED
  BY <1>2, <1>6, <1>7 DEF IsWalk, n

\* Nothing adds up to 0.
LEMMA SumOfNone == Sum(<<>>) = 0
<1>1. <<>> \in Seq(Int) /\ Len(<<>>) = 0
  OBVIOUS
<1>2. PICK h \in [0..0 -> Int] : h[0] = 0 /\ Sum(<<>>) = h[0]
  BY <1>1, SumWalk
<1> QED
  BY <1>2

\* A sum grows by what is appended.
LEMMA SumAppend ==
  ASSUME NEW s \in Seq(Int), NEW x \in Int
  PROVE  Sum(s) \in Int /\ Sum(Append(s, x)) = Sum(s) + x
<1> DEFINE n == Len(s)
           r == Append(s, x)
<1>1. n \in Nat /\ r \in Seq(Int) /\ Len(r) = n + 1 /\ r[n + 1] = x /\ \A k \in 1..n : r[k] = s[k]
  OBVIOUS
<1>2. PICK h \in [0..n -> Int] :
        h[0] = 0 /\ (\A k \in 1..n : h[k] = h[k - 1] + s[k]) /\ Sum(s) = h[n]
  BY SumWalk
<1> HIDE DEF r, n
<1>3. PICK g \in [0..n + 1 -> Int] :
        g[0] = 0 /\ (\A k \in 1..n + 1 : g[k] = g[k - 1] + r[k]) /\ Sum(r) = g[n + 1]
  BY <1>1, SumWalk
<1>4. SameSteps(h, g, n)
  BY <1>1, <1>2, <1>3 DEF SameSteps
<1>5. h[n] = g[n]
  <2>1. \A k \in 0..n : h[k] = g[k]
    BY <1>4, SameWalk
  <2> QED
    BY <1>1, <2>1
<1>6. g[n + 1] = g[n] + x /\ h[n] \in Int
  BY <1>1, <1>2, <1>3
<1> QED
  BY <1>2, <1>3, <1>5, <1>6 DEF r

-----------------------------------------------------------------------------
(* Trades: what the lots cost, how many shares they have, what the closed  *)
(* trades made.                                                            *)

Lots == [shares: Nat, cost: Int, day: Nat]
ClosedTrades == [entry: Nat, exit: Nat, pnl: Int]

PnlOf(closed) == Sum([i \in 1..Len(closed) |-> closed[i].pnl])
CostOf(lots) == Sum([i \in 1..Len(lots) |-> lots[i].shares * lots[i].cost])
SharesOf(lots) == Sum([i \in 1..Len(lots) |-> lots[i].shares])

\* No trades and no lots come to nothing.
LEMMA SumsOfNone == PnlOf(<<>>) = 0 /\ CostOf(<<>>) = 0 /\ SharesOf(<<>>) = 0
<1>1. /\ [i \in 1..Len(<<>>) |-> <<>>[i].pnl] = <<>>
      /\ [i \in 1..Len(<<>>) |-> <<>>[i].shares * <<>>[i].cost] = <<>>
      /\ [i \in 1..Len(<<>>) |-> <<>>[i].shares] = <<>>
  OBVIOUS
<1> QED
  BY <1>1, SumOfNone DEF PnlOf, CostOf, SharesOf

\* A closed trade adds its profit.
LEMMA PnlAppend ==
  ASSUME NEW closed \in Seq(ClosedTrades), NEW c \in ClosedTrades
  PROVE  PnlOf(closed) \in Int /\ PnlOf(Append(closed, c)) = PnlOf(closed) + c.pnl
<1> DEFINE s == [i \in 1..Len(closed) |-> closed[i].pnl]
           more == Append(closed, c)
<1>1. \A d \in ClosedTrades : d.pnl \in Int
  BY DEF ClosedTrades
<1>2. s \in Seq(Int)
  BY <1>1
<1>3. [i \in 1..Len(more) |-> more[i].pnl] = Append(s, c.pnl)
  BY <1>2
<1> QED
  BY <1>1, <1>2, <1>3, SumAppend DEF PnlOf

\* What trades made is a number.
LEMMA PnlTyped == \A closed \in Seq(ClosedTrades) : PnlOf(closed) \in Int
<1> SUFFICES ASSUME NEW closed \in Seq(ClosedTrades) PROVE PnlOf(closed) \in Int
  OBVIOUS
<1> DEFINE c == [entry |-> 0, exit |-> 0, pnl |-> 0]
<1>1. c \in ClosedTrades
  BY DEF ClosedTrades
<1> QED
  BY <1>1, PnlAppend

\* A lot adds its shares and their cost.
LEMMA LotsAppend ==
  ASSUME NEW lots \in Seq(Lots), NEW lot \in Lots
  PROVE  /\ CostOf(lots) \in Int /\ SharesOf(lots) \in Int
         /\ CostOf(Append(lots, lot)) = CostOf(lots) + lot.shares * lot.cost
         /\ SharesOf(Append(lots, lot)) = SharesOf(lots) + lot.shares
<1> DEFINE s == [i \in 1..Len(lots) |-> lots[i].shares]
           p == [i \in 1..Len(lots) |-> lots[i].shares * lots[i].cost]
           more == Append(lots, lot)
<1>1. \A l \in Lots : l.shares \in Int /\ l.cost \in Int /\ l.shares * l.cost \in Int
  BY DEF Lots
<1>2. s \in Seq(Int) /\ p \in Seq(Int)
  BY <1>1
<1>3. [i \in 1..Len(more) |-> more[i].shares] = Append(s, lot.shares)
  BY <1>2
<1>4. [i \in 1..Len(more) |-> more[i].shares * more[i].cost] = Append(p, lot.shares * lot.cost)
  BY <1>2
<1> QED
  BY <1>1, <1>2, <1>3, <1>4, SumAppend DEF CostOf, SharesOf

\* What lots cost and hold are numbers.
LEMMA LotsTyped == \A lots \in Seq(Lots) : CostOf(lots) \in Int /\ SharesOf(lots) \in Int
<1> SUFFICES ASSUME NEW lots \in Seq(Lots) PROVE CostOf(lots) \in Int /\ SharesOf(lots) \in Int
  OBVIOUS
<1> DEFINE lot == [shares |-> 0, cost |-> 0, day |-> 0]
<1>1. lot \in Lots
  BY DEF Lots
<1> QED
  BY <1>1, LotsAppend

-----------------------------------------------------------------------------
(* Trades: a sell walks along the lots.                                    *)

\* A commission per share is an amount, and what the shares bear of it differs
\* from it by no more than Rounding allows.
LEMMA PerShareNear ==
  ASSUME NEW f \in FillRecords
  PROVE  /\ PerShare(f) \in Int /\ Rounding(f) \in Nat
         /\ 2 * (f.commission - PerShare(f) * f.shares) \in -Rounding(f)..Rounding(f)
<1> DEFINE c == f.commission
           n == f.shares
           Near(q) == 2 * (c - q * n) \in -n..n
<1>1. c \in Nat /\ n \in Nat
  BY DEF FillRecords
<1>2. CASE n = 0
  <2>1. PerShare(f) = 0 /\ Rounding(f) = 2 * c /\ 0 * n = 0
    BY <1>2 DEF PerShare, Rounding
  <2> QED
    BY <1>1, <2>1
<1>3. CASE n # 0
  <2> HIDE DEF c, n
  <2> DEFINE M == {q \in Nat : 2 * c <= 2 * (q * n) + n}
  <2>1. c \in M
    <3>1. c <= c * n
      BY <1>1, <1>3
    <3> QED
      BY <1>1, <3>1
  <2>2. PICK q \in M : \A m \in M : q <= m
    BY <2>1, LeastNumber
  <2>3. q \in 0..c
    BY <1>1, <2>1, <2>2
  <2>4. Near(q)
    <3>1. q * n \in Nat /\ 2 * c <= 2 * (q * n) + n
      BY <1>1, <2>2
    <3>2. 2 * c >= 2 * (q * n) - n
      <4>1. CASE q = 0
        BY <1>1, <4>1
      <4>2. CASE q # 0
        <5>1. q - 1 \in Nat /\ q - 1 \notin M
          BY <2>2, <4>2
        <5>2. (q - 1) * n = q * n - n /\ (q - 1) * n \in Nat
          BY <1>1, <5>1
        <5>3. ~(2 * c <= 2 * ((q - 1) * n) + n)
          BY <5>1
        <5> QED
          BY <1>1, <3>1, <5>2, <5>3
      <4> QED
        BY <4>1, <4>2
    <3> QED
      BY <1>1, <3>1, <3>2
  <2>5. PerShare(f) = CHOOSE x \in 0..c : Near(x)
    BY <1>3 DEF PerShare, c, n
  <2>6. PerShare(f) \in 0..c /\ Near(PerShare(f))
    <3> HIDE DEF Near
    <3> QED
      BY <2>3, <2>4, <2>5
  <2>7. Rounding(f) = n
    BY <1>3 DEF Rounding, n
  <2> QED
    BY <1>1, <2>6, <2>7 DEF c, n
<1> QED
  BY <1>2, <1>3

Matches == [need: Nat, lots: Seq(Lots), closed: Seq(ClosedTrades)]

\* The lesser of two numbers.
LEMMA MinOfTwo ==
  ASSUME NEW a \in Nat, NEW b \in Nat
  PROVE  Min({a, b}) \in {a, b} /\ Min({a, b}) <= a /\ Min({a, b}) <= b
<1>1. \E x \in {a, b} : \A y \in {a, b} : x <= y
  <2>1. CASE a <= b
    BY <2>1
  <2>2. CASE b <= a
    BY <2>2
  <2> QED
    BY <2>1, <2>2
<1> QED
  BY <1>1 DEF Min

\* A lot met by a sell: what it gives is closed, what is left of it stays.
LEMMA MatchOne ==
  ASSUME NEW acc \in Matches, NEW lot \in Lots, NEW f \in FillRecords
  PROVE  \E n \in Nat :
           LET m == SellMatched(acc, lot, f) IN
             /\ m \in Matches
             /\ m.need = acc.need - n
             /\ SharesOf(m.lots) = SharesOf(acc.lots) + (lot.shares - n)
             /\ CostOf(m.lots) = CostOf(acc.lots) + (lot.shares - n) * lot.cost
             /\ PnlOf(m.closed) = PnlOf(acc.closed) + (f.price - PerShare(f) - lot.cost) * n
<1> DEFINE m == SellMatched(acc, lot, f)
<1>1. /\ acc.need \in Nat /\ acc.lots \in Seq(Lots) /\ acc.closed \in Seq(ClosedTrades)
      /\ lot.shares \in Nat /\ lot.cost \in Int /\ lot.day \in Nat
      /\ f.price \in Int /\ PerShare(f) \in Int /\ f.day \in Nat
  BY PerShareNear DEF Matches, Lots, FillRecords
<1>2. CostOf(acc.lots) \in Int /\ SharesOf(acc.lots) \in Int
  BY <1>1, LotsTyped
<1>3. CASE acc.need = 0
  <2>1. m = [acc EXCEPT !.lots = Append(acc.lots, lot)]
    BY <1>3 DEF SellMatched
  <2>2. /\ m.need = acc.need /\ m.lots = Append(acc.lots, lot) /\ m.closed = acc.closed
        /\ m \in Matches
    <3>1. Append(acc.lots, lot) \in Seq(Lots)
      BY <1>1
    <3> DEFINE more == Append(acc.lots, lot)
    <3> HIDE DEF more
    <3>2. m = [acc EXCEPT !.lots = more] /\ more \in Seq(Lots)
      BY <2>1, <3>1 DEF more
    <3> HIDE DEF m
    <3>3. m.need = acc.need /\ m.lots = more /\ m.closed = acc.closed /\ m \in Matches
      BY <3>2 DEF Matches
    <3> QED
      BY <3>3 DEF more
  <2>3. /\ CostOf(m.lots) = CostOf(acc.lots) + lot.shares * lot.cost
        /\ SharesOf(m.lots) = SharesOf(acc.lots) + lot.shares
    BY <1>1, <2>2, LotsAppend
  <2>4. /\ m.need = acc.need - 0
        /\ SharesOf(m.lots) = SharesOf(acc.lots) + (lot.shares - 0)
        /\ CostOf(m.lots) = CostOf(acc.lots) + (lot.shares - 0) * lot.cost
    BY <1>1, <2>2, <2>3
  <2>5. PnlOf(m.closed) = PnlOf(acc.closed) + (f.price - PerShare(f) - lot.cost) * 0
    <3>1. PnlOf(acc.closed) \in Int
      BY <1>1, PnlTyped
    <3> QED
      BY <1>1, <2>2, <3>1
  <2> HIDE DEF m
  <2> QED
    BY <2>2, <2>4, <2>5 DEF m
<1>4. CASE acc.need # 0
  <2> DEFINE n == Min({lot.shares, acc.need})
             rest == [lot EXCEPT !.shares = lot.shares - n]
             c == [entry |-> lot.day, exit |-> f.day,
                   pnl |-> (f.price - PerShare(f) - lot.cost) * n]
  <2>1. n \in Nat /\ n <= lot.shares /\ n <= acc.need
    BY <1>1, MinOfTwo
  <2>2. m = [need   |-> acc.need - n,
             lots   |-> IF n = lot.shares THEN acc.lots ELSE Append(acc.lots, rest),
             closed |-> Append(acc.closed, c)]
    BY <1>4 DEF SellMatched
  <2> HIDE DEF n
  <2>3. c \in ClosedTrades /\ c.pnl = (f.price - PerShare(f) - lot.cost) * n
    BY <1>1, <2>1 DEF ClosedTrades
  <2>4. rest \in Lots /\ rest.shares = lot.shares - n /\ rest.cost = lot.cost
    BY <1>1, <2>1 DEF Lots
  <2>5. acc.need - n \in Nat
    BY <1>1, <2>1
  <2> HIDE DEF c, rest
  <2>6. PnlOf(m.closed) = PnlOf(acc.closed) + (f.price - PerShare(f) - lot.cost) * n
    <3>1. m.closed = Append(acc.closed, c)
      BY <2>2
    <3> HIDE DEF m
    <3> QED
      BY <1>1, <2>3, <3>1, PnlAppend
  <2>7. m \in Matches /\ m.need = acc.need - n
    <3>1. m.lots \in Seq(Lots) /\ m.closed \in Seq(ClosedTrades) /\ m.need = acc.need - n
      BY <1>1, <2>2, <2>3, <2>4
    <3> QED
      BY <2>2, <2>5, <3>1 DEF Matches
  <2>8. /\ SharesOf(m.lots) = SharesOf(acc.lots) + (lot.shares - n)
        /\ CostOf(m.lots) = CostOf(acc.lots) + (lot.shares - n) * lot.cost
    <3>1. CASE n = lot.shares
      <4>1. m.lots = acc.lots
        BY <2>2, <3>1
      <4>2. lot.shares - n = 0 /\ 0 * lot.cost = 0
        BY <1>1, <3>1
      <4> HIDE DEF m
      <4> QED
        BY <1>2, <4>1, <4>2
    <3>2. CASE n # lot.shares
      <4>1. m.lots = Append(acc.lots, rest)
        BY <2>2, <3>2
      <4> HIDE DEF m
      <4> QED
        BY <1>1, <2>4, <4>1, LotsAppend
    <3> QED
      BY <3>1, <3>2
  <2> HIDE DEF m
  <2> QED
    BY <2>1, <2>6, <2>7, <2>8 DEF m
<1> QED
  BY <1>3, <1>4

\* What a sell is matched with, and its walk along the lots.
StartOf(t, f) == [need |-> f.shares, lots |-> <<>>, closed |-> t.closed]
MatchedWith(t, f) == FoldLeft(LAMBDA acc, lot : SellMatched(acc, lot, f), StartOf(t, f), t.lots)

Books == [cash: Int, held: Int, lots: Seq(Lots), closed: Seq(ClosedTrades), short: BOOLEAN]

\* A sell meets one lot after the other.
LEMMA MatchWalk ==
  ASSUME NEW t \in Books, NEW f \in FillRecords
  PROVE  \E h \in [0..Len(t.lots) -> Matches] :
           /\ h[0] = StartOf(t, f)
           /\ \A k \in 1..Len(t.lots) : h[k] = SellMatched(h[k - 1], t.lots[k], f)
           /\ MatchedWith(t, f) = h[Len(t.lots)]
<1> DEFINE s == t.lots
           n == Len(s)
           b == StartOf(t, f)
           F == [p \in (1..n) \X Matches |-> SellMatched(p[2], s[p[1]], f)]
           Equation(g) == g = [U \in SUBSET DOMAIN s |->
                                 IF U = {} THEN b ELSE SellMatched(g[U \ {Max(U)}], s[Max(U)], f)]
           iter == CHOOSE g : Equation(g)
<1>1. s \in Seq(Lots) /\ n \in Nat /\ DOMAIN s = 1..n
  BY DEF Books
<1>2. b \in Matches
  <2>1. t.closed \in Seq(ClosedTrades) /\ f.shares \in Nat /\ <<>> \in Seq(Lots)
    BY DEF Books, FillRecords
  <2> QED
    BY <2>1 DEF StartOf, Matches
<1>3. MatchedWith(t, f) = iter[1..n]
  BY <1>1 DEF MatchedWith, FoldLeft, MapThenFoldSet
<1> HIDE DEF b, n
<1>4. F \in [(1..n) \X Matches -> Matches]
  <2>1. ASSUME NEW k \in 1..n, NEW acc \in Matches PROVE SellMatched(acc, s[k], f) \in Matches
    <3>1. s[k] \in Lots
      BY <1>1
    <3> HIDE DEF s
    <3> QED
      BY <3>1, MatchOne
  <2> QED
    BY <2>1
<1>5. Equation(iter)
  <2>1. PICK g \in [SUBSET (1..n) -> Matches] : IsFold(g, n, b, F)
    <3> HIDE DEF F
    <3> QED
      BY <1>1, <1>2, <1>4, FoldsExist
  <2>2. Equation(g)
    <3> SUFFICES ASSUME NEW U \in SUBSET (1..n), U # {}
                 PROVE  g[U] = SellMatched(g[U \ {Max(U)}], s[Max(U)], f)
      BY <1>1, <2>1 DEF IsFold
    <3>1. Max(U) \in 1..n /\ U \ {Max(U)} \in SUBSET (1..n)
      BY <1>1, MaxIn
    <3> QED
      BY <2>1, <3>1 DEF IsFold
  <2> HIDE DEF Equation
  <2> QED
    BY <2>2
<1>6. \A U \in SUBSET (1..n) :
        iter[U] = IF U = {} THEN b ELSE SellMatched(iter[U \ {Max(U)}], s[Max(U)], f)
  <2> HIDE DEF iter
  <2> QED
    BY <1>1, <1>5
<1> HIDE DEF iter
<1>7. Folds(iter, n, Matches, b, F)
  BY <1>1, <1>2, <1>4, <1>6, MaxIn DEF Folds
<1>8. PICK h : IsWalk(h, n, Matches, b, F) /\ iter[1..n] = h[n]
  BY <1>7, FoldIsWalk
<1>9. ASSUME NEW k \in 1..n PROVE h[k] = SellMatched(h[k - 1], s[k], f)
  <2>1. k - 1 \in 0..n
    BY <1>1
  <2>2. h[k] = F[<<k, h[k - 1]>>]
    <3> HIDE DEF F
    <3> QED
      BY <1>8 DEF IsWalk
  <2> QED
    BY <1>8, <2>1, <2>2 DEF IsWalk
<1> QED
  BY <1>3, <1>8, <1>9 DEF IsWalk, n, b

\* The arithmetic of a lot met by a sell.
LEMMA MatchArithmetic ==
  ASSUME NEW p \in Int, NEW need \in Int, NEW all \in Int, NEW n \in Int,
         NEW cost \in Int, NEW shares \in Int, NEW pnl \in Int, NEW before \in Int,
         NEW old \in Int, NEW new \in Int,
         pnl = before + p * (all - need) - (old - new)
  PROVE  pnl + (p - cost) * n
           = before + p * (all - (need - n)) - ((old + shares * cost) - (new + (shares - n) * cost))
<1>1. (p - cost) * n = p * n - cost * n
  OBVIOUS
<1>2. (shares - n) * cost = shares * cost - cost * n
  OBVIOUS
<1>3. p * (all - (need - n)) = p * (all - need) + p * n
  OBVIOUS
<1>4. p * n \in Int /\ cost * n \in Int /\ shares * cost \in Int /\ p * (all - need) \in Int
  OBVIOUS
<1> QED
  BY <1>1, <1>2, <1>3, <1>4

\* What a sell takes out of the lots it closes: their shares are as many fewer as
\* it still needs fewer, and the trades it adds made the difference between what
\* it got for them and what they cost.
LEMMA MatchBalances ==
  ASSUME NEW t \in Books, NEW f \in FillRecords
  PROVE  LET m == MatchedWith(t, f) IN
           /\ m \in Matches
           /\ SharesOf(m.lots) = SharesOf(t.lots) - (f.shares - m.need)
           /\ PnlOf(m.closed) = PnlOf(t.closed) + (f.price - PerShare(f)) * (f.shares - m.need)
                                 - (CostOf(t.lots) - CostOf(m.lots))
<1> DEFINE s == t.lots
           n == Len(s)
           shares == [i \in 1..n |-> s[i].shares]
           costs == [i \in 1..n |-> s[i].shares * s[i].cost]
<1>1. s \in Seq(Lots) /\ n \in Nat /\ t.closed \in Seq(ClosedTrades)
  BY DEF Books
<1>2. \A l \in Lots : l.shares \in Int /\ l.cost \in Int /\ l.shares * l.cost \in Int
  BY DEF Lots
<1>3. shares \in Seq(Int) /\ costs \in Seq(Int) /\ Len(shares) = n /\ Len(costs) = n
  BY <1>1, <1>2
<1>4. PICK a \in [0..n -> Int] : /\ a[0] = 0 /\ Sum(shares) = a[n]
                                 /\ \A k \in 1..n : a[k] = a[k - 1] + s[k].shares
  <2>1. PICK a \in [0..Len(shares) -> Int] :
          /\ a[0] = 0 /\ \A k \in 1..Len(shares) : a[k] = a[k - 1] + shares[k]
          /\ Sum(shares) = a[Len(shares)]
    BY <1>3, SumWalk
  <2> QED
    BY <1>3, <2>1
<1>5. PICK c \in [0..n -> Int] : /\ c[0] = 0 /\ Sum(costs) = c[n]
                                 /\ \A k \in 1..n : c[k] = c[k - 1] + s[k].shares * s[k].cost
  <2>1. PICK c \in [0..Len(costs) -> Int] :
          /\ c[0] = 0 /\ \A k \in 1..Len(costs) : c[k] = c[k - 1] + costs[k]
          /\ Sum(costs) = c[Len(costs)]
    BY <1>3, SumWalk
  <2> QED
    BY <1>3, <2>1
<1>6. PICK h \in [0..n -> Matches] :
        /\ h[0] = StartOf(t, f)
        /\ \A k \in 1..n : h[k] = SellMatched(h[k - 1], s[k], f)
        /\ MatchedWith(t, f) = h[n]
  BY MatchWalk
<1>7. SharesOf(s) = a[n] /\ CostOf(s) = c[n]
  BY <1>4, <1>5 DEF SharesOf, CostOf
<1> DEFINE p == f.price - PerShare(f)
           Balanced(k) ==
             /\ SharesOf(h[k].lots) = a[k] - (f.shares - h[k].need)
             /\ PnlOf(h[k].closed) = PnlOf(t.closed) + p * (f.shares - h[k].need)
                                      - (c[k] - CostOf(h[k].lots))
           P == {k \in 0..n : Balanced(k)}
<1>8. f.price \in Int /\ PerShare(f) \in Int /\ f.shares \in Nat /\ p \in Int /\ PnlOf(t.closed) \in Int
  BY <1>1, PnlTyped, PerShareNear DEF FillRecords
<1> HIDE DEF n
<1>9. 0 \in P
  <2>1. h[0].need = f.shares /\ h[0].lots = <<>> /\ h[0].closed = t.closed
    BY <1>6 DEF StartOf
  <2>2. f.shares - f.shares = 0 /\ p * 0 = 0
    BY <1>8
  <2> HIDE DEF p
  <2> QED
    BY <1>1, <1>4, <1>5, <1>8, <2>1, <2>2, SumsOfNone
<1>10. ASSUME NEW k \in 1..n, k - 1 \in P PROVE k \in P
  <2> DEFINE acc == h[k - 1]
             lot == s[k]
             m == SellMatched(acc, lot, f)
  <2>1. k - 1 \in 0..n /\ k \in 0..n /\ acc \in Matches /\ lot \in Lots /\ h[k] = m
    <3>1. k - 1 \in 0..n /\ k \in 0..n
      <4> HIDE DEF Balanced
      <4>1. k - 1 \in 0..n
        BY <1>10 DEF P
      <4> HIDE DEF P
      <4> QED
        BY <1>1, <4>1
    <3>2. lot \in Lots
      BY <1>1 DEF n
    <3>3. acc \in Matches /\ h[k] = m
      <4> HIDE DEF s, P
      <4> QED
        BY <1>6, <3>1
    <3> QED
      BY <3>1, <3>2, <3>3
  <2>2. PICK d \in Nat :
          /\ m \in Matches
          /\ m.need = acc.need - d
          /\ SharesOf(m.lots) = SharesOf(acc.lots) + (lot.shares - d)
          /\ CostOf(m.lots) = CostOf(acc.lots) + (lot.shares - d) * lot.cost
          /\ PnlOf(m.closed) = PnlOf(acc.closed) + (f.price - PerShare(f) - lot.cost) * d
    BY <2>1, MatchOne
  <2>3. Balanced(k - 1)
    BY <1>10
  <2>4. /\ acc.need \in Int /\ acc.lots \in Seq(Lots) /\ acc.closed \in Seq(ClosedTrades)
        /\ CostOf(acc.lots) \in Int /\ SharesOf(acc.lots) \in Int /\ PnlOf(acc.closed) \in Int
        /\ lot.shares \in Int /\ lot.cost \in Int /\ a[k - 1] \in Int /\ c[k - 1] \in Int
        /\ a[k] = a[k - 1] + lot.shares /\ c[k] = c[k - 1] + lot.shares * lot.cost
    <3>1. acc.need \in Int /\ acc.lots \in Seq(Lots) /\ acc.closed \in Seq(ClosedTrades)
      BY <2>1 DEF Matches
    <3>2. CostOf(acc.lots) \in Int /\ SharesOf(acc.lots) \in Int
      BY <3>1, LotsTyped
    <3>3. PnlOf(acc.closed) \in Int
      BY <3>1, PnlTyped
    <3> QED
      BY <1>2, <1>4, <1>5, <2>1, <3>1, <3>2, <3>3
  <2> HIDE DEF m, acc, lot
  <2>5. SharesOf(m.lots) = a[k] - (f.shares - m.need)
    <3>1. SharesOf(acc.lots) = a[k - 1] - (f.shares - acc.need)
      BY <2>3 DEF acc
    <3>2. m.need = acc.need - d /\ SharesOf(m.lots) = SharesOf(acc.lots) + (lot.shares - d)
      BY <2>2
    <3>3. /\ acc.need \in Int /\ lot.shares \in Int /\ a[k - 1] \in Int
          /\ a[k] = a[k - 1] + lot.shares
      BY <2>4
    <3> DEFINE x == SharesOf(acc.lots)
               y == a[k - 1]
               given == lot.shares
               need == acc.need
               all == f.shares
    <3>4. /\ y \in Int /\ given \in Int /\ need \in Int /\ all \in Int /\ d \in Int
          /\ x = y - (all - need) /\ m.need = need - d /\ SharesOf(m.lots) = x + (given - d)
          /\ a[k] = y + given
      BY <1>8, <3>1, <3>2, <3>3
    <3> HIDE DEF x, y, given, need, all
    <3>5. SharesOf(m.lots) = a[k] - (all - m.need)
      BY <3>4
    <3> QED
      BY <3>5 DEF all
  <2>6. PnlOf(m.closed) = PnlOf(t.closed) + p * (f.shares - m.need) - (c[k] - CostOf(m.lots))
    <3>1. PnlOf(acc.closed) = PnlOf(t.closed) + p * (f.shares - acc.need) - (c[k - 1] - CostOf(acc.lots))
      BY <2>3 DEF acc
    <3>2. PnlOf(m.closed) = PnlOf(acc.closed) + (p - lot.cost) * d
      BY <1>8, <2>2, <2>4
    <3> HIDE DEF p
    <3> DEFINE pnl == PnlOf(acc.closed)
               before == PnlOf(t.closed)
               old == c[k - 1]
               new == CostOf(acc.lots)
               need == acc.need
               all == f.shares
               cost == lot.cost
               given == lot.shares
    <3>3. /\ p \in Int /\ d \in Int /\ pnl \in Int /\ before \in Int /\ old \in Int /\ new \in Int
          /\ need \in Int /\ all \in Int /\ cost \in Int /\ given \in Int
          /\ pnl = before + p * (all - need) - (old - new)
      BY <1>8, <2>4, <3>1
    <3>4. /\ PnlOf(m.closed) = pnl + (p - cost) * d /\ m.need = need - d
          /\ c[k] = old + given * cost /\ CostOf(m.lots) = new + (given - d) * cost
      BY <2>2, <2>4, <3>2
    <3> HIDE DEF pnl, before, old, new, need, all, cost, given
    <3>5. pnl + (p - cost) * d
            = before + p * (all - (need - d)) - ((old + given * cost) - (new + (given - d) * cost))
      BY <3>3, MatchArithmetic
    <3>6. PnlOf(m.closed) = before + p * (all - m.need) - (c[k] - CostOf(m.lots))
      BY <3>4, <3>5
    <3> QED
      BY <3>6 DEF before, all
  <2> QED
    BY <2>1, <2>5, <2>6
<1>11. n \in P
  <2> HIDE DEF P
  <2>1. \A k \in 0..n : k \in P
    BY <1>1, <1>9, <1>10, CountUp DEF n
  <2> QED
    BY <1>1, <2>1 DEF n
<1> QED
  BY <1>1, <1>6, <1>7, <1>11 DEF n

-----------------------------------------------------------------------------
(* Trades: the fills, one after the other.                                 *)

\* What cash and the trades and lots differ by.
Gap(t) == t.cash - PnlOf(t.closed) + CostOf(t.lots)

\* Where no sell ran short, they differ by no more than d halves of an amount, and
\* the lots are the position.
InBalance(t, d) == ~t.short => 2 * Gap(t) \in -d..d /\ t.held = SharesOf(t.lots)

\* A fill whose commission the shares do not bear to the last amount opens the gap
\* by that, whatever the price.
LEMMA GapArithmetic ==
  ASSUME NEW d \in Nat, NEW r \in Nat, NEW gap \in Int, NEW x \in Int,
         2 * gap \in -d..d, 2 * x \in -r..r
  PROVE  2 * (gap - x) \in -(d + r)..(d + r)
OBVIOUS

\* The gap after a buy: price, commission, shares and commission per share.
LEMMA BuyArithmetic ==
  ASSUME NEW p \in Int, NEW c \in Int, NEW n \in Int, NEW q \in Int,
         NEW cash \in Int, NEW pnl \in Int, NEW cost \in Int
  PROVE  (cash - (p * n + c)) - pnl + (cost + n * (p + q)) = (cash - pnl + cost) - (c - q * n)
<1>1. n * (p + q) = p * n + q * n /\ p * n \in Int /\ q * n \in Int
  OBVIOUS
<1> QED
  BY <1>1

\* The gap after a sell, of lots worth old before and new after it.
LEMMA SellArithmetic ==
  ASSUME NEW p \in Int, NEW c \in Int, NEW n \in Int, NEW q \in Int,
         NEW cash \in Int, NEW pnl \in Int, NEW old \in Int, NEW new \in Int
  PROVE  (cash + (p * n - c)) - (pnl + (p - q) * n - (old - new)) + new
           = (cash - pnl + old) - (c - q * n)
<1>1. (p - q) * n = p * n - q * n /\ p * n \in Int /\ q * n \in Int
  OBVIOUS
<1> QED
  BY <1>1

\* A buy leaves the books in balance.
LEMMA BuyBalances ==
  ASSUME NEW t \in Books, NEW f \in FillRecords, NEW d \in Nat
  PROVE  Bought(t, f) \in Books /\ (InBalance(t, d) => InBalance(Bought(t, f), d + Rounding(f)))
<1> DEFINE u == Bought(t, f)
           q == PerShare(f)
           lot == [shares |-> f.shares, cost |-> f.price + q, day |-> f.day]
<1>1. /\ t.cash \in Int /\ t.held \in Int /\ t.lots \in Seq(Lots)
      /\ t.closed \in Seq(ClosedTrades) /\ t.short \in BOOLEAN
      /\ f.shares \in Nat /\ f.price \in Int /\ f.commission \in Int /\ f.day \in Nat
      /\ q \in Int /\ Rounding(f) \in Nat
  BY PerShareNear DEF Books, FillRecords
<1> HIDE DEF q
<1>2. lot \in Lots /\ lot.shares = f.shares /\ lot.cost = f.price + q
  BY <1>1 DEF Lots
<1>3. /\ u.cash = t.cash - (f.price * f.shares + f.commission)
      /\ u.held = t.held + f.shares
      /\ u.lots = Append(t.lots, lot)
      /\ u.closed = t.closed /\ u.short = t.short
      /\ u = [t EXCEPT !.cash = u.cash, !.held = u.held, !.lots = u.lots]
  <2>1. u = [t EXCEPT !.cash = t.cash - (f.price * f.shares + f.commission),
                      !.held = t.held + f.shares,
                      !.lots = Append(t.lots, lot)]
    BY DEF Bought, q
  <2>2. DOMAIN t = {"cash", "held", "lots", "closed", "short"}
    BY DEF Books
  <2> HIDE DEF u, lot
  <2> QED
    BY <2>1, <2>2
<1> HIDE DEF lot
<1>4. u.cash \in Int /\ u.held \in Int /\ u.lots \in Seq(Lots)
  <2>1. t.cash - (f.price * f.shares + f.commission) \in Int /\ t.held + f.shares \in Int
    BY <1>1
  <2>2. Append(t.lots, lot) \in Seq(Lots)
    BY <1>1, <1>2
  <2> HIDE DEF u
  <2> QED
    BY <1>3, <2>1, <2>2
<1> DEFINE cash == u.cash
           held == u.held
           lots == u.lots
<1>5. u \in Books
  <2>1. u = [t EXCEPT !.cash = cash, !.held = held, !.lots = lots]
    BY <1>3
  <2>2. cash \in Int /\ held \in Int /\ lots \in Seq(Lots)
    BY <1>4
  <2> HIDE DEF u, cash, held, lots
  <2> QED
    BY <2>1, <2>2 DEF Books
<1> HIDE DEF u
<1>6. /\ CostOf(t.lots) \in Int /\ SharesOf(t.lots) \in Int /\ PnlOf(t.closed) \in Int
      /\ CostOf(u.lots) = CostOf(t.lots) + f.shares * (f.price + q)
      /\ SharesOf(u.lots) = SharesOf(t.lots) + f.shares
  <2>1. PnlOf(t.closed) \in Int
    BY <1>1, PnlTyped
  <2>2. /\ CostOf(t.lots) \in Int /\ SharesOf(t.lots) \in Int
        /\ CostOf(u.lots) = CostOf(t.lots) + lot.shares * lot.cost
        /\ SharesOf(u.lots) = SharesOf(t.lots) + lot.shares
    BY <1>1, <1>2, <1>3, LotsAppend
  <2> QED
    BY <1>2, <2>1, <2>2
<1>7. Gap(u) = Gap(t) - (f.commission - q * f.shares)
  <2> DEFINE p == f.price
             c == f.commission
             n == f.shares
             had == t.cash
             pnl == PnlOf(t.closed)
             cost == CostOf(t.lots)
  <2>1. p \in Int /\ c \in Int /\ n \in Int /\ q \in Int /\ had \in Int /\ pnl \in Int /\ cost \in Int
    BY <1>1, <1>6
  <2>2. u.cash = had - (p * n + c) /\ PnlOf(u.closed) = pnl /\ CostOf(u.lots) = cost + n * (p + q)
    BY <1>3, <1>6
  <2>3. Gap(t) = had - pnl + cost /\ Gap(u) = u.cash - PnlOf(u.closed) + CostOf(u.lots)
    BY DEF Gap
  <2> HIDE DEF p, c, n, had, pnl, cost
  <2>4. (had - (p * n + c)) - pnl + (cost + n * (p + q)) = (had - pnl + cost) - (c - q * n)
    BY <2>1, BuyArithmetic
  <2>5. Gap(u) = Gap(t) - (c - q * n)
    BY <2>2, <2>3, <2>4
  <2> QED
    BY <2>5 DEF c, n
<1>8. ASSUME InBalance(t, d), ~u.short
      PROVE  2 * Gap(u) \in -(d + Rounding(f))..(d + Rounding(f)) /\ u.held = SharesOf(u.lots)
  <2>1. 2 * Gap(t) \in -d..d /\ t.held = SharesOf(t.lots)
    BY <1>3, <1>8 DEF InBalance
  <2>2. 2 * (f.commission - q * f.shares) \in -Rounding(f)..Rounding(f)
    BY PerShareNear DEF q
  <2>3. Gap(t) \in Int /\ f.commission - q * f.shares \in Int
    <3>1. t.cash - PnlOf(t.closed) + CostOf(t.lots) \in Int
      <4> DEFINE had == t.cash
                 pnl == PnlOf(t.closed)
                 cost == CostOf(t.lots)
      <4>1. had \in Int /\ pnl \in Int /\ cost \in Int
        BY <1>1, <1>6
      <4> HIDE DEF had, pnl, cost
      <4>2. had - pnl + cost \in Int
        BY <4>1
      <4> QED
        BY <4>2 DEF had, pnl, cost
    <3>2. q * f.shares \in Int
      BY <1>1
    <3> QED
      BY <1>1, <3>1, <3>2 DEF Gap
  <2>4. 2 * Gap(u) \in -(d + Rounding(f))..(d + Rounding(f))
    BY <1>1, <1>7, <2>1, <2>2, <2>3, GapArithmetic
  <2> QED
    BY <1>3, <1>6, <2>1, <2>4
<1> QED
  BY <1>5, <1>8 DEF InBalance, u

\* A sell that does not run short leaves the books in balance.
LEMMA SellBalances ==
  ASSUME NEW t \in Books, NEW f \in FillRecords, NEW d \in Nat
  PROVE  Sold(t, f) \in Books /\ (InBalance(t, d) => InBalance(Sold(t, f), d + Rounding(f)))
<1> DEFINE u == Sold(t, f)
           m == MatchedWith(t, f)
           q == PerShare(f)
           got == f.price * f.shares - f.commission
           short == t.short \/ t.lots = <<>> \/ m.need > 0
<1>1. /\ t.cash \in Int /\ t.held \in Int /\ t.lots \in Seq(Lots)
      /\ t.closed \in Seq(ClosedTrades) /\ t.short \in BOOLEAN
      /\ f.shares \in Nat /\ f.price \in Int /\ f.commission \in Int
      /\ q \in Int /\ Rounding(f) \in Nat
  BY PerShareNear DEF Books, FillRecords
<1>2. u = [cash |-> t.cash + got, held |-> t.held - f.shares, lots |-> m.lots,
           closed |-> m.closed, short |-> short]
  BY DEF Sold, MatchedWith, StartOf
<1>3. /\ m \in Matches
      /\ SharesOf(m.lots) = SharesOf(t.lots) - (f.shares - m.need)
      /\ PnlOf(m.closed) = PnlOf(t.closed) + (f.price - q) * (f.shares - m.need)
                            - (CostOf(t.lots) - CostOf(m.lots))
  BY MatchBalances
<1> HIDE DEF m, q
<1>4. m.need \in Nat /\ m.lots \in Seq(Lots) /\ m.closed \in Seq(ClosedTrades) /\ got \in Int
  BY <1>1, <1>3 DEF Matches
<1>5. /\ u.cash = t.cash + got /\ u.held = t.held - f.shares /\ u.lots = m.lots
      /\ u.closed = m.closed /\ u.short = short
  BY <1>2
<1>6. u \in Books
  <2>1. t.cash + got \in Int /\ t.held - f.shares \in Int /\ short \in BOOLEAN
    BY <1>1, <1>4
  <2> HIDE DEF got, short
  <2> QED
    BY <1>2, <1>4, <2>1 DEF Books
<1> HIDE DEF u
<1>7. ASSUME InBalance(t, d), ~u.short
      PROVE  2 * Gap(u) \in -(d + Rounding(f))..(d + Rounding(f)) /\ u.held = SharesOf(u.lots)
  <2>1. ~t.short /\ m.need = 0
    <3>1. ~short
      BY <1>5, <1>7
    <3> QED
      BY <1>4, <3>1
  <2>2. 2 * Gap(t) \in -d..d /\ t.held = SharesOf(t.lots)
    BY <1>7, <2>1 DEF InBalance
  <2>3. f.shares - m.need = f.shares
    BY <1>1, <2>1
  <2>4. PnlOf(t.closed) \in Int /\ CostOf(t.lots) \in Int /\ SharesOf(t.lots) \in Int
        /\ CostOf(m.lots) \in Int
    <3>1. PnlOf(t.closed) \in Int
      BY <1>1, PnlTyped
    <3>2. CostOf(t.lots) \in Int /\ SharesOf(t.lots) \in Int
      BY <1>1, LotsTyped
    <3>3. CostOf(m.lots) \in Int
      BY <1>4, LotsTyped
    <3> QED
      BY <3>1, <3>2, <3>3
  <2>5. u.held = SharesOf(u.lots)
    BY <1>3, <1>5, <2>2, <2>3
  <2>6. PnlOf(m.closed) = PnlOf(t.closed) + (f.price - q) * f.shares - (CostOf(t.lots) - CostOf(m.lots))
    BY <1>3, <2>3
  <2>7. Gap(u) = Gap(t) - (f.commission - q * f.shares)
    <3> DEFINE p == f.price
               c == f.commission
               n == f.shares
               had == t.cash
               pnl == PnlOf(t.closed)
               old == CostOf(t.lots)
               new == CostOf(m.lots)
    <3>1. /\ p \in Int /\ c \in Int /\ n \in Int /\ q \in Int
          /\ had \in Int /\ pnl \in Int /\ old \in Int /\ new \in Int
      BY <1>1, <2>4
    <3>2. u.cash = had + (p * n - c) /\ PnlOf(u.closed) = pnl + (p - q) * n - (old - new) /\ CostOf(u.lots) = new
      BY <1>5, <2>6
    <3>3. Gap(t) = had - pnl + old /\ Gap(u) = u.cash - PnlOf(u.closed) + CostOf(u.lots)
      BY DEF Gap
    <3> HIDE DEF p, c, n, had, pnl, old, new
    <3>4. (had + (p * n - c)) - (pnl + (p - q) * n - (old - new)) + new = (had - pnl + old) - (c - q * n)
      BY <3>1, SellArithmetic
    <3>5. Gap(u) = Gap(t) - (c - q * n)
      BY <3>2, <3>3, <3>4
    <3> QED
      BY <3>5 DEF c, n
  <2>8. 2 * (f.commission - q * f.shares) \in -Rounding(f)..Rounding(f)
    BY PerShareNear DEF q
  <2>9. Gap(t) \in Int /\ f.commission - q * f.shares \in Int
    <3>1. t.cash - PnlOf(t.closed) + CostOf(t.lots) \in Int
      <4> DEFINE had == t.cash
                 pnl == PnlOf(t.closed)
                 cost == CostOf(t.lots)
      <4>1. had \in Int /\ pnl \in Int /\ cost \in Int
        BY <1>1, <2>4
      <4> HIDE DEF had, pnl, cost
      <4>2. had - pnl + cost \in Int
        BY <4>1
      <4> QED
        BY <4>2 DEF had, pnl, cost
    <3>2. q * f.shares \in Int
      BY <1>1
    <3> QED
      BY <1>1, <3>1, <3>2 DEF Gap
  <2>10. 2 * Gap(u) \in -(d + Rounding(f))..(d + Rounding(f))
    BY <1>1, <2>2, <2>7, <2>8, <2>9, GapArithmetic
  <2> QED
    BY <2>5, <2>10
<1> QED
  BY <1>6, <1>7 DEF InBalance, u

Entered(t, f) == IF f.side = "buy" THEN Bought(t, f) ELSE Sold(t, f)

\* So does every fill.
LEMMA FillBalances ==
  ASSUME NEW t \in Books, NEW f \in FillRecords, NEW d \in Nat
  PROVE  Entered(t, f) \in Books /\ (InBalance(t, d) => InBalance(Entered(t, f), d + Rounding(f)))
BY BuyBalances, SellBalances DEF Entered

\* The books, fill by fill.
LEMMA TradesWalk ==
  ASSUME NEW s \in Seq(FillRecords)
  PROVE  \E h \in [0..Len(s) -> Books] :
           /\ h[0] = NoTrades
           /\ \A k \in 1..Len(s) : h[k] = Entered(h[k - 1], s[k])
           /\ Trades(s) = h[Len(s)]
<1> DEFINE n == Len(s)
           b == NoTrades
           F == [p \in (1..n) \X Books |-> Entered(p[2], s[p[1]])]
           Equation(g) == g = [U \in SUBSET DOMAIN s |->
                                 IF U = {} THEN b ELSE Entered(g[U \ {Max(U)}], s[Max(U)])]
           iter == CHOOSE g : Equation(g)
<1>1. n \in Nat /\ DOMAIN s = 1..n
  OBVIOUS
<1>2. b \in Books
  BY DEF NoTrades, Books
<1>3. Trades(s) = iter[1..n]
  BY <1>1 DEF Trades, Entered, FoldLeft, MapThenFoldSet
<1> HIDE DEF b, n
<1>4. F \in [(1..n) \X Books -> Books]
  <2>1. ASSUME NEW k \in 1..n, NEW t \in Books PROVE Entered(t, s[k]) \in Books
    <3>1. s[k] \in FillRecords /\ 0 \in Nat
      BY <1>1
    <3> QED
      BY <3>1, FillBalances
  <2> QED
    BY <2>1
<1>5. Equation(iter)
  <2>1. PICK g \in [SUBSET (1..n) -> Books] : IsFold(g, n, b, F)
    <3> HIDE DEF F
    <3> QED
      BY <1>1, <1>2, <1>4, FoldsExist
  <2>2. Equation(g)
    <3> SUFFICES ASSUME NEW U \in SUBSET (1..n), U # {}
                 PROVE  g[U] = Entered(g[U \ {Max(U)}], s[Max(U)])
      BY <1>1, <2>1 DEF IsFold
    <3>1. Max(U) \in 1..n /\ U \ {Max(U)} \in SUBSET (1..n)
      BY <1>1, MaxIn
    <3> QED
      BY <2>1, <3>1 DEF IsFold
  <2> HIDE DEF Equation
  <2> QED
    BY <2>2
<1>6. \A U \in SUBSET (1..n) :
        iter[U] = IF U = {} THEN b ELSE Entered(iter[U \ {Max(U)}], s[Max(U)])
  <2> HIDE DEF iter
  <2> QED
    BY <1>1, <1>5
<1> HIDE DEF iter
<1>7. Folds(iter, n, Books, b, F)
  BY <1>1, <1>2, <1>4, <1>6, MaxIn DEF Folds
<1>8. PICK h : IsWalk(h, n, Books, b, F) /\ iter[1..n] = h[n]
  BY <1>7, FoldIsWalk
<1>9. ASSUME NEW k \in 1..n PROVE h[k] = Entered(h[k - 1], s[k])
  <2>1. k - 1 \in 0..n
    BY <1>1
  <2>2. h[k] = F[<<k, h[k - 1]>>]
    <3> HIDE DEF F
    <3> QED
      BY <1>8 DEF IsWalk
  <2> QED
    BY <1>8, <2>1, <2>2 DEF IsWalk
<1> QED
  BY <1>3, <1>8, <1>9 DEF IsWalk, n, b

\* What the rounding of the commissions comes to.
Allowed(s) == Sum([i \in 1..Len(s) |-> Rounding(s[i])])

\* Whatever the fills, the books they leave are typed and in balance.
LEMMA TradesBalance ==
  ASSUME NEW s \in Seq(FillRecords)
  PROVE  Trades(s) \in Books /\ InBalance(Trades(s), Allowed(s))
<1> DEFINE n == Len(s)
           each == [i \in 1..n |-> Rounding(s[i])]
<1>1. n \in Nat /\ \A k \in 1..n : s[k] \in FillRecords /\ Rounding(s[k]) \in Nat
  BY PerShareNear
<1>2. PICK h \in [0..n -> Books] :
        /\ h[0] = NoTrades
        /\ \A k \in 1..n : h[k] = Entered(h[k - 1], s[k])
        /\ Trades(s) = h[n]
  BY TradesWalk
<1>3. each \in Seq(Int) /\ Len(each) = n /\ \A k \in 1..n : each[k] = Rounding(s[k])
  BY <1>1
<1>4. PICK a \in [0..n -> Int] :
        /\ a[0] = 0 /\ Sum(each) = a[n]
        /\ \A k \in 1..n : a[k] = a[k - 1] + Rounding(s[k])
  <2> HIDE DEF each, n
  <2>1. PICK a \in [0..Len(each) -> Int] :
          /\ a[0] = 0 /\ \A k \in 1..Len(each) : a[k] = a[k - 1] + each[k]
          /\ Sum(each) = a[Len(each)]
    BY <1>3, SumWalk
  <2> QED
    BY <1>3, <2>1
<1> DEFINE P == {k \in 0..n : a[k] \in Nat /\ InBalance(h[k], a[k])}
<1>5. 0 \in P
  <2>1. InBalance(NoTrades, 0)
    <3>1. Gap(NoTrades) = 0
      BY SumsOfNone DEF Gap, NoTrades
    <3> QED
      BY <3>1, SumsOfNone DEF InBalance, NoTrades
  <2> QED
    BY <1>1, <1>2, <1>4, <2>1
<1>6. ASSUME NEW k \in 1..n, k - 1 \in P PROVE k \in P
  <2>1. /\ k - 1 \in 0..n /\ k \in 0..n /\ h[k - 1] \in Books /\ s[k] \in FillRecords
        /\ a[k - 1] \in Nat /\ InBalance(h[k - 1], a[k - 1])
        /\ h[k] = Entered(h[k - 1], s[k]) /\ a[k] = a[k - 1] + Rounding(s[k])
    <3>1. k - 1 \in 0..n /\ k \in 0..n
      BY <1>1
    <3>2. a[k - 1] \in Nat /\ InBalance(h[k - 1], a[k - 1])
      BY <1>6
    <3>3. h[k - 1] \in Books /\ h[k] = Entered(h[k - 1], s[k])
      BY <1>2, <3>1
    <3> QED
      BY <1>1, <1>4, <3>1, <3>2, <3>3
  <2>2. InBalance(h[k], a[k])
    BY <2>1, FillBalances
  <2>3. a[k] \in Nat
    BY <1>1, <2>1
  <2> QED
    BY <2>1, <2>2, <2>3
<1>7. n \in P
  <2> HIDE DEF P, n
  <2>1. \A k \in 0..n : k \in P
    BY <1>1, <1>5, <1>6, CountUp
  <2> QED
    BY <1>1, <2>1
<1> QED
  BY <1>1, <1>2, <1>4, <1>7 DEF Allowed

-----------------------------------------------------------------------------
(* Reports: the rows of a regime, day by day.                              *)

DayRows == [kind: Kinds, day: 1..Days]

\* What a day leaves is rows of that day.
LEMMA TraceTyped ==
  ASSUME NEW kind \in Kinds, NEW d \in 1..Days
  PROVE  Trace(kind, d) \in Seq(DayRows)
<1>1. [kind |-> kind, day |-> d] \in DayRows
  BY DEF DayRows
<1> QED
  BY <1>1 DEF Trace

\* How a day of a regime ends.
Ending(r, lost, d) == IF d \in lost THEN "skipped" ELSE Recorded[r][d]

\* The fixtures let every day end in one of the kinds.
LEMMA RecordedKind ==
  ASSUME NEW r \in Regimes, NEW d \in 1..Days, NEW lost
  PROVE  Recorded[r][d] \in Kinds /\ Ending(r, lost, d) \in Kinds
BY RecordedAssumption DEF Ending, Kinds

\* h has what is left of a regime after each of its days.
Stages(h, r, lost) ==
  /\ h \in [0..Days -> Seq(DayRows)]
  /\ h[0] = <<>>
  /\ \A k \in 1..Days : h[k] = h[k - 1] \o Trace(Ending(r, lost, k), k)
  /\ Expected(r, lost) = h[Days]

Upto(r, lost) == CHOOSE h : Stages(h, r, lost)

\* What is left of a regime, day by day.
LEMMA ExpectedStages ==
  ASSUME NEW r \in Regimes, NEW lost
  PROVE  Stages(Upto(r, lost), r, lost)
<1> DEFINE s == [d \in 1..Days |-> d]
           T == Seq(DayRows)
           n == Days
           After(rows, d) == rows \o Trace(Ending(r, lost, d), d)
           F == [p \in (1..n) \X T |-> After(p[2], p[1])]
           Equation(g) == g = [U \in SUBSET DOMAIN s |->
                                 IF U = {} THEN <<>> ELSE After(g[U \ {Max(U)}], s[Max(U)])]
           iter == CHOOSE g : Equation(g)
<1>1. n \in Nat /\ DOMAIN s = 1..n /\ <<>> \in T
  BY DaysAssumption
<1>2. Expected(r, lost) = iter[1..n]
  <2>1. DOMAIN s = 1..n
    OBVIOUS
  <2> QED
    BY <2>1 DEF Expected, Ending, FoldLeft, MapThenFoldSet
<1>3. \A k \in 1..n : s[k] = k
  OBVIOUS
<1>4. F \in [(1..n) \X T -> T]
  <2>1. ASSUME NEW k \in 1..n, NEW rows \in T PROVE After(rows, k) \in T
    <3>1. Trace(Ending(r, lost, k), k) \in T
      BY RecordedKind, TraceTyped
    <3> QED
      BY <3>1
  <2> HIDE DEF After, T
  <2> QED
    BY <2>1
<1> HIDE DEF n, T, s, After
<1>5. Equation(iter)
  <2>1. PICK g \in [SUBSET (1..n) -> T] : IsFold(g, n, <<>>, F)
    <3> HIDE DEF F
    <3> QED
      BY <1>1, <1>4, FoldsExist
  <2>2. Equation(g)
    <3> SUFFICES ASSUME NEW U \in SUBSET (1..n), U # {}
                 PROVE  g[U] = After(g[U \ {Max(U)}], s[Max(U)])
      BY <1>1, <2>1 DEF IsFold
    <3>1. Max(U) \in 1..n /\ U \ {Max(U)} \in SUBSET (1..n)
      BY <1>1, MaxIn
    <3> QED
      BY <1>3, <2>1, <3>1 DEF IsFold
  <2> HIDE DEF Equation
  <2> QED
    BY <2>2
<1>6. \A U \in SUBSET (1..n) :
        iter[U] = IF U = {} THEN <<>> ELSE After(iter[U \ {Max(U)}], s[Max(U)])
  <2> HIDE DEF iter
  <2> QED
    BY <1>1, <1>5
<1> HIDE DEF iter
<1>7. Folds(iter, n, T, <<>>, F)
  BY <1>1, <1>3, <1>4, <1>6, MaxIn DEF Folds
<1>8. PICK h : IsWalk(h, n, T, <<>>, F) /\ iter[1..n] = h[n]
  BY <1>7, FoldIsWalk
<1>9. ASSUME NEW k \in 1..n PROVE h[k] = After(h[k - 1], k)
  <2>1. k - 1 \in 0..n
    BY <1>1
  <2>2. h[k] = F[<<k, h[k - 1]>>]
    <3> HIDE DEF F
    <3> QED
      BY <1>8 DEF IsWalk
  <2> QED
    BY <1>8, <2>1, <2>2 DEF IsWalk
<1>10. Stages(h, r, lost)
  BY <1>2, <1>8, <1>9 DEF IsWalk, Stages, n, T, After
<1> QED
  BY <1>10 DEF Upto

\* Days lost later leave what came before as it was.
LEMMA LostLater ==
  ASSUME NEW r \in Regimes, NEW lost, NEW d \in 1..Days
  PROVE  Upto(r, lost \cup {d})[d - 1] = Upto(r, lost)[d - 1]
<1> DEFINE h == Upto(r, lost \cup {d})
           g == Upto(r, lost)
<1>1. Stages(h, r, lost \cup {d}) /\ Stages(g, r, lost)
  BY ExpectedStages
<1> HIDE DEF h, g
<1>2. d \in Nat /\ d - 1 \in Nat /\ d - 1 \in 0..d - 1 /\ Days \in Nat
  BY DaysAssumption
<1>3. ASSUME NEW k \in 1..d - 1
      PROVE  Ending(r, lost \cup {d}, k) = Ending(r, lost, k) /\ k \in 1..Days
  BY <1>2 DEF Ending
<1>4. SameSteps(h, g, d - 1)
  <2>1. h[0] = g[0]
    BY <1>1 DEF Stages
  <2>2. ASSUME NEW k \in 1..d - 1, h[k - 1] = g[k - 1] PROVE h[k] = g[k]
    BY <1>1, <1>3, <2>2 DEF Stages
  <2> QED
    BY <1>2, <2>1, <2>2 DEF SameSteps
<1>5. \A k \in 0..d - 1 : h[k] = g[k]
  BY <1>4, SameWalk
<1> QED
  BY <1>2, <1>5 DEF h, g

-----------------------------------------------------------------------------
(* The summary: ratios added up.                                           *)

\* A verdict of AllOf: "pass" is all of some, "fail" less, "info" nothing to judge.
Verdicts ==
  {r \in [num: Nat, den: Nat, status: {"info", "pass", "fail"}] :
     /\ r.num <= r.den
     /\ r.status = "pass" => r.num = r.den
     /\ r.status = "fail" => r.num < r.den
     /\ r.status = "info" => r.den = 0}

\* AllOf gives a verdict.
LEMMA AllOfVerdict ==
  ASSUME NEW num \in Nat, NEW den \in Nat, num <= den
  PROVE  AllOf(num, den) \in Verdicts
BY DEF AllOf, Ratio, Verdicts

\* Numerators added up, one after the other.
LEMMA NumWalk ==
  ASSUME NEW s \in Seq(Verdicts)
  PROVE  \E h \in [0..Len(s) -> Int] :
           /\ h[0] = 0
           /\ \A k \in 1..Len(s) : h[k] = h[k - 1] + s[k].num
           /\ FoldLeft(LAMBDA n, r : n + r.num, 0, s) = h[Len(s)]
<1> DEFINE m == Len(s)
           F == [p \in (1..m) \X Int |-> p[2] + s[p[1]].num]
           Equation(g) == g = [U \in SUBSET DOMAIN s |->
                                 IF U = {} THEN 0 ELSE g[U \ {Max(U)}] + s[Max(U)].num]
           iter == CHOOSE g : Equation(g)
<1>1. m \in Nat /\ DOMAIN s = 1..m /\ 0 \in Int /\ \A k \in 1..m : s[k].num \in Int
  BY DEF Verdicts
<1>2. FoldLeft(LAMBDA n, r : n + r.num, 0, s) = iter[1..m]
  BY <1>1 DEF FoldLeft, MapThenFoldSet
<1> HIDE DEF m
<1>3. F \in [(1..m) \X Int -> Int]
  BY <1>1
<1>4. Equation(iter)
  <2>1. PICK g \in [SUBSET (1..m) -> Int] : IsFold(g, m, 0, F)
    <3> HIDE DEF F
    <3> QED
      BY <1>1, <1>3, FoldsExist
  <2>2. Equation(g)
    <3> SUFFICES ASSUME NEW U \in SUBSET (1..m), U # {}
                 PROVE  g[U] = g[U \ {Max(U)}] + s[Max(U)].num
      BY <1>1, <2>1 DEF IsFold
    <3>1. Max(U) \in 1..m /\ U \ {Max(U)} \in SUBSET (1..m)
      BY <1>1, MaxIn
    <3> QED
      BY <2>1, <3>1 DEF IsFold
  <2> HIDE DEF Equation
  <2> QED
    BY <2>2
<1>5. \A U \in SUBSET (1..m) :
        iter[U] = IF U = {} THEN 0 ELSE iter[U \ {Max(U)}] + s[Max(U)].num
  <2> HIDE DEF iter
  <2> QED
    BY <1>1, <1>4
<1> HIDE DEF iter
<1>6. Folds(iter, m, Int, 0, F)
  BY <1>1, <1>3, <1>5, MaxIn DEF Folds
<1>7. PICK h : IsWalk(h, m, Int, 0, F) /\ iter[1..m] = h[m]
  BY <1>6, FoldIsWalk
<1>8. ASSUME NEW k \in 1..m PROVE h[k] = h[k - 1] + s[k].num
  <2>1. k - 1 \in 0..m
    BY <1>1
  <2>2. h[k] = F[<<k, h[k - 1]>>]
    <3> HIDE DEF F
    <3> QED
      BY <1>7 DEF IsWalk
  <2> QED
    BY <1>7, <2>1, <2>2 DEF IsWalk
<1> QED
  BY <1>2, <1>7, <1>8 DEF IsWalk, m

\* Denominators added up, one after the other.
LEMMA DenWalk ==
  ASSUME NEW s \in Seq(Verdicts)
  PROVE  \E h \in [0..Len(s) -> Int] :
           /\ h[0] = 0
           /\ \A k \in 1..Len(s) : h[k] = h[k - 1] + s[k].den
           /\ FoldLeft(LAMBDA n, r : n + r.den, 0, s) = h[Len(s)]
<1> DEFINE m == Len(s)
           F == [p \in (1..m) \X Int |-> p[2] + s[p[1]].den]
           Equation(g) == g = [U \in SUBSET DOMAIN s |->
                                 IF U = {} THEN 0 ELSE g[U \ {Max(U)}] + s[Max(U)].den]
           iter == CHOOSE g : Equation(g)
<1>1. m \in Nat /\ DOMAIN s = 1..m /\ 0 \in Int /\ \A k \in 1..m : s[k].den \in Int
  BY DEF Verdicts
<1>2. FoldLeft(LAMBDA n, r : n + r.den, 0, s) = iter[1..m]
  BY <1>1 DEF FoldLeft, MapThenFoldSet
<1> HIDE DEF m
<1>3. F \in [(1..m) \X Int -> Int]
  BY <1>1
<1>4. Equation(iter)
  <2>1. PICK g \in [SUBSET (1..m) -> Int] : IsFold(g, m, 0, F)
    <3> HIDE DEF F
    <3> QED
      BY <1>1, <1>3, FoldsExist
  <2>2. Equation(g)
    <3> SUFFICES ASSUME NEW U \in SUBSET (1..m), U # {}
                 PROVE  g[U] = g[U \ {Max(U)}] + s[Max(U)].den
      BY <1>1, <2>1 DEF IsFold
    <3>1. Max(U) \in 1..m /\ U \ {Max(U)} \in SUBSET (1..m)
      BY <1>1, MaxIn
    <3> QED
      BY <2>1, <3>1 DEF IsFold
  <2> HIDE DEF Equation
  <2> QED
    BY <2>2
<1>5. \A U \in SUBSET (1..m) :
        iter[U] = IF U = {} THEN 0 ELSE iter[U \ {Max(U)}] + s[Max(U)].den
  <2> HIDE DEF iter
  <2> QED
    BY <1>1, <1>4
<1> HIDE DEF iter
<1>6. Folds(iter, m, Int, 0, F)
  BY <1>1, <1>3, <1>5, MaxIn DEF Folds
<1>7. PICK h : IsWalk(h, m, Int, 0, F) /\ iter[1..m] = h[m]
  BY <1>6, FoldIsWalk
<1>8. ASSUME NEW k \in 1..m PROVE h[k] = h[k - 1] + s[k].den
  <2>1. k - 1 \in 0..m
    BY <1>1
  <2>2. h[k] = F[<<k, h[k - 1]>>]
    <3> HIDE DEF F
    <3> QED
      BY <1>7 DEF IsWalk
  <2> QED
    BY <1>7, <2>1, <2>2 DEF IsWalk
<1> QED
  BY <1>2, <1>7, <1>8 DEF IsWalk, m

\* Ratios that are added up: all of all where each was all of its own, less where
\* one was less.
LEMMA RatiosAddUp ==
  ASSUME NEW s \in Seq(Verdicts)
  PROVE  LET all == Aggregate(s)
         IN  /\ all.status = "pass" => all.num = all.den
             /\ all.status = "fail" => all.num < all.den
<1> DEFINE n == Len(s)
           statuses == [i \in 1..n |-> s[i].status]
           num == FoldLeft(LAMBDA x, r : x + r.num, 0, s)
           den == FoldLeft(LAMBDA x, r : x + r.den, 0, s)
<1>1. /\ Aggregate(s).num = num /\ Aggregate(s).den = den
      /\ Aggregate(s).status = Combine(statuses)
  BY DEF Aggregate, Ratio
<1>2. PICK a \in [0..n -> Int] :
        a[0] = 0 /\ (\A k \in 1..n : a[k] = a[k - 1] + s[k].num) /\ num = a[n]
  BY NumWalk
<1>3. PICK b \in [0..n -> Int] :
        b[0] = 0 /\ (\A k \in 1..n : b[k] = b[k - 1] + s[k].den) /\ den = b[n]
  BY DenWalk
<1> HIDE DEF num, den
<1>4. /\ n \in Nat
      /\ \A k \in 1..n :
           /\ s[k].num \in Nat /\ s[k].den \in Nat /\ s[k].num <= s[k].den
           /\ s[k].status \in {"info", "pass", "fail"}
           /\ s[k].status = "pass" => s[k].num = s[k].den
           /\ s[k].status = "fail" => s[k].num < s[k].den
           /\ s[k].status = "info" => s[k].den = 0
  <2>1. \A k \in 1..n : s[k] \in Verdicts
    OBVIOUS
  <2> QED
    BY <2>1 DEF Verdicts
<1>5. ToSet(statuses) = {s[k].status : k \in 1..n}
  BY DEF ToSet
<1> HIDE DEF n, statuses
<1>6. ASSUME Combine(statuses) = "pass" PROVE num = den
  <2>1. "fail" \notin ToSet(statuses)
    BY <1>6 DEF Combine
  <2>2. ASSUME NEW k \in 1..n PROVE s[k].num = s[k].den
    <3>1. s[k].status # "fail"
      BY <1>5, <2>1
    <3>2. s[k].status = "pass" \/ s[k].den = 0
      BY <1>4, <3>1
    <3>3. s[k].num \in Nat /\ s[k].num <= s[k].den /\ (s[k].status = "pass" => s[k].num = s[k].den)
      BY <1>4
    <3> QED
      BY <3>2, <3>3
  <2>3. SameSteps(a, b, n)
    BY <1>2, <1>3, <1>4, <2>2 DEF SameSteps
  <2>4. \A k \in 0..n : a[k] = b[k]
    BY <2>3, SameWalk
  <2> QED
    BY <1>2, <1>3, <1>4, <2>4
<1>7. ASSUME Combine(statuses) = "fail" PROVE num < den
  <2>1. "fail" \in ToSet(statuses)
    BY <1>7 DEF Combine
  <2>2. PICK bad \in 1..n : s[bad].num < s[bad].den
    BY <1>4, <1>5, <2>1
  <2> DEFINE P == {k \in 0..n : a[k] <= b[k] /\ (k >= bad => a[k] < b[k])}
  <2>3. 0 \in P
    BY <1>2, <1>3, <1>4
  <2>4. ASSUME NEW k \in 1..n, k - 1 \in P PROVE k \in P
    <3>1. /\ a[k - 1] \in Int /\ b[k - 1] \in Int /\ a[k - 1] <= b[k - 1]
          /\ (k - 1 >= bad => a[k - 1] < b[k - 1])
          /\ a[k] = a[k - 1] + s[k].num /\ b[k] = b[k - 1] + s[k].den
      BY <1>2, <1>3, <1>4, <2>4
    <3>2. s[k].num \in Nat /\ s[k].den \in Nat /\ s[k].num <= s[k].den
          /\ (k = bad => s[k].num < s[k].den)
      BY <1>4, <2>2
    <3>3. k \in Int /\ bad \in Int
      BY <1>4
    <3> DEFINE x == a[k - 1]
               y == b[k - 1]
               v == s[k].num
               w == s[k].den
    <3>4. /\ x \in Int /\ y \in Int /\ x <= y /\ (k - 1 >= bad => x < y)
          /\ v \in Int /\ w \in Int /\ v <= w /\ (k = bad => v < w)
          /\ a[k] = x + v /\ b[k] = y + w
      BY <3>1, <3>2
    <3> HIDE DEF x, y, v, w
    <3>5. a[k] <= b[k] /\ (k >= bad => a[k] < b[k])
      BY <3>3, <3>4
    <3> QED
      BY <1>4, <3>5
  <2>5. n \in P
    <3> HIDE DEF P
    <3>1. \A k \in 0..n : k \in P
      BY <1>4, <2>3, <2>4, CountUp
    <3> QED
      BY <1>4, <3>1
  <2> QED
    BY <1>2, <1>3, <1>4, <2>5
<1> QED
  BY <1>1, <1>6, <1>7

-----------------------------------------------------------------------------
(* The summary: verdicts on decisions.                                     *)

\* The decisions of a report are the rows its kinds of ending leave.
LEMMA DecisionsAreSequence ==
  ASSUME NEW rows \in Seq(DayRows)
  PROVE  Decisions(rows) \in Seq({Row[kind] : kind \in DOMAIN Row})
<1> DEFINE T == Seq({Row[kind] : kind \in DOMAIN Row})
           m == Len(rows)
           After(decided, r) == IF r.kind \in DOMAIN Row THEN Append(decided, Row[r.kind])
                                ELSE decided
           F == [p \in (1..m) \X T |-> After(p[2], rows[p[1]])]
           Equation(g) == g = [U \in SUBSET DOMAIN rows |->
                                 IF U = {} THEN <<>> ELSE After(g[U \ {Max(U)}], rows[Max(U)])]
           iter == CHOOSE g : Equation(g)
<1>1. m \in Nat /\ DOMAIN rows = 1..m /\ <<>> \in T
  OBVIOUS
<1>2. Decisions(rows) = iter[1..m]
  BY <1>1 DEF Decisions, FoldLeft, MapThenFoldSet
<1>3. F \in [(1..m) \X T -> T]
  <2>1. ASSUME NEW decided \in T, NEW r PROVE After(decided, r) \in T
    OBVIOUS
  <2> HIDE DEF After, T
  <2> QED
    BY <2>1
<1> HIDE DEF m, T, After
<1>4. Equation(iter)
  <2>1. PICK g \in [SUBSET (1..m) -> T] : IsFold(g, m, <<>>, F)
    <3> HIDE DEF F
    <3> QED
      BY <1>1, <1>3, FoldsExist
  <2>2. Equation(g)
    <3> SUFFICES ASSUME NEW U \in SUBSET (1..m), U # {}
                 PROVE  g[U] = After(g[U \ {Max(U)}], rows[Max(U)])
      BY <1>1, <2>1 DEF IsFold
    <3>1. Max(U) \in 1..m /\ U \ {Max(U)} \in SUBSET (1..m)
      BY <1>1, MaxIn
    <3> QED
      BY <2>1, <3>1 DEF IsFold
  <2> HIDE DEF Equation
  <2> QED
    BY <2>2
<1>5. \A U \in SUBSET (1..m) :
        iter[U] = IF U = {} THEN <<>> ELSE After(iter[U \ {Max(U)}], rows[Max(U)])
  <2> HIDE DEF iter
  <2> QED
    BY <1>1, <1>4
<1> HIDE DEF iter
<1>6. Folds(iter, m, T, <<>>, F)
  BY <1>1, <1>3, <1>5, MaxIn DEF Folds
<1>7. PICK h : IsWalk(h, m, T, <<>>, F) /\ iter[1..m] = h[m]
  BY <1>6, FoldIsWalk
<1> QED
  BY <1>1, <1>2, <1>7 DEF IsWalk, T

\* Some of n are at most n.
LEMMA SomeOfRange ==
  ASSUME NEW n \in Nat, NEW U \in SUBSET (1..n)
  PROVE  Cardinality(U) \in Nat /\ Cardinality(U) <= n
<1>1. IsFiniteSet(1..n) /\ Cardinality(1..n) = n
  BY FS_Interval
<1>2. IsFiniteSet(U) /\ Cardinality(U) <= Cardinality(1..n)
  BY <1>1, FS_Subset
<1> QED
  BY <1>1, <1>2, FS_CardinalityType

\* Every ratio of a report is a verdict on all of something.
LEMMA MetricIsVerdict ==
  ASSUME NEW rows \in Seq(DayRows), NEW m \in RatioMetrics
  PROVE  Metrics(Decisions(rows), <<>>, <<>>)[m] \in Verdicts
<1> DEFINE d == Decisions(rows)
           all == Metrics(d, <<>>, <<>>)
<1>1. Len(d) \in Nat
  BY DecisionsAreSequence
<1> HIDE DEF d
<1>2. ASSUME m = "discipline" PROVE all[m] \in Verdicts
  <2>1. all[m] = Discipline(d)
    BY <1>2 DEF Metrics
  <2>2. Discipline(d) \in Verdicts
    BY <1>1, SomeOfRange, AllOfVerdict DEF Discipline, CountOf
  <2> QED
    BY <2>1, <2>2
<1>3. ASSUME m = "diversity" PROVE all[m] \in Verdicts
  <2>1. all[m] = Diversity(d)
    BY <1>3 DEF Metrics
  <2>2. Diversity(d) \in Verdicts
    BY <1>1, SomeOfRange, AllOfVerdict DEF Diversity, CountOf
  <2> QED
    BY <2>1, <2>2
<1>4. ASSUME m = "hitl" PROVE all[m] \in Verdicts
  <2>1. all[m] = HitlCorrectness(<<>>)
    BY <1>4 DEF Metrics
  <2>2. Len(<<>>) = 0 /\ 0 \in Nat
    OBVIOUS
  <2>3. HitlCorrectness(<<>>) \in Verdicts
    BY <2>2, SomeOfRange, AllOfVerdict DEF HitlCorrectness, CountOf
  <2> QED
    BY <2>1, <2>3
<1>5. ASSUME m = "redTeam" PROVE all[m] \in Verdicts
  <2>1. all[m] = RedTeam
    BY <1>5 DEF Metrics
  <2>2. RedTeam \in Verdicts
    BY TotalsAssumption, AllOfVerdict DEF RedTeam
  <2> QED
    BY <2>1, <2>2
<1>6. ASSUME m = "coverage" PROVE all[m] \in Verdicts
  <2>1. all[m] = Coverage(d)
    BY <1>6 DEF Metrics
  <2> DEFINE met == {d[i].mode : i \in 1..Len(d)} \cap FailureModes
  <2>2. IsFiniteSet(met) /\ Cardinality(met) <= Cardinality(FailureModes)
    <3>1. met \in SUBSET FailureModes
      OBVIOUS
    <3> QED
      BY <3>1, TotalsAssumption, FS_Subset
  <2>3. Cardinality(met) \in Nat /\ Cardinality(FailureModes) \in Nat
    BY <2>2, TotalsAssumption, FS_CardinalityType
  <2>4. Coverage(d) = AllOf(Cardinality(met), Cardinality(FailureModes))
    BY DEF Coverage
  <2> HIDE DEF met
  <2> QED
    BY <2>1, <2>2, <2>3, <2>4, AllOfVerdict
<1> HIDE DEF all
<1>7. all[m] \in Verdicts
  BY <1>2, <1>3, <1>4, <1>5, <1>6 DEF RatioMetrics
<1> QED
  BY <1>7 DEF all, d

-----------------------------------------------------------------------------
(* The inductive invariant.                                                *)

\* The values the variables take, and that a command at work has a regime left.
Typed ==
  /\ prices \in [Tickers -> SUBSET Regimes]
  /\ skipFlag \in BOOLEAN
  /\ at \in {"idle", "prices", "open", "day", "summary"}
  /\ mode \in {"replay", "record", "caller"}
  /\ left \in Seq(Regimes) /\ ran \in Seq(Regimes) /\ want \in Seq(Tickers)
  /\ day \in 1..Days + 1
  /\ graph \in {"none", "built", "failed"}
  /\ clock \in 1..Days
  /\ db \in [Regimes -> Seq(DayRows)]
  /\ fills \in Seq(FillRecords)
  /\ reports \in [Regimes -> [rows: Seq(DayRows), missed: SUBSET (1..Days), done: BOOLEAN]]
  /\ captured \in SUBSET Regimes
  /\ missed \in SUBSET (1..Days)
  /\ at \in {"prices", "open", "day"} => left # <<>>

\* A ticker whose return is computed has the regime's days in its file.
PricesRead == at = "prices" => \A t \in Tickers : t \in ToSet(want) \/ Regime \in prices[t]

\* What a replaying command has in the regime's database when it comes to a day:
\* what the days before leave, of which those lost are the ones the store refused,
\* or all the regime's days when its graph was not built.
RowsSoFar ==
  at = "day" /\ mode = "replay" =>
    /\ db[Regime] = Upto(Regime, missed)[day - 1]
    /\ graph = "none" => day = 1
    /\ graph = "failed" => missed = 1..Days
    /\ graph # "failed" => missed \subseteq 1..day - 1

DoneReports == {r \in Regimes : reports[r].done}

\* The reports of a command at work are of the regimes it ran, and it has no
\* summary of them yet.
Accounted == at # "idle" => summary = NoSummary /\ DoneReports = ToSet(ran)

IInv ==
  /\ Typed /\ PricesRead /\ RowsSoFar /\ Accounted
  /\ ReportIsItsRegimes /\ SummaryIsOfItsReports /\ CapturedReplays

\* The lists a command works along.
LEMMA ListsTyped ==
  /\ <<Spy>> \o Universe \in Seq(Tickers) /\ ToSet(<<Spy>> \o Universe) = Tickers
  /\ \A list \in Commands : list \in Seq(Regimes) /\ list # <<>>
<1>1. Universe \in Seq(Tickers) /\ \A i \in 1..Len(Universe) : Universe[i] \in ToSet(Universe)
  <2>1. Universe \in Seq(ToSet(Universe)) /\ ToSet(Universe) \subseteq Tickers
    BY ListsAssumption DEF Tickers
  <2> QED
    BY <2>1
<1>2. Spy \in Tickers /\ <<Spy>> \in Seq(Tickers) /\ Len(<<Spy>>) = 1 /\ <<Spy>>[1] = Spy
  BY DEF Tickers
<1> DEFINE all == <<Spy>> \o Universe
<1>3. /\ all \in Seq(Tickers) /\ Len(all) = Len(Universe) + 1 /\ all[1] = Spy
      /\ \A i \in 1..Len(Universe) : all[i + 1] = Universe[i]
  BY <1>1, <1>2
<1>4. ToSet(all) = Tickers
  <2>1. ToSet(all) \subseteq Tickers
    <3> HIDE DEF all
    <3> QED
      BY <1>3 DEF ToSet
  <2>2. Spy \in ToSet(all)
    <3>1. 1 \in DOMAIN all
      BY <1>1, <1>3
    <3> HIDE DEF all
    <3> QED
      BY <1>3, <3>1 DEF ToSet
  <2>3. ASSUME NEW t \in ToSet(Universe) PROVE t \in ToSet(all)
    <3>1. PICK i \in 1..Len(Universe) : t = Universe[i]
      BY <1>1, <2>3 DEF ToSet
    <3>2. i + 1 \in DOMAIN all /\ all[i + 1] = t
      BY <1>1, <1>3, <3>1
    <3> HIDE DEF all
    <3> QED
      BY <3>2 DEF ToSet
  <2> QED
    BY <2>1, <2>2, <2>3 DEF Tickers
<1>5. \A list \in Commands : list \in Seq(Regimes) /\ list # <<>>
  <2>1. AllRegimes \in Seq(Regimes) /\ AllRegimes # <<>>
    BY ListsAssumption
  <2>2. \A r \in Regimes : <<r>> \in Seq(Regimes) /\ <<r>> # <<>>
    OBVIOUS
  <2> QED
    BY <2>1, <2>2 DEF Commands
<1> QED
  BY <1>3, <1>4, <1>5

\* The regime a command is at, and those after it.
LEMMA RegimeTyped ==
  ASSUME Typed, at \in {"prices", "open", "day"}
  PROVE  /\ Regime \in Regimes /\ Len(left) \in Nat \ {0} /\ Tail(left) \in Seq(Regimes)
         /\ Len(left) # 1 => Tail(left) # <<>>
<1>1. left \in Seq(Regimes) /\ left # <<>>
  BY DEF Typed
<1>2. Len(left) \in Nat \ {0} /\ left[1] \in Regimes
  BY <1>1
<1>3. Tail(left) \in Seq(Regimes) /\ Len(Tail(left)) = Len(left) - 1
  BY <1>1
<1>4. Len(left) # 1 => Tail(left) # <<>>
  <2>0. Len(<<>>) = 0
    OBVIOUS
  <2>1. Tail(left) = <<>> => Len(Tail(left)) = 0
    BY <2>0
  <2>2. Len(left) # 1 => Len(Tail(left)) # 0
    BY <1>2, <1>3
  <2> QED
    BY <2>1, <2>2
<1> QED
  BY <1>2, <1>3, <1>4 DEF Regime

\* The first ticker that is wanted, and the rest.
LEMMA FirstWant ==
  ASSUME Typed, want # <<>>
  PROVE  /\ want[1] \in Tickers /\ Tail(want) \in Seq(Tickers)
         /\ ToSet(want) \subseteq {want[1]} \cup ToSet(Tail(want))
<1>1. want \in Seq(Tickers) /\ want # <<>>
  BY DEF Typed
<1>2. want[1] \in Tickers /\ Tail(want) \in Seq(Tickers) /\ Len(Tail(want)) = Len(want) - 1
      /\ \A i \in 1..Len(want) - 1 : Tail(want)[i] = want[i + 1]
  BY <1>1
<1>3. ASSUME NEW i \in 1..Len(want), i # 1 PROVE want[i] \in ToSet(Tail(want))
  <2>1. i - 1 \in 1..Len(want) - 1 /\ Tail(want)[i - 1] = want[i] /\ i - 1 \in DOMAIN Tail(want)
    BY <1>1, <1>2, <1>3
  <2> QED
    BY <2>1 DEF ToSet
<1> QED
  BY <1>1, <1>2, <1>3 DEF ToSet

\* The members of a list that grew.
LEMMA AppendedSet ==
  ASSUME NEW T, NEW s \in Seq(T), NEW x \in T
  PROVE  Append(s, x) \in Seq(T) /\ ToSet(Append(s, x)) = ToSet(s) \cup {x}
<1> DEFINE r == Append(s, x)
<1>1. /\ r \in Seq(T) /\ DOMAIN r = 1..(Len(s) + 1) /\ r[Len(s) + 1] = x /\ Len(s) \in Nat
      /\ DOMAIN s = 1..Len(s) /\ \A i \in 1..Len(s) : r[i] = s[i]
  OBVIOUS
<1> HIDE DEF r
<1>2. 1..(Len(s) + 1) = 1..Len(s) \cup {Len(s) + 1}
  BY <1>1
<1>3. ToSet(r) = {r[i] : i \in 1..Len(s)} \cup {x}
  BY <1>1, <1>2 DEF ToSet
<1> QED
  BY <1>1, <1>3 DEF ToSet, r

\* A failed or killed command leaves what it wrote, typed.
LEMMA AbortTyped ==
  ASSUME Typed, Abort, UNCHANGED <<prices, skipFlag, captured, missed>>
  PROVE  Typed'
<1>1. 1 \in 1..Days /\ 1 \in 1..Days + 1
  BY DaysAssumption
<1> QED
  BY <1>1 DEF Typed, Abort, outVars

\* The database after a day's rows were written.
LEMMA WroteTyped ==
  ASSUME Typed, at = "day", NEW rows \in Seq(DayRows), Wrote(rows)
  PROVE  /\ db' \in [Regimes -> Seq(DayRows)] /\ db'[Regime] = db[Regime] \o rows
         /\ Regime \in Regimes
<1>1. Regime \in Regimes /\ db \in [Regimes -> Seq(DayRows)]
  BY RegimeTyped DEF Typed
<1>2. db' = [db EXCEPT ![Regime] = db[Regime] \o rows]
  BY DEF Wrote
<1>3. db[Regime] \o rows \in Seq(DayRows)
  BY <1>1
<1> QED
  BY <1>1, <1>2, <1>3

\* Every step keeps the types.
LEMMA TypedStep == Typed /\ [Next]_vars => Typed'
<1> SUFFICES ASSUME Typed, [Next]_vars PROVE Typed'
  OBVIOUS
<1> USE DEF Typed
<1>1. ASSUME NEW list \in Commands, NEW m \in {"replay", "record"}, Start(list, m) PROVE Typed'
  <2>1. list \in Seq(Regimes) /\ list # <<>> /\ <<Spy>> \o Universe \in Seq(Tickers)
    BY ListsTyped
  <2>2. db' \in [Regimes -> Seq(DayRows)] /\ fills' \in Seq(FillRecords)
        /\ reports' \in [Regimes -> [rows: Seq(DayRows), missed: SUBSET (1..Days), done: BOOLEAN]]
    BY <1>1 DEF Start, EmptyDirectory, NoReport
  <2>3. ran' \in Seq(Regimes) /\ want' \in Seq(Tickers) /\ left' \in Seq(Regimes) /\ left' # <<>>
    BY <1>1, <2>1 DEF Start
  <2> QED
    BY <1>1, <2>2, <2>3 DEF Start, history
<1>2. ASSUME NEW r \in Regimes, StartCaller(r) PROVE Typed'
  <2>1. db' \in [Regimes -> Seq(DayRows)] /\ fills' \in Seq(FillRecords)
        /\ reports' \in [Regimes -> [rows: Seq(DayRows), missed: SUBSET (1..Days), done: BOOLEAN]]
    BY <1>2 DEF StartCaller, EmptyDirectory, NoReport
  <2>2. ran' \in Seq(Regimes) /\ left' \in Seq(Regimes) /\ left' # <<>>
    BY <1>2 DEF StartCaller
  <2> QED
    BY <1>2, <2>1, <2>2 DEF StartCaller, history
<1>3. CASE ReadPrice
  <2>1. CASE HasPrices(want[1])
    BY <1>3, <2>1, FirstWant DEF ReadPrice, history, outVars
  <2>2. CASE ~HasPrices(want[1])
    BY <1>3, <2>2, AbortTyped DEF ReadPrice, history
  <2> QED
    BY <2>1, <2>2
<1>4. CASE PriceMissing
  BY <1>4, AbortTyped DEF PriceMissing, history
<1>5. CASE RecordPrice
  <2>1. want[1] \in Tickers /\ Regime \in Regimes
    BY <1>5, FirstWant, RegimeTyped DEF RecordPrice
  <2>2. prices' \in [Tickers -> SUBSET Regimes]
    BY <1>5, <2>1 DEF RecordPrice
  <2> QED
    BY <1>5, <2>2 DEF RecordPrice, history, runVars, outVars
<1>6. CASE PricesDone
  <2>1. captured' \in SUBSET Regimes
    BY <1>6, RegimeTyped DEF PricesDone
  <2> QED
    BY <1>6, <2>1 DEF PricesDone, history, runVars, outVars
<1>7. CASE Open
  <2>1. db' \in [Regimes -> Seq(DayRows)] /\ fills' \in Seq(FillRecords)
    <3>1. Regime \in Regimes /\ <<>> \in Seq(DayRows) /\ <<>> \in Seq(FillRecords)
      BY <1>7, RegimeTyped DEF Open
    <3> QED
      BY <1>7, <3>1 DEF Open
  <2>2. 1 \in 1..Days /\ 1 \in 1..Days + 1
    BY DaysAssumption
  <2> QED
    BY <1>7, <2>1, <2>2 DEF Open, history
<1>8. CASE Build
  <2>1. at = "day" /\ day \in 1..Days /\ day + 1 \in 1..Days + 1
    BY <1>8, DaysAssumption DEF Build, InDay
  <2>2. CASE graph' = "built" /\ UNCHANGED <<at, mode, left, ran, want, day, clock, outVars, missed>>
    BY <1>8, <2>1, <2>2 DEF Build, outVars
  <2>3. CASE /\ graph' = "failed" /\ Wrote(Trace("skipped", day)) /\ day' = day + 1 /\ missed' = 1..Days
             /\ UNCHANGED <<at, mode, left, ran, want, clock, fills, reports, summary>>
    <3>1. "skipped" \in Kinds
      BY DEF Kinds
    <3>2. Trace("skipped", day) \in Seq(DayRows)
      BY <2>1, <3>1, TraceTyped
    <3>3. db' \in [Regimes -> Seq(DayRows)]
      BY <2>1, <2>3, <3>2, WroteTyped
    <3> QED
      BY <1>8, <2>1, <2>3, <3>3 DEF Build
  <2>4. CASE Abort /\ UNCHANGED missed
    BY <1>8, <2>4, AbortTyped DEF Build
  <2> QED
    BY <1>8, <2>2, <2>3, <2>4 DEF Build
<1>9. CASE SkipDay
  <2>1. at = "day" /\ day \in 1..Days /\ day + 1 \in 1..Days + 1
    BY <1>9, DaysAssumption DEF SkipDay, InDay
  <2>2. Trace("skipped", day) \in Seq(DayRows)
    <3>1. "skipped" \in Kinds
      BY DEF Kinds
    <3> QED
      BY <2>1, <3>1, TraceTyped
  <2>3. db' \in [Regimes -> Seq(DayRows)]
    BY <1>9, <2>1, <2>2, WroteTyped DEF SkipDay
  <2> QED
    BY <1>9, <2>1, <2>3 DEF SkipDay, history
<1>10. CASE Invoke
  <2>1. at = "day" /\ day \in 1..Days /\ day + 1 \in 1..Days + 1 /\ clock' = day
    BY <1>10, DaysAssumption DEF Invoke, InDay
  <2>2. PICK kind \in Kinds : Wrote(Trace(kind, day))
    BY <1>10, <2>1, RegimeTyped, RecordedKind DEF Invoke
  <2>3. db' \in [Regimes -> Seq(DayRows)]
    <3>1. Trace(kind, day) \in Seq(DayRows)
      BY <2>1, TraceTyped
    <3> QED
      BY <2>1, <2>2, <3>1, WroteTyped
  <2> QED
    BY <1>10, <2>1, <2>3 DEF Invoke, history
<1>11. CASE CallerDay
  <2>1. at = "day" /\ day \in 1..Days /\ day + 1 \in 1..Days + 1
    BY <1>11, DaysAssumption DEF CallerDay
  <2>2. PICK batch \in Batches :
          fills' = fills \o [i \in 1..Len(batch) |-> [batch[i] EXCEPT !.day = day]]
    BY <1>11 DEF CallerDay
  <2>3. batch \in Seq(FillRecords) /\ day \in Nat
    BY <2>1, BatchesAssumption, DaysAssumption
  <2>4. \A f \in FillRecords : [f EXCEPT !.day = day] \in FillRecords
    BY <2>3 DEF FillRecords
  <2>5. [i \in 1..Len(batch) |-> [batch[i] EXCEPT !.day = day]] \in Seq(FillRecords)
    BY <2>3, <2>4
  <2>6. fills' \in Seq(FillRecords)
    <3> DEFINE more == [i \in 1..Len(batch) |-> [batch[i] EXCEPT !.day = day]]
    <3>1. fills \in Seq(FillRecords) /\ more \in Seq(FillRecords) /\ fills' = fills \o more
      BY <2>2, <2>5
    <3> HIDE DEF more
    <3> QED
      BY <3>1
  <2> QED
    BY <1>11, <2>1, <2>6 DEF CallerDay, history
<1>12. CASE Report
  <2>1. CASE mode = "caller"
    BY <1>12, <2>1, AbortTyped DEF Report, history
  <2>2. CASE mode # "caller"
    <3>1. Regime \in Regimes /\ Tail(left) \in Seq(Regimes) /\ (Len(left) # 1 => Tail(left) # <<>>)
      BY <1>12, RegimeTyped DEF Report
    <3>2. reports' \in [Regimes -> [rows: Seq(DayRows), missed: SUBSET (1..Days), done: BOOLEAN]]
      <4>1. [rows |-> db[Regime], missed |-> missed, done |-> TRUE] \in [rows: Seq(DayRows), missed: SUBSET (1..Days), done: BOOLEAN]
        BY <3>1
      <4> QED
        BY <1>12, <2>2, <4>1 DEF Report
    <3>3. ran' \in Seq(Regimes) /\ want' \in Seq(Tickers) /\ left' \in Seq(Regimes)
      <4>1. ran' = Append(ran, Regime) /\ left' = Tail(left) /\ want' \in {<<>>, <<Spy>> \o Universe}
        BY <1>12, <2>2 DEF Report
      <4>2. Append(ran, Regime) \in Seq(Regimes)
        BY <3>1
      <4>3. <<>> \in Seq(Tickers) /\ <<Spy>> \o Universe \in Seq(Tickers)
        BY ListsTyped
      <4> QED
        BY <3>1, <4>1, <4>2, <4>3
    <3>4. at' \in {"summary", "prices"} /\ (at' = "prices" => left' # <<>>)
      BY <1>12, <2>2, <3>1 DEF Report
    <3> QED
      BY <1>12, <2>2, <3>2, <3>3, <3>4 DEF Report, history
  <2> QED
    BY <2>1, <2>2
<1>13. CASE WriteSummary
  <2>1. 1 \in 1..Days /\ 1 \in 1..Days + 1
    BY DaysAssumption
  <2> QED
    BY <1>13, <2>1 DEF WriteSummary, history
<1>14. CASE Killed
  BY <1>14, AbortTyped DEF Killed, history
<1>15. CASE Refused
  <2>1. at = "day" /\ day \in 1..Days /\ day + 1 \in 1..Days + 1 /\ clock' = day
    BY <1>15, DaysAssumption DEF Refused, InDay
  <2>2. "skipped" \in Kinds
    BY DEF Kinds
  <2>3. db' \in [Regimes -> Seq(DayRows)]
    <3>1. Trace("skipped", day) \in Seq(DayRows)
      BY <2>1, <2>2, TraceTyped
    <3> QED
      BY <1>15, <2>1, <3>1, WroteTyped DEF Refused
  <2>4. missed' \in SUBSET (1..Days)
    BY <1>15, <2>1 DEF Refused
  <2> QED
    BY <1>15, <2>1, <2>3, <2>4 DEF Refused
<1>16. CASE UNCHANGED vars
  BY <1>16 DEF vars
<1> QED
  BY <1>1, <1>2, <1>3, <1>4, <1>5, <1>6, <1>7, <1>8, <1>9, <1>10, <1>11, <1>12, <1>13, <1>14,
     <1>15, <1>16 DEF Next, Step

-----------------------------------------------------------------------------
(* Prices.                                                                 *)

\* Every step keeps the prices that were read.
LEMMA PricesStep == Typed /\ PricesRead /\ [Next]_vars => PricesRead'
<1> SUFFICES ASSUME Typed, PricesRead, [Next]_vars, at' = "prices", NEW t \in Tickers
             PROVE  t \in ToSet(want') \/ left'[1] \in prices'[t]
  BY DEF PricesRead, Regime
<1>1. ASSUME NEW list \in Commands, NEW m \in {"replay", "record"}, Start(list, m)
      PROVE  t \in ToSet(want')
  BY <1>1, ListsTyped DEF Start
<1>2. CASE ReadPrice
  <2>1. HasPrices(want[1]) /\ want # <<>> /\ want' = Tail(want) /\ UNCHANGED <<left, prices>>
        /\ at = "prices"
    BY <1>2 DEF ReadPrice, Abort
  <2>2. ToSet(want) \subseteq {want[1]} \cup ToSet(want')
    BY <2>1, FirstWant
  <2>3. t \in ToSet(want) \/ Regime \in prices[t]
    BY <2>1 DEF PricesRead
  <2>4. Regime \in prices[want[1]]
    BY <2>1 DEF HasPrices
  <2> QED
    BY <2>1, <2>2, <2>3, <2>4 DEF Regime
<1>3. CASE RecordPrice
  <2>1. UNCHANGED <<left, want>> /\ (t \in ToSet(want) \/ Regime \in prices[t])
        /\ want[1] \in Tickers /\ prices[want[1]] = {}
        /\ prices' = [prices EXCEPT ![want[1]] = {Regime}]
    BY <1>3, FirstWant DEF RecordPrice, runVars, PricesRead
  <2>2. t # want[1] => prices'[t] = prices[t]
    BY <2>1 DEF Typed
  <2> QED
    BY <2>1, <2>2 DEF Regime
<1>4. CASE Report
  <2>1. want' = <<Spy>> \o Universe \/ at' = "summary"
    BY <1>4 DEF Report, Abort
  <2> QED
    BY <2>1, ListsTyped
<1>5. CASE UNCHANGED <<at, want, left, prices>>
  BY <1>5 DEF PricesRead, Regime
<1>6. CASE at' # "prices"
  BY <1>6
<1>7. ASSUME NEW r \in Regimes, StartCaller(r) PROVE at' # "prices"
  BY <1>7 DEF StartCaller
<1>8. PriceMissing \/ PricesDone \/ Open \/ Build \/ SkipDay \/ Invoke \/ Refused \/ CallerDay
      \/ WriteSummary \/ Killed \/ UNCHANGED vars
        => at' # "prices" \/ UNCHANGED <<at, want, left, prices>>
  BY DEF PriceMissing, PricesDone, Open, Build, SkipDay, Invoke, Refused, CallerDay, WriteSummary, Killed,
         vars, Abort, InDay, runVars
<1> QED
  BY <1>1, <1>2, <1>3, <1>4, <1>5, <1>7, <1>8 DEF Next, Step

\* No step takes a regime's days out of a file.
LEMMA PricesGrow ==
  ASSUME Typed, [Next]_vars
  PROVE  \A t \in Tickers : prices[t] \subseteq prices'[t]
<1>1. CASE RecordPrice
  <2>1. want[1] \in Tickers /\ prices[want[1]] = {} /\ prices' = [prices EXCEPT ![want[1]] = {Regime}]
    BY <1>1, FirstWant DEF RecordPrice
  <2>2. \A t \in Tickers : t # want[1] => prices'[t] = prices[t]
    BY <2>1 DEF Typed
  <2> QED
    BY <2>1, <2>2
<1>2. ~RecordPrice => prices' = prices
  BY DEF Next, Step, Start, StartCaller, ReadPrice, PriceMissing, PricesDone, Open, Build, SkipDay,
         Invoke, Refused, CallerDay, Report, WriteSummary, Killed, vars
<1> QED
  BY <1>1, <1>2

\* What was captured stays.
LEMMA CapturedStep == Typed /\ PricesRead /\ CapturedReplays /\ [Next]_vars => CapturedReplays'
<1> SUFFICES ASSUME Typed, PricesRead, CapturedReplays, [Next]_vars PROVE CapturedReplays'
  OBVIOUS
<1>1. \A t \in Tickers : prices[t] \subseteq prices'[t]
  BY PricesGrow
<1>2. CASE PricesDone
  <2>1. \A t \in Tickers : Regime \in prices[t]
    <3>1. ToSet(<<>>) = {}
      BY DEF ToSet
    <3> QED
      BY <1>2, <3>1 DEF PricesDone, PricesRead
  <2>2. captured' \subseteq captured \cup {Regime}
    BY <1>2 DEF PricesDone
  <2> QED
    BY <1>1, <2>1, <2>2 DEF CapturedReplays
<1>3. CASE captured' = captured
  BY <1>1, <1>3 DEF CapturedReplays
<1>4. ~PricesDone => captured' = captured
  BY DEF Next, Step, Start, StartCaller, ReadPrice, PriceMissing, RecordPrice, Open, Build, SkipDay,
         Invoke, Refused, CallerDay, Report, WriteSummary, Killed, vars, history
<1> QED
  BY <1>2, <1>3, <1>4

-----------------------------------------------------------------------------
(* Rows and reports.                                                       *)

\* Every step keeps the rows what the days before leave.
LEMMA RowsStep == Typed /\ RowsSoFar /\ [Next]_vars => RowsSoFar'
<1> SUFFICES ASSUME Typed, RowsSoFar, [Next]_vars, at' = "day", mode' = "replay"
             PROVE  /\ db'[left'[1]] = Upto(left'[1], missed')[day' - 1]
                    /\ graph' = "none" => day' = 1
                    /\ graph' = "failed" => missed' = 1..Days
                    /\ graph' # "failed" => missed' \subseteq 1..day' - 1
  BY DEF RowsSoFar, Regime
<1>0. ASSUME NEW kind \in Kinds, NEW lost, at = "day", day \in 1..Days, UNCHANGED left, day' = day + 1,
             Wrote(Trace(kind, day)), kind = Ending(Regime, lost, day),
             db[Regime] = Upto(Regime, lost)[day - 1]
      PROVE  db'[left'[1]] = Upto(left'[1], lost)[day' - 1]
  <2>1. Trace(kind, day) \in Seq(DayRows)
    BY <1>0, TraceTyped
  <2>2. db'[Regime] = db[Regime] \o Trace(kind, day) /\ Regime \in Regimes
    BY <1>0, <2>1, WroteTyped
  <2>3. Upto(Regime, lost)[day] = Upto(Regime, lost)[day - 1] \o Trace(Ending(Regime, lost, day), day)
    BY <1>0, <2>2, ExpectedStages DEF Stages
  <2>4. day' - 1 = day
    BY <1>0, DaysAssumption
  <2> QED
    BY <1>0, <2>2, <2>3, <2>4 DEF Regime
<1>1. CASE Open
  <2>1. Regime \in Regimes /\ left'[1] = Regime
    BY <1>1, RegimeTyped DEF Open, Regime
  <2>2. db'[Regime] = <<>> /\ day' - 1 = 0 /\ day' = 1 /\ graph' = "none" /\ missed' = {}
    BY <1>1, <2>1 DEF Open, Typed
  <2>3. Upto(Regime, {})[0] = <<>>
    BY <2>1, ExpectedStages DEF Stages
  <2> QED
    BY <2>1, <2>2, <2>3
<1>2. CASE Build
  <2>1. at = "day" /\ mode = "replay" /\ graph = "none" /\ UNCHANGED <<left, mode>>
    BY <1>2 DEF Build, InDay, Abort
  <2>2. day = 1 /\ db[Regime] = Upto(Regime, missed)[0]
    BY <2>1 DEF RowsSoFar
  <2>3. Regime \in Regimes /\ 1 \in 1..Days /\ "skipped" \in Kinds
    BY <2>1, RegimeTyped, DaysAssumption DEF Kinds
  <2>4. CASE graph' = "built" /\ UNCHANGED <<day, db, missed>>
    BY <2>1, <2>2, <2>4 DEF Regime, RowsSoFar
  <2>5. CASE graph' = "failed" /\ Wrote(Trace("skipped", day)) /\ day' = day + 1 /\ missed' = 1..Days
    <3>1. Ending(Regime, 1..Days, day) = "skipped"
      BY <2>2, <2>3 DEF Ending
    <3>2. Upto(Regime, missed)[0] = <<>> /\ Upto(Regime, 1..Days)[0] = <<>>
      BY <2>3, ExpectedStages DEF Stages
    <3>3. db[Regime] = Upto(Regime, 1..Days)[day - 1] /\ day \in 1..Days
      BY <2>2, <2>3, <3>2
    <3>4. db'[left'[1]] = Upto(left'[1], 1..Days)[day' - 1]
      BY <1>0, <2>1, <2>3, <2>5, <3>1, <3>3
    <3> QED
      BY <2>5, <3>4
  <2> QED
    BY <1>2, <2>4, <2>5 DEF Build, Abort, outVars
<1>3. CASE SkipDay
  <2>1. at = "day" /\ mode = "replay" /\ graph = "failed" /\ UNCHANGED <<left, graph, missed>>
        /\ Wrote(Trace("skipped", day)) /\ day' = day + 1
    BY <1>3 DEF SkipDay, InDay, history
  <2>2. day \in 1..Days /\ "skipped" \in Kinds
    BY <1>3 DEF SkipDay, InDay, Typed, Kinds
  <2>3. db[Regime] = Upto(Regime, missed)[day - 1] /\ missed = 1..Days
    BY <2>1 DEF RowsSoFar
  <2>4. Ending(Regime, missed, day) = "skipped"
    BY <2>2, <2>3 DEF Ending
  <2>5. db'[left'[1]] = Upto(left'[1], missed)[day' - 1]
    BY <1>0, <2>1, <2>2, <2>3, <2>4
  <2> QED
    BY <2>1, <2>3, <2>5
<1>4. CASE Invoke
  <2>1. at = "day" /\ mode = "replay" /\ graph = "built" /\ UNCHANGED <<left, graph, missed>>
        /\ Wrote(Trace(Recorded[Regime][day], day)) /\ day' = day + 1
    BY <1>4 DEF Invoke, InDay, history
  <2>2. day \in 1..Days /\ Regime \in Regimes
    BY <1>4, <2>1, RegimeTyped DEF Invoke, InDay, Typed
  <2>3. db[Regime] = Upto(Regime, missed)[day - 1]
    BY <2>1 DEF RowsSoFar
  <2>4. day \notin missed /\ missed \subseteq 1..day' - 1
    BY <2>1, <2>2, DaysAssumption DEF RowsSoFar
  <2>5. Recorded[Regime][day] = Ending(Regime, missed, day) /\ Recorded[Regime][day] \in Kinds
    BY <2>2, <2>4, RecordedKind DEF Ending
  <2>6. db'[left'[1]] = Upto(left'[1], missed)[day' - 1]
    BY <1>0, <2>1, <2>2, <2>3, <2>5
  <2> QED
    BY <2>1, <2>4, <2>6
<1>10. CASE Refused
  <2>1. at = "day" /\ mode = "replay" /\ graph = "built" /\ UNCHANGED <<left, graph>>
        /\ missed' = missed \cup {day} /\ Wrote(Trace("skipped", day)) /\ day' = day + 1
    BY <1>10 DEF Refused, InDay
  <2>2. day \in 1..Days /\ Regime \in Regimes /\ "skipped" \in Kinds
    BY <1>10, <2>1, RegimeTyped DEF Refused, InDay, Typed, Kinds
  <2>3. db[Regime] = Upto(Regime, missed \cup {day})[day - 1]
    BY <2>1, <2>2, LostLater DEF RowsSoFar
  <2>4. Ending(Regime, missed \cup {day}, day) = "skipped"
    BY DEF Ending
  <2>5. db'[left'[1]] = Upto(left'[1], missed \cup {day})[day' - 1]
    BY <1>0, <2>1, <2>2, <2>3, <2>4
  <2>6. missed \cup {day} \subseteq 1..day' - 1
    BY <2>1, <2>2, DaysAssumption DEF RowsSoFar
  <2> QED
    BY <2>1, <2>5, <2>6
<1>5. CASE UNCHANGED <<at, mode, left, day, graph, db, missed>>
  BY <1>5 DEF RowsSoFar, Regime
<1>6. ASSUME NEW list \in Commands, NEW m \in {"replay", "record"}, Start(list, m) PROVE FALSE
  BY <1>6 DEF Start
<1>7. ASSUME NEW r \in Regimes, StartCaller(r) PROVE FALSE
  BY <1>7 DEF StartCaller
<1>8. ~CallerDay
  BY DEF CallerDay
<1>9. ReadPrice \/ PriceMissing \/ RecordPrice \/ PricesDone \/ Report \/ WriteSummary
      \/ Killed \/ UNCHANGED vars
        => at' # "day" \/ UNCHANGED <<at, mode, left, day, graph, db, missed>>
  BY DEF ReadPrice, PriceMissing, RecordPrice, PricesDone, Report, WriteSummary, Killed, vars,
         Abort, runVars, outVars, history
<1> QED
  BY <1>1, <1>2, <1>3, <1>4, <1>5, <1>6, <1>7, <1>8, <1>9, <1>10 DEF Next, Step

\* The outputs change when a command starts, with a report, and with the summary;
\* every other step keeps a command's list of reports or ends it.
LEMMA OutputsChange ==
  ASSUME [Next]_vars
  PROVE  \/ \E list \in Commands, m \in {"replay", "record"} : Start(list, m)
         \/ \E r \in Regimes : StartCaller(r)
         \/ Report /\ mode # "caller"
         \/ WriteSummary
         \/ /\ UNCHANGED <<mode, reports, summary>>
            /\ at' # "idle" => at # "idle" /\ ran' = ran
<1> DEFINE Kept == UNCHANGED <<mode, reports, summary>> /\ (at' # "idle" => at # "idle" /\ ran' = ran)
<1>1. ReadPrice \/ PriceMissing \/ RecordPrice \/ PricesDone \/ Open => Kept
  BY DEF ReadPrice, PriceMissing, RecordPrice, PricesDone, Open, Abort, runVars, outVars
<1>2. Build \/ SkipDay \/ Invoke \/ Refused \/ CallerDay \/ (Report /\ mode = "caller") => Kept
  BY DEF Build, SkipDay, Invoke, Refused, CallerDay, Report, Wrote, Abort, InDay, runVars, outVars
<1>3. Killed \/ UNCHANGED vars => Kept
  BY DEF Killed, vars, Abort, runVars, outVars
<1> QED
  BY <1>1, <1>2, <1>3 DEF Next, Step

\* Every step keeps the reports what the fixtures make.
LEMMA ReportStep ==
  Typed /\ RowsSoFar /\ ReportIsItsRegimes /\ [Next]_vars => ReportIsItsRegimes'
<1> SUFFICES ASSUME Typed, RowsSoFar, ReportIsItsRegimes, [Next]_vars PROVE ReportIsItsRegimes'
  OBVIOUS
<1>1. CASE EmptyDirectory
  <2>1. \A r \in Regimes : ~reports'[r].done
    BY <1>1 DEF EmptyDirectory, NoReport
  <2> QED
    BY <2>1 DEF ReportIsItsRegimes
<1>2. ASSUME Report, mode = "replay" PROVE ReportIsItsRegimes'
  <2>1. /\ Regime \in Regimes /\ at = "day" /\ mode' = mode
        /\ reports' = [reports EXCEPT ![Regime] = [rows |-> db[Regime], missed |-> missed, done |-> TRUE]]
    BY <1>2, RegimeTyped DEF Report
  <2>2. day - 1 = Days
    BY <1>2, <2>1, DaysAssumption DEF Report, Typed
  <2>3. db[Regime] = Expected(Regime, missed)
    BY <1>2, <2>1, <2>2, ExpectedStages DEF RowsSoFar, Stages
  <2>4. ASSUME NEW r \in Regimes, reports'[r].done
        PROVE  reports'[r].rows = Expected(r, reports'[r].missed)
    <3>1. CASE r = Regime
      BY <2>1, <2>3, <3>1 DEF Typed
    <3>2. CASE r # Regime
      <4>1. reports'[r] = reports[r]
        BY <2>1, <3>2 DEF Typed
      <4> QED
        BY <1>2, <2>4, <4>1 DEF ReportIsItsRegimes
    <3> QED
      BY <3>1, <3>2
  <2> QED
    BY <2>4 DEF ReportIsItsRegimes
<1>3. ASSUME mode' # "replay" PROVE ReportIsItsRegimes'
  BY <1>3 DEF ReportIsItsRegimes
<1>4. CASE UNCHANGED <<mode, reports>>
  BY <1>4 DEF ReportIsItsRegimes
<1>5. \/ EmptyDirectory
      \/ Report /\ mode = "replay"
      \/ mode' # "replay"
      \/ UNCHANGED <<mode, reports>>
  <2>1. Report /\ mode # "caller" => (mode = "replay" \/ mode' # "replay")
    BY DEF Report, Abort
  <2>2. WriteSummary => UNCHANGED <<mode, reports>>
    BY DEF WriteSummary
  <2> QED
    BY <2>1, <2>2, OutputsChange DEF Start, StartCaller
<1> QED
  BY <1>1, <1>2, <1>3, <1>4, <1>5

\* Every step keeps a command's account of its reports.
LEMMA AccountedStep == Typed /\ Accounted /\ [Next]_vars => Accounted'
<1> SUFFICES ASSUME Typed, Accounted, [Next]_vars, at' # "idle"
             PROVE  summary' = NoSummary /\ {r \in Regimes : reports'[r].done} = ToSet(ran')
  BY DEF Accounted, DoneReports
<1>1. ASSUME EmptyDirectory, ran' = <<>>
      PROVE  summary' = NoSummary /\ {r \in Regimes : reports'[r].done} = ToSet(ran')
  <2>1. \A r \in Regimes : ~reports'[r].done
    BY <1>1 DEF EmptyDirectory, NoReport
  <2>2. ToSet(<<>>) = {}
    BY DEF ToSet
  <2> QED
    BY <1>1, <2>1, <2>2 DEF EmptyDirectory
<1>2. ASSUME Report, mode # "caller"
      PROVE  summary' = NoSummary /\ {r \in Regimes : reports'[r].done} = ToSet(ran')
  <2>1. /\ Regime \in Regimes /\ at = "day" /\ summary' = summary /\ ran' = Append(ran, Regime)
        /\ reports' = [reports EXCEPT ![Regime] = [rows |-> db[Regime], missed |-> missed, done |-> TRUE]]
    BY <1>2, RegimeTyped DEF Report
  <2>2. ToSet(ran') = ToSet(ran) \cup {Regime}
    BY <2>1, AppendedSet DEF Typed
  <2>3. reports'[Regime].done /\ \A r \in Regimes : r # Regime => reports'[r] = reports[r]
    BY <2>1 DEF Typed
  <2>4. summary = NoSummary /\ {r \in Regimes : reports[r].done} = ToSet(ran)
    BY <2>1 DEF Accounted, DoneReports
  <2> QED
    BY <2>1, <2>2, <2>3, <2>4
<1>3. ASSUME UNCHANGED <<reports, summary>>, at # "idle", ran' = ran
      PROVE  summary' = NoSummary /\ {r \in Regimes : reports'[r].done} = ToSet(ran')
  BY <1>3 DEF Accounted, DoneReports
<1>4. ~WriteSummary
  BY DEF WriteSummary
<1>5. \/ EmptyDirectory /\ ran' = <<>>
      \/ Report /\ mode # "caller"
      \/ UNCHANGED <<reports, summary>> /\ at # "idle" /\ ran' = ran
  BY <1>4, OutputsChange DEF Start, StartCaller
<1> QED
  BY <1>1, <1>2, <1>3, <1>5

\* The summary that is written: its ratios are of verdicts, one per report.
LEMMA SummaryOfVerdicts ==
  ASSUME Typed, NEW m \in RatioMetrics
  PROVE  LET all == Summary([i \in 1..Len(ran) |-> MetricsOf(ran[i])]).ratio[m]
         IN  /\ all.status = "pass" => all.num = all.den
             /\ all.status = "fail" => all.num < all.den
<1> DEFINE metrics == [i \in 1..Len(ran) |-> MetricsOf(ran[i])]
           ratios == [i \in 1..Len(metrics) |-> metrics[i][m]]
<1>1. Len(ran) \in Nat /\ \A i \in 1..Len(ran) : ran[i] \in Regimes
  BY DEF Typed
<1>2. \A i \in 1..Len(ran) : metrics[i][m] \in Verdicts
  <2> SUFFICES ASSUME NEW i \in 1..Len(ran) PROVE MetricsOf(ran[i])[m] \in Verdicts
    OBVIOUS
  <2>1. reports[ran[i]].rows \in Seq(DayRows)
    BY <1>1 DEF Typed
  <2> QED
    BY <2>1, MetricIsVerdict DEF MetricsOf
<1>3. Len(metrics) = Len(ran)
  BY <1>1
<1>4. Summary(metrics).ratio[m] = Aggregate(ratios)
  BY DEF Summary
<1> HIDE DEF metrics
<1>5. ratios \in Seq(Verdicts)
  BY <1>1, <1>2, <1>3
<1> HIDE DEF ratios
<1> QED
  BY <1>4, <1>5, RatiosAddUp DEF metrics

\* Every step keeps the summary true of the reports.
LEMMA SummaryStep ==
  Typed /\ Accounted /\ SummaryIsOfItsReports /\ [Next]_vars => SummaryIsOfItsReports'
<1> SUFFICES ASSUME Typed, Accounted, SummaryIsOfItsReports, [Next]_vars
             PROVE  SummaryIsOfItsReports'
  OBVIOUS
<1>1. ASSUME summary' = NoSummary PROVE SummaryIsOfItsReports'
  BY <1>1 DEF SummaryIsOfItsReports
<1>2. CASE WriteSummary
  <2> DEFINE all == Summary([i \in 1..Len(ran) |-> MetricsOf(ran[i])])
  <2>1. summary' = [of |-> ToSet(ran), metrics |-> all] /\ reports' = reports
    BY <1>2 DEF WriteSummary
  <2>2. ToSet(ran) = {r \in Regimes : reports[r].done}
    BY <1>2 DEF WriteSummary, Accounted, DoneReports
  <2>3. \A m \in RatioMetrics : /\ all.ratio[m].status = "pass" => all.ratio[m].num = all.ratio[m].den
                                /\ all.ratio[m].status = "fail" => all.ratio[m].num < all.ratio[m].den
    BY SummaryOfVerdicts
  <2> HIDE DEF all
  <2> QED
    BY <2>1, <2>2, <2>3 DEF SummaryIsOfItsReports
<1>3. CASE UNCHANGED <<reports, summary>>
  BY <1>3 DEF SummaryIsOfItsReports
<1>4. ASSUME Report, mode # "caller" PROVE summary' = NoSummary
  BY <1>4 DEF Report, Accounted
<1>5. summary' = NoSummary \/ WriteSummary \/ UNCHANGED <<reports, summary>>
  BY <1>4, OutputsChange DEF Start, StartCaller, EmptyDirectory
<1> QED
  BY <1>1, <1>2, <1>3, <1>5

-----------------------------------------------------------------------------
(* The theorems.                                                           *)

\* The invariant holds at the start.
LEMMA InitInvariant == Init => IInv
<1> SUFFICES ASSUME Init PROVE IInv
  OBVIOUS
<1> USE DEF Init
<1>1. Typed
  <2>1. 1 \in 1..Days /\ 1 \in 1..Days + 1
    BY DaysAssumption
  <2>2. prices \in [Tickers -> SUBSET Regimes]
    OBVIOUS
  <2>3. left \in Seq(Regimes) /\ ran \in Seq(Regimes) /\ want \in Seq(Tickers) /\ fills \in Seq(FillRecords)
    OBVIOUS
  <2>4. /\ db \in [Regimes -> Seq(DayRows)]
        /\ reports \in [Regimes -> [rows: Seq(DayRows), missed: SUBSET (1..Days), done: BOOLEAN]]
    BY DEF NoReport
  <2> QED
    BY <2>1, <2>2, <2>3, <2>4 DEF Typed
<1>2. PricesRead /\ RowsSoFar /\ Accounted /\ CapturedReplays
  BY DEF PricesRead, RowsSoFar, Accounted, CapturedReplays
<1>3. ReportIsItsRegimes /\ SummaryIsOfItsReports
  BY DEF ReportIsItsRegimes, SummaryIsOfItsReports, NoReport
<1> QED
  BY <1>1, <1>2, <1>3 DEF IInv

\* The types, what a command at work has read and written so far, and the three
\* properties of its outputs are kept by every step.
THEOREM EvaluationInvariant == Spec => []IInv
<1>1. IInv /\ [Next]_vars => IInv'
  BY TypedStep, PricesStep, CapturedStep, RowsStep, ReportStep, AccountedStep, SummaryStep DEF IInv
<1> QED
  BY InitInvariant, <1>1, PTL DEF Spec

\* The variables have the values TypeOK names.
THEOREM EvaluationTypeCorrect == Spec => []TypeOK
<1>1. IInv => TypeOK
  BY DEF IInv, Typed, TypeOK, DayRows
<1> QED
  BY EvaluationInvariant, <1>1, PTL

\* A report has the rows its regime's fixtures make, day by day, but for a skipped
\* row of each day the environment took, whatever was aborted before: for any
\* regimes, days and fixtures, and any days on which the store refused.
THEOREM ReportsAreTheirRegimes == Spec => []ReportIsItsRegimes
<1>1. IInv => ReportIsItsRegimes
  BY DEF IInv
<1> QED
  BY EvaluationInvariant, <1>1, PTL

\* The summary is of the reports that are there, and its verdicts mean what they
\* say of the sums over all of them, for any number of regimes.
THEOREM SummaryIsTrue == Spec => []SummaryIsOfItsReports
<1>1. IInv => SummaryIsOfItsReports
  BY DEF IInv
<1> QED
  BY EvaluationInvariant, <1>1, PTL

\* Prices once captured for a regime stay replayable, for any basket and any
\* regimes.
THEOREM CapturesReplay == Spec => []CapturedReplays
<1>1. IInv => CapturedReplays
  BY DEF IInv
<1> QED
  BY EvaluationInvariant, <1>1, PTL

\* Trades and book agree on any fills a caller's heartbeat writes, of any length,
\* at any price, commission and number of shares, up to the rounding of the
\* commissions per share.
THEOREM BooksBalanced == Spec => []BooksBalance
<1>1. ASSUME fills \in Seq(FillRecords) PROVE BooksBalance
  <2> DEFINE t == Trades(fills)
  <2>1. t \in Books /\ InBalance(t, Allowed(fills))
    BY <1>1, TradesBalance
  <2>2. ASSUME ~PerfRaises(t, TRUE) PROVE ~t.short
    BY <2>2 DEF PerfRaises
  <2>3. ~PerfRaises(t, TRUE) => 2 * Gap(t) \in -Allowed(fills)..Allowed(fills) /\ t.held = SharesOf(t.lots)
    BY <2>1, <2>2 DEF InBalance
  <2> QED
    BY <2>3 DEF BooksBalance, Gap, Allowed, PnlOf, CostOf, SharesOf, Sum
<1>2. IInv => BooksBalance
  BY <1>1 DEF IInv, Typed
<1> QED
  BY EvaluationInvariant, <1>2, PTL
=============================================================================
