-------------------------- MODULE PortfolioProofs --------------------------
(***************************************************************************)
(* The book for any universe, books, prices and limits: the tables are the *)
(* broker's book when heartbeats begin, no day has more orders than the    *)
(* policy allows but for one that midnight overtakes, and along any        *)
(* sequence of trades, fees included, the cash stays what the firm has and *)
(* every position within its share.                                        *)
(***************************************************************************)
EXTENDS Portfolio, FiniteSetTheorems, TLAPS

-----------------------------------------------------------------------------
(* The inductive invariant.                                                *)

\* What a boot has reached: from the cash row on the tables are seeded, and
\* they are compared with a book nobody has traded on yet.
BootInv ==
  /\ at \in {"seed", "seeding", "reconcile", "resolve"} => book = configured
  /\ at \in {"seeding", "reconcile", "resolve"} => local.seeded
  /\ at # "seeding" => toSeed = {}

\* The rows run ahead of the orders: one is written before each of them, on the
\* day of its fill unless midnight comes between.
DayInv ==
  /\ placed <= rows + late
  /\ placed <= orders
  /\ late <= 1
  /\ at \in {"risk", "persist", "submit"} => orders < MaxOrders
  /\ at = "persist" => rows < MaxTradesPerDay
  /\ at = "submit" /\ ~overnight => placed < rows + late
  /\ overnight => at = "submit" /\ placed = 0 /\ late = 0

PortfolioInv == TypeOK /\ BootSynced /\ BootInv /\ DayInv

-----------------------------------------------------------------------------
(* Sums over a finite set, as MapThenSumSet defines them: the sum of a set *)
(* is what it maps one of its elements to, and the sum of the rest.        *)

Chosen(U) == CHOOSE x \in U : TRUE
Summed(f, g, U) == IF U = {} THEN 0 ELSE f[Chosen(U)] + g[U \ {Chosen(U)}]
AreSums(S, f, g) == g = [U \in S |-> Summed(f, g, U)]
Sums(X, f) == CHOOSE g : AreSums(SUBSET X, f, g)
UpTo(X, n) == {U \in SUBSET X : Cardinality(U) <= n}

\* A nonempty set of natural numbers has a least one.
LEMMA LeastNumber ==
  ASSUME NEW M \in SUBSET Nat, M # {}
  PROVE  \E n \in M : \A m \in M : n <= m
<1> DEFINE T == {1..n : n \in M}
<1>1. T \subseteq FiniteSubsetsOf(Nat)
  <2>1. \A n \in M : IsFiniteSet(1..n) /\ 1..n \subseteq Nat BY FS_Interval
  <2>2. QED BY <2>1 DEF FiniteSubsetsOf
<1>2. T # {} OBVIOUS
<1>3. PICK A \in T : \A B \in T : <<B, A>> \notin StrictSubsetOrdering(Nat)
  BY <1>1, <1>2, FS_StrictSubsetOrderingWellFounded, WFMin
<1>4. PICK n \in M : A = 1..n BY <1>3
<1>5. ASSUME NEW m \in M, m < n PROVE FALSE
  <2>1. 1..m \in T OBVIOUS
  <2>2. n \in 1..n /\ n \notin 1..m /\ 1..m \subseteq 1..n BY <1>5
  <2>3. 1..m \subseteq Nat /\ 1..n \subseteq Nat OBVIOUS
  <2>4. <<1..m, 1..n>> \in StrictSubsetOrdering(Nat)
    BY <2>2, <2>3 DEF StrictSubsetOrdering
  <2>5. QED BY <1>3, <1>4, <2>1, <2>4
<1>6. QED BY <1>5

\* Taking one out of a finite set.
LEMMA OneLess ==
  ASSUME NEW U, IsFiniteSet(U), NEW x \in U
  PROVE  /\ IsFiniteSet(U \ {x})
         /\ Cardinality(U) \in Nat \ {0} /\ Cardinality(U \ {x}) \in Nat
         /\ Cardinality(U \ {x}) = Cardinality(U) - 1
<1>1. IsFiniteSet(U \ {x}) /\ Cardinality(U \ {x}) = Cardinality(U) - 1
  BY FS_RemoveElement
<1>2. Cardinality(U) \in Nat /\ Cardinality(U \ {x}) \in Nat
  BY <1>1, FS_CardinalityType
<1>3. QED BY <1>1, <1>2

\* One element of a nonempty set is the chosen one.
LEMMA ChosenIn == ASSUME NEW U, U # {} PROVE Chosen(U) \in U
BY DEF Chosen

\* There are sums for the subsets of any size: those of one size more need only
\* those.
LEMMA SumsUpTo ==
  ASSUME NEW X, IsFiniteSet(X), NEW f, NEW n \in Nat
  PROVE  \E g : AreSums(UpTo(X, n), f, g)
<1> DEFINE M == {k \in Nat : ~ \E g : AreSums(UpTo(X, k), f, g)}
<1> SUFFICES ASSUME M # {} PROVE FALSE
  OBVIOUS
<1>1. PICK k \in M : \A m \in M : k <= m BY LeastNumber
<1>2. \A U \in SUBSET X : IsFiniteSet(U) /\ Cardinality(U) \in Nat
  BY FS_Subset, FS_CardinalityType
<1>3. CASE k = 0
  <2> DEFINE g == [U \in UpTo(X, k) |-> 0]
  <2>1. \A U \in UpTo(X, k) : U = {} BY <1>2, <1>3, FS_EmptySet DEF UpTo
  <2>2. AreSums(UpTo(X, k), f, g) BY <2>1 DEF AreSums, Summed
  <2>3. QED BY <2>2
<1>4. CASE k # 0
  <2>1. k - 1 \in Nat /\ k - 1 \notin M BY <1>1, <1>4
  <2>2. PICK g : AreSums(UpTo(X, k - 1), f, g) BY <2>1
  <2> DEFINE h == [U \in UpTo(X, k) |-> Summed(f, g, U)]
  <2>3. ASSUME NEW U \in UpTo(X, k) PROVE Summed(f, g, U) = Summed(f, h, U)
    <3>1. CASE U = {} BY <3>1 DEF Summed
    <3>2. CASE U # {}
      <4> DEFINE W == U \ {Chosen(U)}
      <4>1. Chosen(U) \in U /\ U \in SUBSET X BY <3>2, ChosenIn DEF UpTo
      <4>2. Cardinality(W) = Cardinality(U) - 1 /\ Cardinality(W) \in Nat /\ Cardinality(U) \in Nat
        BY <1>2, <4>1, OneLess
      <4>3. W \in UpTo(X, k - 1) /\ W \in UpTo(X, k)
        BY <2>1, <4>1, <4>2 DEF UpTo
      <4>4. h[W] = g[W] BY <2>2, <4>3 DEF AreSums
      <4>5. QED BY <3>2, <4>4 DEF Summed
    <3>3. QED BY <3>1, <3>2
  <2>4. AreSums(UpTo(X, k), f, h) BY <2>3 DEF AreSums
  <2>5. QED BY <2>4
<1>5. QED BY <1>3, <1>4

\* The sums are what their definition says, and integers.
LEMMA SumsAre ==
  ASSUME NEW X, IsFiniteSet(X), NEW f \in [X -> Int]
  PROVE  /\ \A U \in SUBSET X : Sums(X, f)[U] = Summed(f, Sums(X, f), U)
         /\ \A U \in SUBSET X : Sums(X, f)[U] \in Int
<1> DEFINE s == Sums(X, f)
<1>1. Cardinality(X) \in Nat /\ \A U \in SUBSET X : IsFiniteSet(U) /\ Cardinality(U) \in Nat
  BY FS_Subset, FS_CardinalityType
<1>2. UpTo(X, Cardinality(X)) = SUBSET X
  BY FS_Subset DEF UpTo
<1>3. \E g : AreSums(SUBSET X, f, g)
  <2>1. \E g : AreSums(UpTo(X, Cardinality(X)), f, g)
    BY <1>1, SumsUpTo
  <2>2. QED BY <1>2, <2>1
<1>4. AreSums(SUBSET X, f, s)
  BY <1>3 DEF Sums
<1> HIDE DEF s
<1>5. \A U \in SUBSET X : s[U] = Summed(f, s, U)
  BY <1>4 DEF AreSums
<1> DEFINE M == {Cardinality(U) : U \in {V \in SUBSET X : s[V] \notin Int}}
<1>6. M = {}
  <2> SUFFICES ASSUME M # {} PROVE FALSE OBVIOUS
  <2>1. M \in SUBSET Nat BY <1>1
  <2>2. PICK n \in M : \A m \in M : n <= m BY <2>1, LeastNumber
  <2>3. PICK U \in SUBSET X : s[U] \notin Int /\ Cardinality(U) = n BY <2>2
  <2>4. U # {}
    <3>1. Summed(f, s, {}) = 0 BY DEF Summed
    <3>2. s[U] = Summed(f, s, U) BY <1>5, <2>3
    <3>3. Summed(f, s, U) # 0 BY <2>3, <3>2
    <3>4. QED BY <3>1, <3>3
  <2>5. Chosen(U) \in U BY <2>4, ChosenIn
  <2> DEFINE W == U \ {Chosen(U)}
  <2>6. Cardinality(W) = n - 1 /\ Cardinality(W) \in Nat /\ n \in Nat
    BY <1>1, <2>3, <2>5, OneLess
  <2>7. W \in SUBSET X OBVIOUS
  <2>8. s[W] \in Int
    <3>1. Cardinality(W) \notin M BY <2>2, <2>6
    <3>2. QED BY <2>7, <3>1
  <2>9. s[U] = f[Chosen(U)] + s[W] BY <1>5, <2>4 DEF Summed
  <2>10. QED BY <2>3, <2>5, <2>8, <2>9
<1>7. QED BY <1>5, <1>6 DEF s

\* Whichever element is taken out, what it is mapped to is what the sum loses.
LEMMA SumWithout ==
  ASSUME NEW X, IsFiniteSet(X), NEW f \in [X -> Int], NEW U \in SUBSET X, NEW t \in U
  PROVE  Sums(X, f)[U] = f[t] + Sums(X, f)[U \ {t}]
<1> DEFINE s == Sums(X, f)
           Odd == {V \in SUBSET X : \E x \in V : s[V] # f[x] + s[V \ {x}]}
           M == {Cardinality(V) : V \in Odd}
<1>1. \A V \in SUBSET X : IsFiniteSet(V) /\ Cardinality(V) \in Nat
  BY FS_Subset, FS_CardinalityType
<1>2. \A V \in SUBSET X : s[V] = Summed(f, s, V) /\ s[V] \in Int
  BY SumsAre
<1> HIDE DEF s
<1> SUFFICES ASSUME M # {} PROVE FALSE
  BY DEF s
<1>3. M \in SUBSET Nat BY <1>1
<1>4. PICK n \in M : \A m \in M : n <= m BY <1>3, LeastNumber
<1>5. PICK V \in Odd : Cardinality(V) = n BY <1>4
<1>6. PICK x \in V : s[V] # f[x] + s[V \ {x}] BY <1>5
<1> DEFINE y == Chosen(V)
<1>7. y \in V /\ s[V] = f[y] + s[V \ {y}] BY <1>2, <1>5, <1>6, ChosenIn DEF Summed
<1>8. x # y BY <1>6, <1>7
<1> HIDE DEF y
<1>9. ASSUME NEW z \in V PROVE V \ {z} \notin Odd
  <2>1. Cardinality(V \ {z}) = n - 1 /\ Cardinality(V \ {z}) \in Nat /\ n \in Nat
    BY <1>1, <1>5, OneLess
  <2>2. Cardinality(V \ {z}) \notin M BY <1>4, <2>1
  <2>3. QED BY <2>2
<1>10. V \ {x} \in SUBSET X /\ V \ {y} \in SUBSET X BY <1>5
<1>11. s[V \ {y}] = f[x] + s[(V \ {y}) \ {x}]
  <2>1. V \ {y} \notin Odd /\ x \in V \ {y} BY <1>6, <1>7, <1>8, <1>9
  <2>2. QED BY <1>10, <2>1
<1>12. s[V \ {x}] = f[y] + s[(V \ {x}) \ {y}]
  <2>1. V \ {x} \notin Odd /\ y \in V \ {x} BY <1>6, <1>7, <1>8, <1>9
  <2>2. QED BY <1>10, <2>1
<1>13. (V \ {x}) \ {y} = (V \ {y}) \ {x} OBVIOUS
<1>14. f[x] \in Int /\ f[y] \in Int /\ s[(V \ {y}) \ {x}] \in Int
  <2>1. x \in X /\ y \in X /\ (V \ {y}) \ {x} \in SUBSET X BY <1>5, <1>6, <1>7
  <2>2. QED BY <1>2, <2>1
<1>15. QED
  <2> DEFINE rest == s[(V \ {y}) \ {x}]
  <2>1. /\ s[V] = f[y] + s[V \ {y}] /\ s[V \ {y}] = f[x] + rest /\ s[V \ {x}] = f[y] + rest
        /\ rest \in Int
    BY <1>7, <1>11, <1>12, <1>13, <1>14
  <2> HIDE DEF rest
  <2>2. f[y] + (f[x] + rest) = f[x] + (f[y] + rest) BY <1>14, <2>1
  <2>3. QED BY <1>6, <2>1, <2>2

\* Maps that agree on a set have the same sum over it.
LEMMA SameSum ==
  ASSUME NEW X, IsFiniteSet(X), NEW f \in [X -> Int], NEW g \in [X -> Int],
         NEW U \in SUBSET X, \A x \in U : f[x] = g[x]
  PROVE  Sums(X, f)[U] = Sums(X, g)[U]
<1> DEFINE s == Sums(X, f)
           r == Sums(X, g)
           Odd == {V \in SUBSET U : s[V] # r[V]}
           M == {Cardinality(V) : V \in Odd}
<1>1. \A V \in SUBSET X : IsFiniteSet(V) /\ Cardinality(V) \in Nat
  BY FS_Subset, FS_CardinalityType
<1>2. \A V \in SUBSET X : s[V] = Summed(f, s, V) /\ r[V] = Summed(g, r, V)
  BY SumsAre
<1> HIDE DEF s, r
<1> SUFFICES ASSUME M # {} PROVE FALSE
  BY DEF s, r
<1>3. M \in SUBSET Nat BY <1>1
<1>4. PICK n \in M : \A m \in M : n <= m BY <1>3, LeastNumber
<1>5. PICK V \in Odd : Cardinality(V) = n BY <1>4
<1>6. V # {} BY <1>2, <1>5 DEF Summed
<1> DEFINE y == Chosen(V)
<1>7. y \in V /\ s[V] = f[y] + s[V \ {y}] /\ r[V] = g[y] + r[V \ {y}]
  BY <1>2, <1>5, <1>6, ChosenIn DEF Summed
<1> HIDE DEF y
<1>8. Cardinality(V \ {y}) = n - 1 /\ Cardinality(V \ {y}) \in Nat /\ n \in Nat
  BY <1>1, <1>5, <1>7, OneLess
<1>9. Cardinality(V \ {y}) \notin M BY <1>4, <1>8
<1>10. s[V \ {y}] = r[V \ {y}] BY <1>5, <1>9
<1>11. QED BY <1>5, <1>7, <1>10

-----------------------------------------------------------------------------
(* Lemmas about the operators.                                             *)

\* A count that grows does not shrink, keeps to the limit, and a single row
\* below the limit is counted.
LEMMA CountedBounds ==
  ASSUME TypeOK, NEW n \in Nat
  PROVE  /\ Counted(n) \in 0..MaxTradesPerDay
         /\ rows <= Counted(n)
         /\ rows < MaxTradesPerDay /\ n > 0 => rows < Counted(n)
BY LimitsAssumption DEF TypeOK, Counted

\* evaluate_risk has one of its outcomes, and lets nothing through once the
\* day's rows have reached the limit.
LEMMA VerdictBelowLimit ==
  ASSUME TypeOK, NEW stale \in BOOLEAN
  PROVE  /\ Verdict(proposal, stale) \in Verdicts
         /\ Verdict(proposal, stale) \in {"pass", "hitl_size", "hitl_new"}
              => rows < MaxTradesPerDay
<1>1. rows \in Int /\ MaxTradesPerDay \in Int
  BY LimitsAssumption DEF TypeOK
<1>2. ~(rows >= MaxTradesPerDay) => rows < MaxTradesPerDay
  BY <1>1
<1> QED
  BY <1>2 DEF Verdict, Verdicts, Breaches

\* Tables that do not differ from the broker's book are the broker's book.
LEMMA AgreeingBooks ==
  ASSUME TypeOK, ~Differs
  PROVE  local.tables = book
<1>1. local.tables \in Amounts /\ book \in Amounts
  BY DEF TypeOK
<1>2. local.tables.cash = book.cash /\ local.tables.shares = book.shares
  BY <1>1 DEF Differs, Amounts
<1> QED
  BY <1>1, <1>2 DEF Amounts

\* What a fill leaves is still a book.
LEMMA FillIsBook ==
  ASSUME TypeOK, Submit
  PROVE  book' \in Amounts
<1> DEFINE gross == FillPrice(proposal) * Lot[proposal.ticker]
           commission == gross \div 200
<1>1. proposal.ticker \in Tickers /\ book \in Amounts
  BY DEF TypeOK
<1>2. Price[proposal.ticker] \in Int /\ Lot[proposal.ticker] \in Int
  BY <1>1, PriceAssumption
<1>3. FillPrice(proposal) \in Int
  BY <1>2 DEF FillPrice
<1>4. gross \in Int
  BY <1>2, <1>3
<1>5. commission \in Int
  <2> HIDE DEF gross
  <2> QED BY <1>4
<1>6. book.cash \in Int /\ book.shares \in [Tickers -> Int]
  BY <1>1 DEF Amounts
<1>7. NewShares(proposal) \in Int
  BY <1>1, <1>2, <1>6 DEF NewShares
<1>8. [book.shares EXCEPT ![proposal.ticker] = NewShares(proposal)] \in [Tickers -> Int]
  BY <1>6, <1>7
<1>9. (IF proposal.kind = "BUY" THEN book.cash - (gross + commission)
                              ELSE book.cash + (gross - commission)) \in Int
  <2> HIDE DEF gross, commission
  <2> QED BY <1>4, <1>5, <1>6
<1> QED
  BY <1>8, <1>9 DEF Submit, Amounts

-----------------------------------------------------------------------------
(* What a book is worth.                                                   *)

Values(b) == [t \in Tickers |-> Value(t, b.shares[t])]

LEMMA TickersFinite == IsFiniteSet(Tickers)
BY UniverseAssumption, FS_AddElement DEF Tickers

\* A book is worth its cash and the sum of its positions' values.
LEMMA WorthIs ==
  ASSUME NEW b \in Amounts
  PROVE  /\ Values(b) \in [Tickers -> Int]
         /\ Worth(b) = b.cash + Sums(Tickers, Values(b))[Tickers]
         /\ b.cash \in Int /\ Sums(Tickers, Values(b))[Tickers] \in Int /\ Worth(b) \in Int
<1>1. Values(b) \in [Tickers -> Int] /\ b.cash \in Int
  BY PriceAssumption DEF Values, Value, Amounts
<1>2. ASSUME NEW U \in SUBSET Tickers, U # {}
      PROVE  Values(b)[Chosen(U)] = Value(CHOOSE x \in U : TRUE, b.shares[CHOOSE x \in U : TRUE])
  <2>1. Chosen(U) \in Tickers BY <1>2, ChosenIn
  <2>2. Chosen(U) = CHOOSE x \in U : TRUE BY DEF Chosen
  <2>3. Values(b)[Chosen(U)] = Value(Chosen(U), b.shares[Chosen(U)]) BY <2>1 DEF Values
  <2>4. QED BY <2>2, <2>3
<1>3. ASSUME NEW g
      PROVE  [U \in SUBSET Tickers |->
                IF U = {} THEN 0
                ELSE Value(CHOOSE x \in U : TRUE, b.shares[CHOOSE x \in U : TRUE])
                       + g[U \ {CHOOSE x \in U : TRUE}]]
             = [U \in SUBSET Tickers |-> Summed(Values(b), g, U)]
  BY <1>2 DEF Summed, Chosen
<1>4. MapThenSumSet(LAMBDA t : Value(t, b.shares[t]), Tickers) = Sums(Tickers, Values(b))[Tickers]
  BY <1>3 DEF MapThenSumSet, MapThenFoldSet, Sums, AreSums
<1>5. Sums(Tickers, Values(b))[Tickers] \in Int
  BY <1>1, TickersFinite, SumsAre
<1>6. QED BY <1>1, <1>4, <1>5 DEF Worth

\* When one position changes, the worth changes by it.
LEMMA WorthMoves ==
  ASSUME NEW b \in Amounts, NEW c \in Amounts, NEW t \in Tickers, NEW n \in Int,
         c.shares = [b.shares EXCEPT ![t] = n]
  PROVE  Worth(c) = Worth(b) + (c.cash - b.cash) + (n * Price[t] - b.shares[t] * Price[t])
<1> DEFINE f == Values(b)
           g == Values(c)
           R == Tickers \ {t}
<1>1. f \in [Tickers -> Int] /\ g \in [Tickers -> Int] /\ b.cash \in Int /\ c.cash \in Int
  BY WorthIs
<1>2. f[t] = b.shares[t] * Price[t] /\ g[t] = n * Price[t] /\ \A x \in R : f[x] = g[x]
  BY DEF Values, Value, Amounts
<1> HIDE DEF f, g
<1>3. Sums(Tickers, f)[Tickers] = f[t] + Sums(Tickers, f)[R]
  BY <1>1, TickersFinite, SumWithout
<1>4. Sums(Tickers, g)[Tickers] = g[t] + Sums(Tickers, g)[R]
  BY <1>1, TickersFinite, SumWithout
<1>5. R \in SUBSET Tickers OBVIOUS
<1>6. Sums(Tickers, f)[R] = Sums(Tickers, g)[R]
  BY <1>1, <1>2, <1>5, TickersFinite, SameSum
<1>7. Sums(Tickers, f)[R] \in Int
  BY <1>1, <1>5, TickersFinite, SumsAre
<1>8. Worth(b) = b.cash + Sums(Tickers, f)[Tickers] /\ Worth(c) = c.cash + Sums(Tickers, g)[Tickers]
  BY WorthIs DEF f, g
<1>9. f[t] \in Int /\ g[t] \in Int BY <1>1
<1> HIDE DEF R
<1>10. Worth(c) = Worth(b) + (c.cash - b.cash) + (g[t] - f[t])
  BY <1>1, <1>3, <1>4, <1>6, <1>7, <1>8, <1>9
<1>11. QED BY <1>2, <1>10

\* A fill costs more than the quotes say, by no more than a hundredth, and brings
\* less, but something.
LEMMA FillCosts ==
  ASSUME NEW p \in Nat \ {0}, NEW l \in Nat \ {0},
         NEW slip \in Int, slip = p \div 2000
  PROVE  LET up == (p + slip) * l
             down == (p - slip) * l
         IN  /\ p * l \in Nat \ {0} /\ up \in Int /\ down \in Int
             /\ up + up \div 200 >= p * l
             /\ 100 * ((up + up \div 200) - p * l) <= p * l
             /\ down - down \div 200 <= p * l /\ down - down \div 200 >= 0
<1> DEFINE v == p * l
           w == slip * l
<1>1. slip \in Nat /\ 2000 * slip <= p BY SMT
<1>2. v \in Nat \ {0} /\ w \in Nat /\ 2000 * w <= v
  <2>1. (2000 * slip) * l <= p * l BY <1>1
  <2>2. (2000 * slip) * l = 2000 * (slip * l) BY <1>1
  <2>3. QED BY <1>1, <2>1, <2>2
<1>3. (p + slip) * l = v + w /\ (p - slip) * l = v - w BY <1>1
<1> HIDE DEF v, w
<1>4. (v + w) \div 200 \in Nat /\ 200 * ((v + w) \div 200) <= v + w BY <1>2
<1>5. (v - w) \div 200 \in Nat /\ 200 * ((v - w) \div 200) <= v - w BY <1>2
<1>6. /\ (v + w) + (v + w) \div 200 >= v
      /\ 100 * (((v + w) + (v + w) \div 200) - v) <= v
  BY <1>2, <1>4
<1>7. (v - w) - (v - w) \div 200 <= v /\ (v - w) - (v - w) \div 200 >= 0
  BY <1>2, <1>5
<1>8. QED BY <1>2, <1>3, <1>6, <1>7 DEF v

\* A trade that keeps to its limit and leaves the buffer leaves a hundredth of its
\* value too.
LEMMA BufferCovers ==
  ASSUME NEW cash \in Int, NEW v \in Nat \ {0}, NEW nav \in Int,
         NEW most \in Nat, NEW least \in Nat, most <= 100 * least,
         v * 100 <= most * nav, (cash - v) * 100 >= least * nav
  PROVE  (cash - v) * 100 >= v
<1>1. most * nav \in Int /\ least * nav \in Int OBVIOUS
<1>2. nav > 0
  <2>1. most * nav > 0 BY <1>1
  <2>2. nav <= 0 => most * nav <= 0 OBVIOUS
  <2>3. QED BY <1>1, <2>1, <2>2
<1>3. most * nav <= (100 * least) * nav BY <1>2
<1>4. (100 * least) * nav = 100 * (least * nav) OBVIOUS
<1>5. QED BY <1>1, <1>3, <1>4

-----------------------------------------------------------------------------
(* The limits.                                                             *)

\* What the gate let through is about the book it will be filled from.
GateInv ==
  at \in {"persist", "submit"} =>
    /\ ~Exceeds(TradeValue(proposal), MaxTradePct)
    /\ ~PositionBreached(proposal)
    /\ ~CashBreached(proposal)

\* No trade makes the book worth more, so that what keeps to a limit of a later
\* book keeps to that of the first.
BookInv ==
  at # "down" =>
    /\ book.cash >= 0
    /\ Worth(book) <= Worth(configured)
    /\ \A t \in Tickers : Value(t, book.shares[t]) * 100 <= MaxPositionPct * Worth(configured)

LimitInv == GateInv /\ BookInv

\* More of the same percentage.
LEMMA PercentGrows ==
  ASSUME NEW a \in Int, NEW b \in Int, NEW pct \in Nat, a <= b
  PROVE  pct * a <= pct * b /\ pct * a \in Int /\ pct * b \in Int
OBVIOUS

\* The fill keeps the cash, the worth and the positions where they may be.
LEMMA SubmitKeeps ==
  ASSUME TypeOK, LimitInv, Submit
  PROVE  BookInv'
<1> DEFINE t == proposal.ticker
           p == Price[t]
           l == Lot[t]
           slip == p \div 2000
           up == (p + slip) * l
           down == (p - slip) * l
           n == NewShares(proposal)
           buy == proposal.kind = "BUY"
<1>1. /\ t \in Tickers /\ book \in Amounts /\ configured \in Amounts
      /\ p \in Nat \ {0} /\ l \in Nat \ {0}
      /\ MaxTradePct \in Nat /\ MinCashPct \in Nat /\ MaxPositionPct \in Nat
  BY PriceAssumption, LimitsAssumption DEF TypeOK
<1>2. /\ book.cash \in Int /\ book.shares \in [Tickers -> Int] /\ book.shares[t] \in Int
      /\ Worth(book) \in Int /\ Worth(configured) \in Int
  BY <1>1, WorthIs DEF Amounts
<1>3. /\ book' \in Amounts /\ book'.shares = [book.shares EXCEPT ![t] = n]
      /\ configured' = configured /\ at = "submit"
      /\ book'.cash = IF buy THEN book.cash - (up + up \div 200) ELSE book.cash + (down - down \div 200)
  <2>1. /\ book' = [cash |-> IF buy THEN book.cash - (up + up \div 200)
                                  ELSE book.cash + (down - down \div 200),
                  shares |-> [book.shares EXCEPT ![t] = n]]
        /\ configured' = configured /\ at = "submit"
    BY DEF Submit, bootVars, FillPrice
  <2>2. QED BY <2>1, FillIsBook
<1>4. n = (IF buy THEN book.shares[t] + l ELSE book.shares[t] - l) /\ n \in Int
  BY <1>1, <1>2 DEF NewShares
<1>5. /\ book.cash >= 0 /\ Worth(book) <= Worth(configured)
      /\ \A x \in Tickers : Value(x, book.shares[x]) * 100 <= MaxPositionPct * Worth(configured)
  BY <1>3 DEF LimitInv, BookInv
<1>6. /\ ~((l * p) * 100 > MaxTradePct * Worth(book))
      /\ ~((n * p) * 100 > MaxPositionPct * Worth(book))
      /\ buy => ~((book.cash - l * p) * 100 < MinCashPct * Worth(book))
  BY <1>3 DEF LimitInv, GateInv, Exceeds, PositionBreached, CashBreached, TradeValue, Value, Nav
<1>7. Worth(book') = Worth(book) + (book'.cash - book.cash) + (n * p - book.shares[t] * p)
  BY <1>1, <1>3, <1>4, WorthMoves
<1>8. slip \in Int BY <1>1
<1>9. /\ p * l \in Nat \ {0} /\ up \in Int /\ down \in Int
      /\ up + up \div 200 >= p * l
      /\ 100 * ((up + up \div 200) - p * l) <= p * l
      /\ down - down \div 200 <= p * l /\ down - down \div 200 >= 0
  <2> HIDE DEF p, l, slip
  <2>1. slip = p \div 2000 BY DEF slip
  <2>2. QED BY <1>1, <1>8, <2>1, FillCosts
<1> DEFINE cost == up + up \div 200
           gain == down - down \div 200
<1>10. cost \in Int /\ gain \in Int
  <2> HIDE DEF up, down
  <2>1. QED BY <1>9
<1> HIDE DEF p, l, slip, up, down, n, buy, t, cost, gain
<1>11. l * p = p * l BY <1>1
<1>12. book'.cash = (IF buy THEN book.cash - cost ELSE book.cash + gain)
       /\ cost >= p * l /\ 100 * (cost - p * l) <= p * l /\ gain <= p * l /\ gain >= 0
  BY <1>3, <1>9 DEF cost, gain
<1>13. book'.cash >= 0
  <2>1. CASE buy
    <3>1. (p * l) * 100 <= MaxTradePct * Worth(book)
      BY <1>1, <1>2, <1>6, <1>9, <1>11, PercentGrows
    <3>2. (book.cash - p * l) * 100 >= MinCashPct * Worth(book)
      BY <1>1, <1>2, <1>6, <1>9, <1>11, <2>1, PercentGrows
    <3>3. (book.cash - p * l) * 100 >= p * l
      BY <1>1, <1>2, <1>9, <3>1, <3>2, BufferAssumption, BufferCovers
    <3>4. QED BY <1>2, <1>9, <1>10, <1>12, <2>1, <3>3
  <2>2. CASE ~buy BY <1>2, <1>5, <1>10, <1>12, <2>2
  <2>3. QED BY <2>1, <2>2
<1>14. Worth(book') <= Worth(book) /\ Worth(book') \in Int
  <2>1. n * p - book.shares[t] * p = IF buy THEN p * l ELSE -(p * l)
    <3>1. CASE buy
      <4>1. (book.shares[t] + l) * p = book.shares[t] * p + p * l BY <1>1, <1>2
      <4>2. book.shares[t] * p \in Int BY <1>1, <1>2
      <4>3. QED BY <1>4, <1>9, <3>1, <4>1, <4>2
    <3>2. CASE ~buy
      <4>1. (book.shares[t] - l) * p = book.shares[t] * p - p * l BY <1>1, <1>2
      <4>2. book.shares[t] * p \in Int BY <1>1, <1>2
      <4>3. QED BY <1>4, <1>9, <3>2, <4>1, <4>2
    <3>3. QED BY <3>1, <3>2
  <2>2. Worth(book') = Worth(book) + (book'.cash - book.cash) + (IF buy THEN p * l ELSE -(p * l))
    BY <1>7, <2>1
  <2>3. CASE buy BY <1>2, <1>9, <1>10, <1>12, <2>2, <2>3
  <2>4. CASE ~buy BY <1>2, <1>9, <1>10, <1>12, <2>2, <2>4
  <2>5. QED BY <2>3, <2>4
<1>15. MaxPositionPct * Worth(book) <= MaxPositionPct * Worth(configured)
       /\ MaxPositionPct * Worth(book) \in Int /\ MaxPositionPct * Worth(configured) \in Int
  BY <1>1, <1>2, <1>5, PercentGrows
<1>16. ASSUME NEW x \in Tickers
       PROVE  Value(x, book'.shares[x]) * 100 <= MaxPositionPct * Worth(configured)
  <2>1. CASE x = t
    <3>1. book'.shares[x] = n BY <1>1, <1>2, <1>3, <2>1
    <3>2. Value(x, book'.shares[x]) = n * p BY <2>1, <3>1 DEF Value, p
    <3>3. n * p \in Int BY <1>1, <1>4
    <3>4. QED BY <1>6, <1>15, <3>2, <3>3
  <2>2. CASE x # t
    <3>1. book'.shares[x] = book.shares[x] BY <1>2, <1>3, <2>2
    <3>2. QED BY <1>5, <3>1
  <2>3. QED BY <2>1, <2>2
<1>17. Worth(book') <= Worth(configured)
  BY <1>2, <1>5, <1>14
<1>18. /\ Worth(book)' = Worth(book') /\ Worth(configured)' = Worth(configured')
       /\ \A x \in Tickers : Value(x, book.shares[x])' = Value(x, book'.shares[x])
  OBVIOUS
<1>19. QED BY <1>3, <1>13, <1>16, <1>17, <1>18 DEF BookInv

-----------------------------------------------------------------------------
(* The invariant is inductive.                                             *)

LEMMA InitInv == Init => PortfolioInv
<1> SUFFICES ASSUME Init PROVE PortfolioInv
  OBVIOUS
<1>1. NoBook \in Amounts
  BY DEF NoBook, Amounts
<1>2. NoProposal \in [kind: Kinds, ticker: Tickers, researched: {"none", "BUY"}]
  BY DEF NoProposal, Kinds, Tickers
<1>3. TypeOK
  <2>1. 0 \in 0..MaxTradesPerDay /\ 0 \in 0..MaxOrders
    BY LimitsAssumption
  <2> QED
    BY <1>1, <1>2, <2>1 DEF Init, TypeOK, Booting, Verdicts
<1> QED
  BY <1>3 DEF Init, PortfolioInv, BootSynced, BootInv, DayInv, Running

\* Seeding, reconciling and dying leave the orders alone; what they do to the
\* book and the tables is what the next stage of the boot relies on.
LEMMA BootSteps ==
  ASSUME PortfolioInv, Boot \/ SeedCash \/ SeedPosition \/ Reconcile \/ Resolve \/ Crash
  PROVE  PortfolioInv'
<1> USE DEF PortfolioInv
<1>1. CASE Boot
  <2>1. TypeOK'
    BY <1>1, BooksAssumption DEF Boot, TypeOK, BootInv, Booting, dayVars, filledVars
  <2>2. BootSynced' /\ BootInv' /\ DayInv'
    BY <1>1 DEF Boot, BootSynced, BootInv, DayInv, Running, dayVars, filledVars
  <2> QED BY <2>1, <2>2
<1>2. CASE SeedCash
  <2>1. local' \in [seeded: BOOLEAN, tables: Amounts]
    <3>1. [local.tables EXCEPT !.cash = book.cash] \in Amounts
      BY DEF TypeOK, Amounts
    <3>2. local \in [seeded: BOOLEAN, tables: Amounts]
      BY DEF TypeOK
    <3>3. CASE local.seeded
      BY <1>2, <3>2, <3>3 DEF SeedCash
    <3>4. CASE ~local.seeded
      <4> DEFINE tables == [local.tables EXCEPT !.cash = book.cash]
      <4>1. local' = [seeded |-> TRUE, tables |-> tables]
        BY <1>2, <3>4 DEF SeedCash
      <4>2. tables \in Amounts
        BY <3>1
      <4> HIDE DEF tables
      <4> QED
        BY <4>1, <4>2
    <3> QED
      BY <3>3, <3>4
  <2>2. TypeOK'
    BY <1>2, <2>1 DEF SeedCash, TypeOK, BootInv, Booting, dayVars, filledVars
  <2>3. at = "seed" /\ at' \in {"reconcile", "seeding"} /\ local'.seeded
    BY <1>2 DEF SeedCash, TypeOK
  <2>4. at' # "seeding" => toSeed' = {}
    BY <1>2 DEF SeedCash, BootInv
  <2>5. BootSynced' /\ BootInv' /\ DayInv'
    BY <1>2, <2>3, <2>4 DEF SeedCash, BootSynced, BootInv, DayInv, Running, dayVars, filledVars
  <2> QED BY <2>2, <2>5
<1>3. CASE SeedPosition
  <2>1. local' \in [seeded: BOOLEAN, tables: Amounts] /\ local'.seeded
    <3>1. CASE toSeed = {}
      BY <1>3, <3>1 DEF SeedPosition, TypeOK, BootInv
    <3>2. CASE toSeed # {}
      <4>1. PICK t \in toSeed :
              LET shares == [local.tables.shares EXCEPT ![t] = book.shares[t]] IN
              local' = [local EXCEPT !.tables = [@ EXCEPT !.shares = shares]]
        BY <1>3, <3>2 DEF SeedPosition
      <4> DEFINE shares == [local.tables.shares EXCEPT ![t] = book.shares[t]]
                 tables == [local.tables EXCEPT !.shares = shares]
      <4>2. local.seeded /\ local \in [seeded: BOOLEAN, tables: Amounts]
        BY <1>3 DEF SeedPosition, BootInv, TypeOK
      <4>3. shares \in [Tickers -> Int]
        BY DEF TypeOK, Amounts
      <4>4. tables \in Amounts
        BY <4>2, <4>3 DEF Amounts
      <4> QED
        BY <4>1, <4>2, <4>4
    <3> QED
      BY <3>1, <3>2
  <2>2. TypeOK'
    BY <1>3, <2>1 DEF SeedPosition, TypeOK, Booting, dayVars, filledVars
  <2>3. at = "seeding" /\ at' \in {"reconcile", "seeding"}
    BY <1>3 DEF SeedPosition
  <2>4. at' # "seeding" => toSeed' = {}
    BY <1>3 DEF SeedPosition
  <2>5. BootSynced' /\ BootInv' /\ DayInv'
    BY <1>3, <2>1, <2>3, <2>4 DEF SeedPosition, BootSynced, BootInv, DayInv, Running, dayVars, filledVars
  <2> QED BY <2>2, <2>5
<1>4. CASE Reconcile
  <2>1. TypeOK'
    BY <1>4 DEF Reconcile, TypeOK, Booting, Running, bootVars, dayVars, filledVars
  <2>2. at' = "idle" => local.tables = book
    BY <1>4, AgreeingBooks DEF Reconcile
  <2>3. BootSynced' /\ BootInv' /\ DayInv'
    BY <1>4, <2>2 DEF Reconcile, BootSynced, BootInv, DayInv, Running, bootVars, dayVars, filledVars
  <2> QED BY <2>1, <2>3
<1>5. CASE Resolve
  <2>1. TypeOK'
    BY <1>5 DEF Resolve, TypeOK, Booting, Running, dayVars, filledVars
  <2>2. BootSynced' /\ BootInv' /\ DayInv'
    BY <1>5 DEF Resolve, BootSynced, BootInv, DayInv, Running, dayVars, filledVars
  <2> QED BY <2>1, <2>2
<1>6. CASE Crash
  <2>1. NoBook \in Amounts
    BY DEF NoBook, Amounts
  <2>2. NoProposal \in [kind: Kinds, ticker: Tickers, researched: {"none", "BUY"}]
    BY DEF NoProposal, Kinds, Tickers
  <2>3. TypeOK'
    BY <1>6, <2>1, <2>2 DEF Crash, TypeOK, Booting, Verdicts, dayVars, filledVars
  <2>4. BootSynced' /\ BootInv' /\ DayInv'
    BY <1>6 DEF Crash, BootSynced, BootInv, DayInv, Running, dayVars, filledVars
  <2> QED BY <2>3, <2>4
<1> QED
  BY <1>1, <1>2, <1>3, <1>4, <1>5, <1>6

\* More rows cover the orders all the more.
LEMMA MoreRows ==
  ASSUME NEW filled \in Nat, NEW before \in Nat, NEW after \in Nat, NEW extra \in Nat,
         filled <= before + extra, before <= after
  PROVE  filled <= after + extra /\ (before < after => filled < after + extra)
OBVIOUS

\* A heartbeat and midnight leave the tables and the configured book alone; the
\* rows stay ahead of the orders.
LEMMA TradingSteps ==
  ASSUME PortfolioInv, Propose \/ Risk \/ Persist \/ Submit \/ Report \/ Raise \/ NewDay
  PROVE  PortfolioInv'
<1> USE DEF PortfolioInv
<1>0. /\ rows \in Nat /\ placed \in Nat /\ orders \in Nat
      /\ MaxTradesPerDay \in Nat /\ MaxOrders \in Nat /\ late \in Nat /\ late <= 1
  BY LimitsAssumption DEF TypeOK, DayInv
<1>1. CASE Propose
  <2>1. TypeOK'
    BY <1>1 DEF Propose, TypeOK, Running, bootVars, dayVars, filledVars
  <2>2. BootSynced' /\ BootInv' /\ DayInv'
    BY <1>1 DEF Propose, BootSynced, BootInv, DayInv, Running, bootVars, dayVars, filledVars
  <2> QED BY <2>1, <2>2
<1>2. CASE Risk
  <2>1. verdict' \in Verdicts /\ (verdict' = "pass" => rows < MaxTradesPerDay)
    BY <1>2, VerdictBelowLimit DEF Risk
  <2>2. at = "risk" /\ at' \in {"persist", "idle", "report"}
    BY <1>2 DEF Risk
  <2>3. at' = "persist" => verdict' = "pass"
    BY <1>2 DEF Risk
  <2>4. TypeOK'
    BY <1>2, <2>1, <2>2 DEF Risk, TypeOK, Running, bootVars, dayVars, filledVars
  <2>5. BootSynced' /\ BootInv' /\ DayInv'
    BY <1>2, <2>1, <2>2, <2>3 DEF Risk, BootSynced, BootInv, DayInv, Running, bootVars, dayVars, filledVars
  <2> QED BY <2>4, <2>5
<1>3. CASE Persist
  <2>1. rows' \in 0..MaxTradesPerDay /\ rows < rows'
    BY <1>3, CountedBounds DEF Persist, DayInv
  <2>2. /\ at = "persist" /\ at' = "submit"
        /\ UNCHANGED <<book, configured, local, toSeed, overnight, placed, late, orders,
                       proposal, verdict>>
    BY <1>3 DEF Persist, bootVars, filledVars
  <2>3. TypeOK'
    BY <2>1, <2>2 DEF TypeOK, Running
  <2>4. ~overnight /\ placed <= rows + late /\ placed <= orders /\ orders < MaxOrders
    BY <2>2 DEF DayInv
  <2>5. placed' < rows' + late' /\ placed' <= rows' + late'
    <3>1. rows' \in Nat /\ rows <= rows'
      BY <1>0, <2>1
    <3>2. placed <= rows' + late /\ placed < rows' + late
      BY <1>0, <2>1, <2>4, <3>1, MoreRows
    <3> QED BY <2>2, <3>2
  <2>6. DayInv'
    BY <1>0, <2>1, <2>2, <2>4, <2>5 DEF DayInv
  <2>7. BootSynced' /\ BootInv'
    BY <2>2 DEF BootSynced, BootInv, Running
  <2> QED BY <2>3, <2>6, <2>7
<1>4. CASE Submit
  <2>1. book' \in Amounts
    BY <1>4, FillIsBook
  <2>2. /\ at = "submit" /\ at' = "report"
        /\ placed' = placed + 1 /\ overnight' = FALSE
        /\ late' = IF overnight THEN late + 1 ELSE late
        /\ orders' = orders + 1 /\ rows' = rows
        /\ UNCHANGED <<configured, local, toSeed, proposal, verdict>>
    BY <1>4 DEF Submit, bootVars
  <2>3. /\ orders < MaxOrders /\ placed <= orders /\ toSeed = {}
        /\ overnight => placed = 0 /\ late = 0
        /\ ~overnight => placed < rows + late
    BY <2>2 DEF DayInv, BootInv
  <2>4. late' \in Nat /\ late' <= 1 /\ placed + 1 <= rows + late' /\ late' <= orders'
    BY <1>0, <2>2, <2>3 DEF DayInv
  <2>5. placed' \in 0..MaxOrders /\ orders' \in 0..MaxOrders /\ late' \in 0..MaxOrders
    BY <1>0, <2>2, <2>3, <2>4
  <2>6. TypeOK'
    BY <2>1, <2>2, <2>3, <2>5 DEF TypeOK, Running
  <2>7. BootSynced' /\ BootInv' /\ DayInv'
    BY <1>0, <2>2, <2>3, <2>4 DEF BootSynced, BootInv, DayInv, Running
  <2> QED BY <2>6, <2>7
<1>5. CASE Report \/ Raise
  <2>1. rows' \in 0..MaxTradesPerDay /\ rows <= rows'
    <3>1. CASE Report
      <4>1. PICK n \in 0..ToReport : rows' = Counted(n)
        BY <3>1 DEF Report
      <4>2. n \in Nat
        BY DEF ToReport
      <4> QED BY <4>1, <4>2, CountedBounds
    <3>2. CASE Raise
      BY <1>0, <3>2 DEF Raise, TypeOK
    <3> QED BY <1>5, <3>1, <3>2
  <2>2. NoProposal \in [kind: Kinds, ticker: Tickers, researched: {"none", "BUY"}]
    BY DEF NoProposal, Kinds, Tickers
  <2>3. /\ at \in {"risk", "persist", "submit", "report"} /\ at' = "idle"
        /\ proposal' = NoProposal /\ verdict' = "none" /\ overnight' = FALSE
        /\ UNCHANGED <<book, configured, local, toSeed, placed, late, orders>>
    BY <1>5 DEF Report, Raise, Over, bootVars, filledVars
  <2>4. TypeOK'
    BY <2>1, <2>2, <2>3 DEF TypeOK, Running, Verdicts
  <2>5. placed <= rows' + late
    <3>1. placed <= rows + late
      BY DEF DayInv
    <3>2. rows' \in Nat
      BY <1>0, <2>1
    <3> QED BY <1>0, <2>1, <3>1, <3>2, MoreRows
  <2>6. BootSynced' /\ BootInv' /\ DayInv'
    BY <2>3, <2>5 DEF BootSynced, BootInv, DayInv, Running
  <2> QED BY <2>4, <2>6
<1>6. CASE NewDay
  <2>1. /\ rows' = 0 /\ placed' = 0 /\ late' = 0
        /\ UNCHANGED <<at, book, configured, local, toSeed, orders, proposal, verdict>>
    BY <1>6 DEF NewDay, bootVars
  <2>2. overnight' \in BOOLEAN /\ (overnight' <=> at = "submit")
    BY <1>6, Zenon DEF NewDay
  <2>3. TypeOK'
    BY <1>0, <2>1, <2>2 DEF TypeOK
  <2>4. at = "persist" => 0 < MaxTradesPerDay
    BY <1>0 DEF DayInv
  <2>5. DayInv'
    BY <1>0, <2>1, <2>2, <2>4 DEF DayInv
  <2>6. BootSynced' /\ BootInv'
    BY <2>1 DEF BootSynced, BootInv
  <2> QED BY <2>3, <2>5, <2>6
<1> QED
  BY <1>1, <1>2, <1>3, <1>4, <1>5, <1>6

LEMMA NextInv == PortfolioInv /\ [Next]_vars => PortfolioInv'
<1> SUFFICES ASSUME PortfolioInv, [Next]_vars PROVE PortfolioInv'
  OBVIOUS
<1>1. CASE UNCHANGED vars
  BY <1>1 DEF vars, bootVars, dayVars, filledVars, PortfolioInv, TypeOK, BootSynced, BootInv,
             DayInv
<1> QED
  BY <1>1, BootSteps, TradingSteps DEF Next

-----------------------------------------------------------------------------
(* The theorems.                                                           *)

\* The invariant that the theorems below follow from.
THEOREM PortfolioInvariant == Spec => []PortfolioInv
BY InitInv, NextInv, PTL DEF Spec

\* Every variable keeps its type, amounts being integers of any size.
THEOREM TypeCorrect == Spec => []TypeOK
<1>1. PortfolioInv => TypeOK
  BY DEF PortfolioInv
<1> QED
  BY <1>1, PortfolioInvariant, PTL

\* However often a boot dies while it seeds, heartbeats begin with tables that
\* are the broker's book (_seed_db_from_broker, reconcile_on_boot,
\* resolve_from_broker).
THEOREM TablesSynced == Spec => []BootSynced
<1>1. PortfolioInv => BootSynced
  BY DEF PortfolioInv
<1> QED
  BY <1>1, PortfolioInvariant, PTL

\* No day has more orders than the policy allows, whatever the process dies or
\* raises between, but for one order that midnight overtakes between its record
\* and its fill (_count_trades_today, evaluate_risk).
THEOREM DailyLimit == Spec => []TradesPerDay
<1>1. PortfolioInv => TradesPerDay
  BY LimitsAssumption DEF PortfolioInv, DayInv, TypeOK, TradesPerDay
<1> QED
  BY <1>1, PortfolioInvariant, PTL

-----------------------------------------------------------------------------
(* The limits are kept.                                                    *)

LEMMA LimitInit == Init => LimitInv
BY DEF Init, LimitInv, GateInv, BookInv

\* Outside of an order the book stays what it is, so that what the gate said of it
\* still holds when the order is placed.
LEMMA LimitStep ==
  ASSUME PortfolioInv, LimitInv, [Next]_vars
  PROVE  LimitInv'
<1> USE DEF LimitInv
<1>1. CASE Boot
  <2>1. PICK b \in Books : book' = b /\ configured' = b
    BY <1>1 DEF Boot
  <2>2. b.cash >= 0 /\ b \in Amounts
        /\ \A t \in Tickers : Value(t, b.shares[t]) * 100 <= MaxPositionPct * Worth(b)
    BY BooksAssumption, StartAssumption
  <2>3. Worth(b) \in Int
    BY <2>2, WorthIs
  <2>4. /\ Worth(book)' = Worth(b) /\ Worth(configured)' = Worth(b)
        /\ \A t \in Tickers : Value(t, book.shares[t])' = Value(t, b.shares[t])
    BY <2>1
  <2>5. BookInv'
    BY <2>1, <2>2, <2>3, <2>4 DEF BookInv
  <2>6. GateInv'
    BY <1>1 DEF Boot, GateInv
  <2> QED BY <2>5, <2>6
<1>2. CASE Crash
  BY <1>2 DEF Crash, GateInv, BookInv
<1>3. CASE Submit
  <2>1. BookInv'
    BY <1>3, SubmitKeeps DEF PortfolioInv
  <2>2. GateInv'
    BY <1>3 DEF Submit, GateInv
  <2> QED BY <2>1, <2>2
<1>4. CASE \/ SeedCash \/ SeedPosition \/ Reconcile \/ Resolve \/ Propose \/ Risk \/ Persist
           \/ Report \/ Raise \/ NewDay \/ vars' = vars
  <2>1. book' = book /\ configured' = configured /\ (at' # "down" => at # "down")
    BY <1>4 DEF SeedCash, SeedPosition, Reconcile, Resolve, Propose, Risk, Persist, Report,
                Raise, Over, NewDay, bootVars, dayVars, filledVars, vars
  <2>2. /\ Worth(book)' = Worth(book) /\ Worth(configured)' = Worth(configured)
        /\ \A t \in Tickers : Value(t, book.shares[t])' = Value(t, book.shares[t])
    BY <2>1
  <2>3. BookInv'
    BY <2>1, <2>2 DEF BookInv
  <2>4. ASSUME at' \in {"persist", "submit"}, ~Risk
        PROVE  at \in {"persist", "submit"} /\ proposal' = proposal
    BY <1>4, <2>4 DEF SeedCash, SeedPosition, Reconcile, Resolve, Propose, Persist, Report,
                      Raise, Over, NewDay, bootVars, dayVars, filledVars, vars
  <2>5. ASSUME at' \in {"persist", "submit"}, Risk
        PROVE  /\ proposal' = proposal
               /\ ~Exceeds(TradeValue(proposal), MaxTradePct)
               /\ ~PositionBreached(proposal) /\ ~CashBreached(proposal)
    BY <2>5 DEF Risk, Verdict
  <2>6. ASSUME proposal' = proposal
        PROVE  /\ Exceeds(TradeValue(proposal), MaxTradePct)'
                    = Exceeds(TradeValue(proposal), MaxTradePct)
               /\ PositionBreached(proposal)' = PositionBreached(proposal)
               /\ CashBreached(proposal)' = CashBreached(proposal)
    BY <2>1, <2>6 DEF Exceeds, TradeValue, PositionBreached, CashBreached, NewShares, Nav
  <2>7. GateInv'
    BY <2>4, <2>5, <2>6 DEF GateInv
  <2> QED BY <2>3, <2>7
<1> QED
  BY <1>1, <1>2, <1>3, <1>4 DEF Next

\* Together with the types, what the gate passes and what the book may be is an
\* invariant.
THEOREM LimitInvariant == Spec => []LimitInv
<1>1. PortfolioInv /\ LimitInv /\ [Next]_vars => LimitInv'
  BY LimitStep
<1> QED
  BY <1>1, LimitInit, PortfolioInvariant, PTL DEF Spec

\* The buffer covers what a fill costs beyond its quote.
THEOREM CashCoversTheFees == Spec => []NeverOverdrawn
<1>1. LimitInv => NeverOverdrawn
  BY DEF LimitInv, BookInv, NeverOverdrawn, Running
<1> QED
  BY <1>1, LimitInvariant, PTL

\* No sequence of trades takes a position over its share of the first book.
THEOREM PositionsKeepToTheirShare == Spec => []PositionBounded
<1>1. LimitInv => PositionBounded
  BY DEF LimitInv, BookInv, PositionBounded, Running
<1> QED
  BY <1>1, LimitInvariant, PTL
=============================================================================
