---------------------------- MODULE EvalMetrics ----------------------------
(***************************************************************************)
(* What firm/eval computes from the tables of a regime: closed trades by   *)
(* first-in-first-out matching of the fills (firm/eval/runner.py and       *)
(* perf_metrics.py), the ratio metrics of its decisions and their verdicts *)
(* (process_metrics.py), and the summary over several regimes              *)
(* (aggregate.py).  Amounts are integers, in the last digit a division of  *)
(* Decimals keeps.                                                         *)
(***************************************************************************)
EXTENDS Integers, Sequences, SequencesExt

CONSTANTS
  FailureModes,     \* members of FailureMode but UNKNOWN
  RedTeamTotal      \* red_team_total of run_regime

ASSUME TotalsAssumption == IsFiniteSet(FailureModes) /\ RedTeamTotal \in Nat

-----------------------------------------------------------------------------
(* Trades.                                                                 *)

\* A broker.fill row.
FillRecords ==
  [side: {"buy", "sell"}, shares: Nat, price: Nat \ {0}, commission: Nat, day: Nat]

\* commission / shares, rounded to the nearest amount; nothing of no shares.
PerShare(f) ==
  IF f.shares = 0 THEN 0
  ELSE CHOOSE q \in 0..f.commission : 2 * (f.commission - q * f.shares) \in -f.shares..f.shares

\* What the fills did so far: cash spent and received, the open lots, and the
\* trades that were closed; short: a sell met no lot at all, or for some shares.
NoTrades == [cash |-> 0, held |-> 0, lots |-> <<>>, closed |-> <<>>, short |-> FALSE]

\* (mutant) the sell's own commission is left out of the trade.
SellMatchedFree(acc, lot, f) ==
  LET n == Min({lot.shares, acc.need})
  IN  IF acc.need = 0 THEN [acc EXCEPT !.lots = Append(@, lot)]
      ELSE [need   |-> acc.need - n,
            lots   |-> IF n = lot.shares THEN acc.lots
                       ELSE Append(acc.lots, [lot EXCEPT !.shares = @ - n]),
            closed |-> Append(acc.closed, [entry |-> lot.day, exit |-> f.day,
                                           pnl |-> (f.price - lot.cost) * n])]

\* while remaining > 0 and queue: the earliest lot gives what it has.
SellMatched(acc, lot, f) ==
  LET n == Min({lot.shares, acc.need})
  IN  IF acc.need = 0 THEN [acc EXCEPT !.lots = Append(@, lot)]
      ELSE [need   |-> acc.need - n,
            lots   |-> IF n = lot.shares THEN acc.lots
                       ELSE Append(acc.lots, [lot EXCEPT !.shares = @ - n]),
            closed |-> Append(acc.closed, [entry |-> lot.day, exit |-> f.day,
                                           pnl |-> (f.price - PerShare(f) - lot.cost) * n])]

Sold(t, f) ==
  LET m == FoldLeft(LAMBDA acc, lot : SellMatched(acc, lot, f),
                    [need |-> f.shares, lots |-> <<>>, closed |-> t.closed], t.lots)
  IN  [cash |-> t.cash + (f.price * f.shares - f.commission), held |-> t.held - f.shares,
       lots |-> m.lots, closed |-> m.closed, short |-> t.short \/ t.lots = <<>> \/ m.need > 0]

Bought(t, f) ==
  [t EXCEPT !.cash = @ - (f.price * f.shares + f.commission),
            !.held = @ + f.shares,
            !.lots = Append(@, [shares |-> f.shares, cost |-> f.price + PerShare(f), day |-> f.day])]

\* _final_cash_and_positions and _fifo_closed_trades of one ticker's fills.
Trades(fills) ==
  FoldLeft(LAMBDA t, f : IF f.side = "buy" THEN Bought(t, f) ELSE Sold(t, f), NoTrades, fills)

\* compute_perf_metrics raises on a sell without its buy, and on open positions
\* it has no mark for.
PerfRaises(t, marked) == t.short \/ (t.held # 0 /\ ~marked)

-----------------------------------------------------------------------------
(* Verdicts on decisions: a row has the sources it cites and its           *)
(* failure_mode.                                                           *)

Ratio(num, den, status) == [num |-> num, den |-> den, status |-> status]

\* "info" with nothing to judge, "pass" when all of it is good.
AllOf(num, den) ==
  Ratio(num, den, IF den = 0 THEN "info" ELSE IF num = den THEN "pass" ELSE "fail")

CountOf(rows, Good(_)) == Cardinality({i \in 1..Len(rows) : Good(rows[i])})

Discipline(rows) == AllOf(CountOf(rows, LAMBDA r : Len(r.cites) >= 2), Len(rows))

Diversity(rows) == AllOf(CountOf(rows, LAMBDA r : Cardinality(ToSet(r.cites)) >= 2), Len(rows))

\* The queue's rows count as above the threshold; the approved ones are valid.
HitlCorrectness(queue) == AllOf(CountOf(queue, LAMBDA q : q = "approved"), Len(queue))

\* The suite runs elsewhere: 0 of the default total.
RedTeam == AllOf(0, RedTeamTotal)

Coverage(rows) ==
  AllOf(Cardinality({rows[i].mode : i \in 1..Len(rows)} \cap FailureModes), Cardinality(FailureModes))

\* The percentage is rounded to one decimal before it meets its threshold:
\* at least pct tenths of a per cent, half a tenth less.
Reaches(num, den, tenths) == 2000 * num >= (2 * tenths - 1) * den

\* A claim per citation, and one without a source for 'uncited_claim'.
Groundedness(rows) ==
  LET cited == FoldLeft(LAMBDA n, r : n + Len(r.cites), 0, rows)
      all == cited + CountOf(rows, LAMBDA r : r.mode = "uncited_claim")
  IN  Ratio(cited, all, IF all = 0 THEN "info" ELSE IF Reaches(cited, all, 990) THEN "pass" ELSE "fail")

\* Trades closed at a loss within three days, in three bands.
ReversalRate(closed) ==
  LET all == Len(closed)
      bad == CountOf(closed, LAMBDA c : c.pnl < 0 /\ c.exit - c.entry <= 3)
  IN  Ratio(bad, all, IF all = 0 THEN "info" ELSE IF ~Reaches(bad, all, 300) THEN "pass"
                      ELSE IF ~Reaches(bad, all, 500) THEN "warn" ELSE "fail")

RatioMetrics == {"discipline", "diversity", "hitl", "redTeam", "coverage"}
MeanMetrics == {"groundedness", "reversal"}

\* compute_all_metrics, but for the constant ones; queue is table hitl_queue.
Metrics(rows, queue, closed) ==
  [discipline |-> Discipline(rows), diversity |-> Diversity(rows),
   hitl |-> HitlCorrectness(queue), redTeam |-> RedTeam, coverage |-> Coverage(rows),
   groundedness |-> Groundedness(rows), reversal |-> ReversalRate(closed)]

-----------------------------------------------------------------------------
(* The summary.                                                            *)

\* (mutant) the first regime's status stands for all.
CombineFirst(statuses) == statuses[1]

\* _combine_statuses: the strictest one there is.
Combine(statuses) ==
  IF "fail" \in ToSet(statuses) THEN "fail"
  ELSE IF "warn" \in ToSet(statuses) THEN "warn"
  ELSE IF "pass" \in ToSet(statuses) THEN "pass" ELSE "info"

\* _aggregate_num_den, with the combined status.
Aggregate(ratios) ==
  Ratio(FoldLeft(LAMBDA n, r : n + r.num, 0, ratios),
        FoldLeft(LAMBDA n, r : n + r.den, 0, ratios),
        Combine([i \in 1..Len(ratios) |-> ratios[i].status]))

\* build_summary_context: ratios are added up, of the others (means) only the
\* status is kept here.
Summary(metrics) ==
  LET Of(m) == [i \in 1..Len(metrics) |-> metrics[i][m]]
  IN  [ratio  |-> [m \in RatioMetrics |-> Aggregate(Of(m))],
       status |-> [m \in MeanMetrics |-> Combine([i \in 1..Len(metrics) |-> Of(m)[i].status])]]
=============================================================================
