----------------------------- MODULE Evaluation -----------------------------
(***************************************************************************)
(* `firm eval` (firm/cli.py) over one or more regimes: the benchmark prices*)
(* are read from, or recorded to, one file per ticker (firm/eval/          *)
(* benchmarks.py); each regime gets a fresh database, a heartbeat per day  *)
(* on a shared replay clock (firm/eval/heartbeat.py), metrics and a report *)
(* (firm/eval/runner.py, EvalMetrics); and at the end there is a summary.  *)
(* run_regime also takes a heartbeat of its caller's, which writes fills.  *)
(* Commands are run one after the other; each may raise or be killed at    *)
(* any step, and the vector store comes and goes as it likes.              *)
(***************************************************************************)
EXTENDS EvalMetrics

CONSTANTS
  AllRegimes,      \* ALL_REGIMES: regime ids, in order
  Universe,        \* tickers of the basket, in order
  Spy,             \* the benchmark's ticker
  Days,            \* days of a regime
  Recorded,        \* for each regime and day: how the fixtures let it end
  Row,             \* the decision row of each kind of ending that leaves one
  Batches          \* fills a caller's heartbeat may write on a day

Regimes == ToSet(AllRegimes)
Tickers == {Spy} \cup ToSet(Universe)
Kinds == DOMAIN Row \cup {"skipped", "escalated"}

ASSUME RecordedAssumption == Recorded \in [Regimes -> [1..Days -> Kinds]]
ASSUME DaysAssumption == Days \in Nat \ {0}
ASSUME ListsAssumption ==
  AllRegimes \in Seq(Regimes) \ {<<>>} /\ Universe \in Seq(ToSet(Universe))
ASSUME BatchesAssumption == Batches \subseteq Seq(FillRecords)

VARIABLES
  prices,    \* the parquet files: the regimes whose days a ticker's file has
  skipFlag,  \* FIRM_EVAL_SKIP_MISCONFIG = 1
  at,        \* what the command does
  mode,      \* "replay" or "record" prices, or "caller": run_regime alone
  left,      \* regimes it has still to run
  ran,       \* regimes it has a report of, in order (eval_cmd's reports)
  want,      \* tickers whose return is still to be computed
  day,       \* the day the regime is at
  graph,     \* the heartbeat's graph: none, built, or failed to build
  clock,     \* the day on the shared replay clock
  db,        \* rows of each regime's database, in order
  fills,     \* the broker.fill rows a caller's heartbeat wrote
  reports,   \* the regimes' reports in the output directory
  summary,   \* summary.md, and the regimes it is of
  captured,  \* history: regimes whose prices were recorded by a command
  missed     \* history: days of the regime its environment kept from running

vars == <<prices, skipFlag, at, mode, left, ran, want, day, graph, clock, db, fills, reports, summary, captured, missed>>
runVars == <<mode, left, ran, want, day, graph, clock>>
outVars == <<db, fills, reports, summary>>
history == <<captured, missed>>

NoReport == [rows |-> <<>>, missed |-> {}, done |-> FALSE]
NoSummary == [of |-> {}, metrics |-> <<>>]

Regime == left[1]

\* SELECT ... FROM decisions.
Decisions(rows) ==
  FoldLeft(LAMBDA decided, r : IF r.kind \in DOMAIN Row THEN Append(decided, Row[r.kind])
                               ELSE decided, <<>>, rows)

\* What the heartbeat of a day leaves in the tables: a graph interrupted before
\* hitl leaves nothing, and is not resumed.
Trace(kind, d) == IF kind = "escalated" THEN <<>> ELSE <<[kind |-> kind, day |-> d]>>

\* The price files are still to be recorded, or came with days of all regimes.
Init ==
  /\ \E given \in {{}, Regimes} : prices = [t \in Tickers |-> given]
  /\ skipFlag \in BOOLEAN
  /\ at = "idle"
  /\ mode = "replay"
  /\ left = <<>> /\ ran = <<>> /\ want = <<>>
  /\ day = 1
  /\ graph = "none"
  /\ clock = 1
  /\ db = [r \in Regimes |-> <<>>]
  /\ fills = <<>>
  /\ reports = [r \in Regimes |-> NoReport]
  /\ summary = NoSummary
  /\ captured = {} /\ missed = {}

-----------------------------------------------------------------------------
(* The command.                                                            *)

\* What the command works in holds nothing of an earlier one.
EmptyDirectory ==
  /\ db' = [r \in Regimes |-> <<>>]
  /\ fills' = <<>>
  /\ reports' = [r \in Regimes |-> NoReport]
  /\ summary' = NoSummary

\* eval_cmd: the output and database directories are emptied.
Start(list, m) ==
  /\ at = "idle"
  /\ at' = "prices"
  /\ mode' = m /\ left' = list /\ ran' = <<>>
  /\ want' = <<Spy>> \o Universe
  /\ EmptyDirectory
  /\ UNCHANGED <<prices, skipFlag, day, graph, clock, history>>

\* run_regime, called with a heartbeat and marks of its caller's, in a
\* directory of its caller's.
StartCaller(r) ==
  /\ at = "idle"
  /\ at' = "open"
  /\ mode' = "caller" /\ left' = <<r>> /\ ran' = <<>>
  /\ EmptyDirectory
  /\ UNCHANGED <<prices, skipFlag, want, day, graph, clock, history>>

\* The command raises, or is killed: what it wrote stays.
Abort ==
  /\ at' = "idle"
  /\ left' = <<>> /\ ran' = <<>> /\ want' = <<>>
  /\ day' = 1 /\ graph' = "none" /\ clock' = 1
  /\ UNCHANGED <<mode, outVars>>

Killed ==
  /\ at # "idle"
  /\ Abort
  /\ UNCHANGED <<prices, skipFlag, history>>

HasPrices(t) == Regime \in prices[t]

\* compute_spy_return, compute_basket_return: a return is computed from the
\* ticker's file, if it has days of the window; else ValueError.
ReadPrice ==
  /\ at = "prices" /\ want # <<>>
  /\ prices[want[1]] # {}
  /\ IF HasPrices(want[1])
       THEN want' = Tail(want) /\ UNCHANGED <<at, mode, left, ran, day, graph, clock, outVars>>
       ELSE Abort
  /\ UNCHANGED <<prices, skipFlag, history>>

\* REPLAY without the file raises PriceCassetteMissError.
PriceMissing ==
  /\ at = "prices" /\ want # <<>>
  /\ prices[want[1]] = {} /\ mode = "replay"
  /\ Abort
  /\ UNCHANGED <<prices, skipFlag, history>>

\* (mutant) recording fetches the window again and writes the file anew.
RecordAnew ==
  /\ at = "prices" /\ want # <<>>
  /\ mode = "record" /\ ~HasPrices(want[1])
  /\ prices' = [prices EXCEPT ![want[1]] = {Regime}]
  /\ UNCHANGED <<skipFlag, at, runVars, outVars, history>>

\* RECORD without the file: the regime's window is fetched and written; the
\* fetch may fail (Killed).
RecordPrice ==
  /\ at = "prices" /\ want # <<>>
  /\ prices[want[1]] = {} /\ mode = "record"
  /\ prices' = [prices EXCEPT ![want[1]] = {Regime}]
  /\ UNCHANGED <<skipFlag, at, runVars, outVars, history>>

\* All returns are there: make_eval_heartbeat.
PricesDone ==
  /\ at = "prices" /\ want = <<>>
  /\ at' = "open"
  /\ captured' = IF mode = "record" THEN captured \cup {Regime} ELSE captured
  /\ UNCHANGED <<prices, skipFlag, runVars, outVars, missed>>

\* run_regime: the database is deleted with its sidecars, and made again.
Open ==
  /\ at = "open"
  /\ at' = "day"
  /\ db' = [db EXCEPT ![Regime] = <<>>]
  /\ fills' = <<>>
  /\ day' = 1 /\ graph' = "none" /\ clock' = 1 /\ missed' = {}
  /\ UNCHANGED <<prices, skipFlag, mode, left, ran, want, reports, summary, captured>>

-----------------------------------------------------------------------------
(* The heartbeat of a day.                                                 *)

InDay == at = "day" /\ day <= Days /\ mode # "caller"

Wrote(rows) == db' = [db EXCEPT ![Regime] = @ \o rows]

\* _build_graph_once on the first day: _build_llm_stack makes any failure to
\* construct (a key, a model, the corpus; the vector store is only named) a
\* misconfiguration, skipped only if FIRM_EVAL_SKIP_MISCONFIG says so.
Build ==
  /\ InDay /\ graph = "none"
  /\ \/ /\ graph' = "built"
        /\ UNCHANGED <<at, mode, left, ran, want, day, clock, outVars, missed>>
     \/ /\ skipFlag
        /\ graph' = "failed"
        /\ Wrote(Trace("skipped", day))
        /\ day' = day + 1
        /\ missed' = 1..Days
        /\ UNCHANGED <<at, mode, left, ran, want, clock, fills, reports, summary>>
     \/ /\ ~skipFlag
        /\ Abort
        /\ UNCHANGED missed
  /\ UNCHANGED <<prices, skipFlag, captured>>

\* (mutant) a failed construction is tried again the next day.
SkipAndRetry ==
  /\ InDay /\ graph = "failed"
  /\ graph' = "none"
  /\ UNCHANGED <<prices, skipFlag, at, mode, left, ran, want, day, clock, outVars, history>>

\* build_failed: every later day is skipped, with a row of that day.
SkipDay ==
  /\ InDay /\ graph = "failed"
  /\ Wrote(Trace("skipped", day))
  /\ day' = day + 1
  /\ UNCHANGED <<prices, skipFlag, at, mode, left, ran, want, graph, clock, fills, reports, summary, history>>

\* boot_clock.set(day), and the graph on a thread of the day: its rows bear the
\* clock's day.  The fixtures determine how it ends; a live recording does not.
Invoke ==
  /\ InDay /\ graph = "built"
  /\ clock' = day
  /\ \E kind \in (IF mode = "record" THEN Kinds ELSE {Recorded[Regime][day]}) :
       Wrote(Trace(kind, clock'))
  /\ day' = day + 1
  /\ UNCHANGED <<prices, skipFlag, at, mode, left, ran, want, graph, fills, reports, summary, history>>

\* The store answers the day's search with an error (there is no collection, it
\* is still warming up): that day is skipped, and no other.  One that does not
\* answer raises (Killed).
Refused ==
  /\ InDay /\ graph = "built"
  /\ clock' = day
  /\ Wrote(Trace("skipped", day))
  /\ day' = day + 1
  /\ missed' = missed \cup {day}
  /\ UNCHANGED <<prices, skipFlag, at, mode, left, ran, want, graph, fills, reports, summary, captured>>

\* A caller's heartbeat: it writes its orders as broker.fill rows.
CallerDay ==
  /\ at = "day" /\ day <= Days /\ mode = "caller"
  /\ \E batch \in Batches :
       fills' = fills \o [i \in 1..Len(batch) |-> [batch[i] EXCEPT !.day = day]]
  /\ day' = day + 1
  /\ UNCHANGED <<prices, skipFlag, at, mode, left, ran, want, graph, clock, db, reports, summary, history>>

-----------------------------------------------------------------------------
(* The reports.                                                            *)

\* The metrics, and <regime_id>.md; perf raises on the fills it cannot match.
\* The production heartbeats write no fill.
Report ==
  /\ at = "day" /\ day > Days
  /\ IF mode = "caller" THEN Abort
     ELSE /\ reports' = [reports EXCEPT ![Regime] = [rows |-> db[Regime], missed |-> missed, done |-> TRUE]]
          /\ left' = Tail(left) /\ ran' = Append(ran, Regime)
          /\ at' = IF Len(left) = 1 THEN "summary" ELSE "prices"
          /\ want' = IF Len(left) = 1 THEN <<>> ELSE <<Spy>> \o Universe
          /\ UNCHANGED <<mode, day, graph, clock, db, fills, summary>>
  /\ UNCHANGED <<prices, skipFlag, history>>

MetricsOf(r) == Metrics(Decisions(reports[r].rows), <<>>, <<>>)

\* summary.md, from the reports of this command.
WriteSummary ==
  /\ at = "summary"
  /\ summary' = [of |-> ToSet(ran), metrics |-> Summary([i \in 1..Len(ran) |-> MetricsOf(ran[i])])]
  /\ at' = "idle"
  /\ left' = <<>> /\ ran' = <<>> /\ want' = <<>>
  /\ day' = 1 /\ graph' = "none" /\ clock' = 1
  /\ UNCHANGED <<prices, skipFlag, mode, db, fills, reports, history>>

Commands == {<<r>> : r \in Regimes} \cup {AllRegimes}

Step ==
  \/ ReadPrice \/ PriceMissing \/ RecordPrice \/ PricesDone \/ Open
  \/ Build \/ SkipDay \/ Invoke \/ Refused \/ CallerDay \/ Report \/ WriteSummary

Next ==
  \/ \E list \in Commands, m \in {"replay", "record"} : Start(list, m)
  \/ \E r \in Regimes : StartCaller(r)
  \/ Step \/ Killed

Spec == Init /\ [][Next]_vars

-----------------------------------------------------------------------------
(* Properties.                                                             *)

\* The values the variables take.
TypeOK ==
  /\ prices \in [Tickers -> SUBSET Regimes]
  /\ skipFlag \in BOOLEAN
  /\ at \in {"idle", "prices", "open", "day", "summary"}
  /\ mode \in {"replay", "record", "caller"}
  /\ left \in Seq(Regimes)
  /\ ran \in Seq(Regimes)
  /\ want \in Seq(Tickers)
  /\ day \in 1..Days + 1
  /\ graph \in {"none", "built", "failed"}
  /\ clock \in 1..Days
  /\ \A r \in Regimes : db[r] \in Seq([kind: Kinds, day: 1..Days])
  /\ captured \subseteq Regimes /\ missed \subseteq 1..Days

\* What the fixtures make of a regime of which some days could not run.
Expected(r, lost) ==
  FoldLeft(LAMBDA rows, d : rows \o Trace(IF d \in lost THEN "skipped" ELSE Recorded[r][d], d),
           <<>>, [d \in 1..Days |-> d])

\* The same fixtures and the same lost days give the same report: its rows are
\* what its own regime's fixtures make of each day, in order, but for the days
\* the environment took, each of which left its skipped row: the day of a search
\* the store refused, or all of them when the graph was not built.  Nothing of
\* another regime, mode or aborted run is among them, and a graph that failed
\* takes no later day back (the byte-identical re-runs of firm eval).
ReportIsItsRegimes ==
  mode = "replay" =>
    \A r \in Regimes : reports[r].done => reports[r].rows = Expected(r, reports[r].missed)

\* A summary stands beside the reports it is of and beside no other, and where
\* it says pass, every regime's decisions it adds up were good.
SummaryIsOfItsReports ==
  summary # NoSummary =>
    /\ summary.of = {r \in Regimes : reports[r].done}
    /\ \A m \in RatioMetrics :
         LET all == summary.metrics.ratio[m]
         IN  /\ all.status = "pass" => all.num = all.den
             /\ all.status = "fail" => all.num < all.den

\* What was captured once can be replayed ever after: no later capture, whole or
\* aborted, takes a regime's days out of a price file (_load_ticker_series).
CapturedReplays == \A r \in captured, t \in Tickers : r \in prices[t]

\* Twice the part of a fill's commission that its shares do not bear, at most: the
\* rounding of half an amount per share; no shares bear nothing.
Rounding(f) == IF f.shares = 0 THEN 2 * f.commission ELSE f.shares

\* The trades a report counts and the book it values are two views of the same
\* fills: where perf does not refuse them, cash spent and received is what the
\* closed trades made less what the open lots cost, up to the rounding of the
\* commissions per share and no more, and those lots are the position
\* (_fifo_closed_trades, _final_cash_and_positions).
BooksBalance ==
  LET t == Trades(fills)
      Sum(s) == FoldLeft(LAMBDA n, x : n + x, 0, s)
      gap == t.cash - Sum([i \in 1..Len(t.closed) |-> t.closed[i].pnl])
                    + Sum([i \in 1..Len(t.lots) |-> t.lots[i].shares * t.lots[i].cost])
      allowed == Sum([i \in 1..Len(fills) |-> Rounding(fills[i])])
  IN  ~PerfRaises(t, TRUE) =>
        /\ 2 * gap \in -allowed..allowed
        /\ t.held = Sum([i \in 1..Len(t.lots) |-> t.lots[i].shares])
=============================================================================
