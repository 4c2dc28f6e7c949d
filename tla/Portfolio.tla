----------------------------- MODULE Portfolio -----------------------------
(***************************************************************************)
(* The firm's book and the risk gate in front of it: `firm run` boots      *)
(* (seeds the local tables from the broker, reconciles them with it and    *)
(* rewrites them on a mismatch; firm/cli.py, firm/reconcile/boot.py), then *)
(* each heartbeat brings a proposed trade before evaluate_risk             *)
(* (firm/agents/risk.py) with the broker's book of that moment and the     *)
(* number of today's trades as the decisions table has it; a trade that    *)
(* passes is recorded and filled by FakeBroker, at a slippage and with a   *)
(* commission.  The process may die between any two steps.                 *)
(*                                                                         *)
(* FakeBroker keeps its book in memory and starts from a configured one at *)
(* each boot; its prices are fixed.  Escalations wait for a human and are  *)
(* not filled here (Heartbeat, HitlQueue); the order's own steps are those *)
(* of Outbox.  Amounts are integers: prices are multiples of 400000, which *)
(* keeps 5 basis points and half a per cent of them exact.                 *)
(***************************************************************************)
EXTENDS Integers, FiniteSetsExt

CONSTANTS
  Universe,        \* tickers of the universe
  Unknown,         \* the ticker "<unknown>" of a vote on a HOLD
  Price,           \* _deterministic_price of each ticker
  Sector,          \* sector_map; "unknown" for a ticker that is not in it
  Books,           \* books the broker may be configured to start with
  Lot,             \* shares of a proposal, for each ticker
  MaxTradesPerDay, MaxTradePct, MaxPositionPct, MinCashPct, MaxSectorPct,
  MaxGrossPct,     \* policy.limits, percentages
  TradeThresholdPct, \* policy.hitl.trade_threshold_pct
  MaxOrders        \* bound: orders of a run of the model

Tickers == Universe \cup {Unknown}
Amounts == [cash: Int, shares: [Tickers -> Int]]

Value(t, shares) == shares * Price[t]

\* Positions and cash at the quotes, which do not move.
Worth(b) == b.cash + MapThenSumSet(LAMBDA t : Value(t, b.shares[t]), Tickers)

ASSUME UniverseAssumption == IsFiniteSet(Universe)
ASSUME PriceAssumption == Price \in [Tickers -> Nat \ {0}] /\ Lot \in [Tickers -> Nat \ {0}]
ASSUME LimitsAssumption ==
  {MaxTradesPerDay, MaxTradePct, MaxPositionPct, MinCashPct, MaxSectorPct, MaxGrossPct,
   TradeThresholdPct, MaxOrders} \subseteq Nat
ASSUME BooksAssumption == Books \subseteq Amounts
\* The operator configures no debt and no position that is over its limit already.
ASSUME StartAssumption ==
  \A b \in Books :
    b.cash >= 0 /\ \A t \in Tickers : Value(t, b.shares[t]) * 100 <= MaxPositionPct * Worth(b)
\* 5 and 5: the buffer is at least a hundredth of the largest trade.
ASSUME BufferAssumption == MaxTradePct <= 100 * MinCashPct

VARIABLES
  at,          \* what the process does
  book,        \* the broker's book
  configured,  \* history: the book the broker started with at this boot
  local,       \* tables cash and positions; seeded: the cash row is there
  toSeed,      \* positions the seeding has still to insert
  rows,        \* BUY / SELL rows in table decisions created today, up to the limit
  proposal,    \* the trade before the risk gate, and what research decided
  verdict,     \* evaluate_risk's outcome in this heartbeat
  overnight,   \* midnight has passed since the order under way was recorded
  placed,      \* history: orders filled today
  late,        \* history: those of them that were recorded on an earlier day
  orders       \* history: orders filled at all

filledVars == <<placed, late, orders>>
dayVars == <<rows, overnight, filledVars>>
bootVars == <<configured, local, toSeed>>
vars == <<at, book, bootVars, dayVars, proposal, verdict>>

Booting == {"down", "seed", "seeding", "reconcile", "resolve"}
Running == {"idle", "risk", "persist", "submit", "report"}
Kinds == {"BUY", "SELL", "none"}
Breaches == {"stale", "max_trades", "trade_size", "position", "cash", "sector", "gross"}
Verdicts == {"none", "pass", "hitl_size", "hitl_new"} \cup Breaches

NoBook == [cash |-> 0, shares |-> [t \in Tickers |-> 0]]
NoProposal == [kind |-> "none", ticker |-> Unknown, researched |-> "none"]

Init ==
  /\ at = "down"
  /\ book = NoBook
  /\ configured = NoBook
  /\ local = [seeded |-> FALSE, tables |-> NoBook]
  /\ toSeed = {}
  /\ rows = 0
  /\ proposal = NoProposal
  /\ verdict = "none"
  /\ overnight = FALSE
  /\ placed = 0
  /\ late = 0
  /\ orders = 0

-----------------------------------------------------------------------------
(* Boot.                                                                   *)

\* make_broker: a FakeBroker with the configured book.
Boot ==
  /\ at = "down"
  /\ \E b \in Books : book' = b /\ configured' = b
  /\ at' = "seed"
  /\ UNCHANGED <<local, toSeed, dayVars, proposal, verdict>>

\* _seed_db_from_broker: nothing to do if there is a cash row; else the cash
\* row, and then the positions one autocommitted INSERT after the other.
SeedCash ==
  /\ at = "seed"
  /\ IF local.seeded
       THEN at' = "reconcile" /\ UNCHANGED <<local, toSeed>>
       ELSE /\ at' = "seeding"
            /\ local' = [seeded |-> TRUE, tables |-> [local.tables EXCEPT !.cash = book.cash]]
            /\ toSeed' = {t \in Tickers : book.shares[t] # 0}
  /\ UNCHANGED <<book, configured, dayVars, proposal, verdict>>

SeedPosition ==
  /\ at = "seeding"
  /\ IF toSeed = {}
       THEN at' = "reconcile" /\ UNCHANGED <<local, toSeed>>
       ELSE \E t \in toSeed :
              /\ LET shares == [local.tables.shares EXCEPT ![t] = book.shares[t]] IN
                   local' = [local EXCEPT !.tables = [@ EXCEPT !.shares = shares]]
              /\ toSeed' = toSeed \ {t}
              /\ UNCHANGED at
  /\ UNCHANGED <<book, configured, dayVars, proposal, verdict>>

\* (mutant) only the tickers the local table knows are compared.
DiffersInLocal ==
  \/ book.cash # local.tables.cash
  \/ \E t \in Tickers : local.tables.shares[t] # 0 /\ book.shares[t] # local.tables.shares[t]

\* A position or the cash is not what the broker says.
Differs ==
  \/ book.cash # local.tables.cash
  \/ \E t \in Tickers : book.shares[t] # local.tables.shares[t]

\* reconcile_on_boot, with its row in reconciliations.
Reconcile ==
  /\ at = "reconcile"
  /\ at' = IF Differs THEN "resolve" ELSE "idle"
  /\ UNCHANGED <<book, bootVars, dayVars, proposal, verdict>>

\* resolve_from_broker: one transaction.
Resolve ==
  /\ at = "resolve"
  /\ local' = [seeded |-> TRUE, tables |-> book]
  /\ at' = "idle"
  /\ UNCHANGED <<book, configured, toSeed, dayVars, proposal, verdict>>

\* The process dies: the book it held is gone, the tables are not.
Crash ==
  /\ at # "down"
  /\ at' = "down"
  /\ book' = NoBook
  /\ configured' = NoBook
  /\ toSeed' = {}
  /\ proposal' = NoProposal
  /\ verdict' = "none"
  /\ overnight' = FALSE
  /\ UNCHANGED <<local, rows, filledVars>>

-----------------------------------------------------------------------------
(* The risk gate.                                                          *)

\* nav: at the broker's quotes of this moment.
Nav == Worth(book)

\* value / nav > pct.
Exceeds(value, pct) == value * 100 > pct * Nav

\* The position of the proposal's ticker once it is filled.
NewShares(p) ==
  IF p.kind = "BUY" THEN book.shares[p.ticker] + Lot[p.ticker]
                    ELSE book.shares[p.ticker] - Lot[p.ticker]

\* (mutant) the position as it is.
PositionBreachedNow(p) == Exceeds(Value(p.ticker, book.shares[p.ticker]), MaxPositionPct)

PositionBreached(p) == Exceeds(Value(p.ticker, NewShares(p)), MaxPositionPct)

\* (mutant) the buffer before the trade.
CashBreachedBefore(p) == p.kind = "BUY" /\ book.cash * 100 < MinCashPct * Nav

\* Only a BUY is held against the buffer, at the quoted price.
CashBreached(p) ==
  p.kind = "BUY" /\ (book.cash - Value(p.ticker, Lot[p.ticker])) * 100 < MinCashPct * Nav

\* Every position of the sector, at the price of the ticker traded; a SELL is
\* not taken off.  A ticker outside the universe has no sector_map entry.
SectorBreached(p) ==
  LET peers == {t \in Universe : Sector[t] = Sector[p.ticker]}
      held == MapThenSumSet(LAMBDA t : book.shares[t], peers)
      bought == IF p.kind = "BUY" THEN Lot[p.ticker] ELSE 0
  IN Exceeds(Value(p.ticker, held + bought), MaxSectorPct)

Abs(n) == IF n < 0 THEN -n ELSE n

\* Every position, long or short, at the price of the ticker traded.
GrossBreached(p) ==
  LET after == [book.shares EXCEPT ![p.ticker] = NewShares(p)]
  IN Exceeds(Value(p.ticker, MapThenSumSet(LAMBDA t : Abs(after[t]), Tickers)), MaxGrossPct)

TradeValue(p) == Value(p.ticker, Lot[p.ticker])

\* evaluate_risk: the first check that fires; the daily loss is always 0.
Verdict(p, stale) ==
  IF stale THEN "stale"
  ELSE IF rows >= MaxTradesPerDay THEN "max_trades"
  ELSE IF Exceeds(TradeValue(p), MaxTradePct) THEN "trade_size"
  ELSE IF PositionBreached(p) THEN "position"
  ELSE IF CashBreached(p) THEN "cash"
  ELSE IF SectorBreached(p) THEN "sector"
  ELSE IF GrossBreached(p) THEN "gross"
  ELSE IF Exceeds(TradeValue(p), TradeThresholdPct) THEN "hitl_size"
  ELSE IF p.kind = "BUY" /\ book.shares[p.ticker] = 0 THEN "hitl_new"
  ELSE "pass"

-----------------------------------------------------------------------------
(* A heartbeat.                                                            *)

\* Research proposes to buy a ticker of the universe, holds or stops; the
\* committee's vote keeps, turns round or drops the proposal.  A vote on a
\* HOLD trades the ticker "<unknown>".  (When the committee or research escalates,
\* the graph is interrupted and nothing is recorded: the book does not change.)
Propose ==
  /\ at = "idle"
  /\ orders < MaxOrders
  /\ \E t \in Tickers, kind \in Kinds :
       /\ proposal' = [kind |-> kind, ticker |-> t,
                       researched |-> IF t = Unknown THEN "none" ELSE "BUY"]
       /\ at' = IF kind = "none" THEN "report" ELSE "risk"
  /\ UNCHANGED <<book, bootVars, dayVars, verdict>>

\* risk_node: an escalation interrupts the graph, a refusal is reported.  Data
\* is stale whatever the book: a quote's or a filing's age.
Risk ==
  /\ at = "risk"
  /\ \E stale \in BOOLEAN : verdict' = Verdict(proposal, stale)
  /\ at' = CASE verdict' = "pass" -> "persist"
             [] verdict' \in {"hitl_size", "hitl_new"} -> "idle"
             [] OTHER -> "report"
  /\ UNCHANGED <<book, bootVars, dayVars, proposal>>

\* n more rows today; the gate does not tell counts above the limit apart.
Counted(n) == IF rows + n < MaxTradesPerDay THEN rows + n ELSE MaxTradesPerDay

\* (mutant) the decision is recorded with the others, after the order.
PersistLater ==
  /\ at = "persist"
  /\ at' = "submit"
  /\ UNCHANGED <<book, bootVars, dayVars, proposal, verdict>>

\* The execution agent records the decision, created at the time of this step,
\* before it places the order.
Persist ==
  /\ at = "persist"
  /\ rows' = Counted(1)
  /\ at' = "submit"
  /\ UNCHANGED <<book, bootVars, overnight, filledVars, proposal, verdict>>

\* What a share costs or brings: 5 basis points of slippage.
FillPrice(p) ==
  IF p.kind = "BUY" THEN Price[p.ticker] + Price[p.ticker] \div 2000
                    ELSE Price[p.ticker] - Price[p.ticker] \div 2000

\* FakeBroker.submit: the fill, and half a per cent of it as commission.
Submit ==
  LET gross == FillPrice(proposal) * Lot[proposal.ticker]
      commission == gross \div 200
  IN
  /\ at = "submit"
  /\ book' = [cash |-> IF proposal.kind = "BUY" THEN book.cash - (gross + commission)
                                                ELSE book.cash + (gross - commission),
              shares |-> [book.shares EXCEPT ![proposal.ticker] = NewShares(proposal)]]
  /\ placed' = placed + 1
  /\ late' = IF overnight THEN late + 1 ELSE late
  /\ overnight' = FALSE
  /\ orders' = orders + 1
  /\ at' = "report"
  /\ UNCHANGED <<bootVars, rows, proposal, verdict>>

\* The BUY and SELL rows the reporter has to write: what research and the
\* committee decided; the decision executed is there already (INSERT OR IGNORE).
ToReport ==
  (IF proposal.researched = "BUY" THEN 1 ELSE 0) + (IF proposal.kind # "none" THEN 1 ELSE 0)

\* The heartbeat is over, with what it has done to the book.
Over ==
  /\ at' = "idle"
  /\ proposal' = NoProposal
  /\ verdict' = "none"
  /\ overnight' = FALSE
  /\ UNCHANGED <<book, bootVars, filledVars>>

\* The reporter records them one by one, all or, when it or what follows the fill
\* raises, some.
Report ==
  /\ at = "report"
  /\ \E n \in 0..ToReport : rows' = Counted(n)
  /\ Over

\* A node raises before it has recorded or ordered anything; the loop goes on.
Raise ==
  /\ at \in {"risk", "persist", "submit"}
  /\ Over
  /\ UNCHANGED rows

\* Midnight (UTC), at any time: the count begins anew, without the row of an order
\* that is recorded and not yet filled.
NewDay ==
  /\ rows' = 0
  /\ placed' = 0
  /\ late' = 0
  /\ overnight' = (at = "submit")
  /\ UNCHANGED <<at, book, bootVars, orders, proposal, verdict>>

-----------------------------------------------------------------------------

Next ==
  \/ Boot \/ SeedCash \/ SeedPosition \/ Reconcile \/ Resolve
  \/ Propose \/ Risk \/ Persist \/ Submit \/ Report \/ Raise
  \/ Crash
  \/ NewDay

Spec == Init /\ [][Next]_vars

-----------------------------------------------------------------------------
(* Properties.                                                             *)

\* The values the book, the tables and the heartbeat range over.
TypeOK ==
  /\ at \in Booting \cup Running
  /\ book \in Amounts
  /\ configured \in Amounts
  /\ local \in [seeded: BOOLEAN, tables: Amounts]
  /\ toSeed \subseteq {t \in Tickers : book.shares[t] # 0}
  /\ rows \in 0..MaxTradesPerDay
  /\ proposal \in [kind: Kinds, ticker: Tickers, researched: {"none", "BUY"}]
  /\ verdict \in Verdicts
  /\ overnight \in BOOLEAN
  /\ placed \in 0..MaxOrders
  /\ late \in 0..MaxOrders
  /\ orders \in 0..MaxOrders

\* When heartbeats begin, the local tables are the broker's book of that boot,
\* even if an earlier boot died half way through seeding them or the broker was
\* configured otherwise then: the cash row alone keeps a later boot from seeding
\* again, so it is the reconciliation that has to find what is missing.
BootSynced == at \in Running => local.seeded /\ local.tables = configured

\* No more orders in a day than the policy allows, although the gate only counts
\* rows and processes die between an order and its report; and no more than one
\* beyond that, on a day that began between an order's record and its fill, as
\* the order's row is in the count of the day before.
TradesPerDay == placed <= MaxTradesPerDay + late /\ late <= 1

\* The firm never spends cash it does not have: the buffer, which is checked at
\* the quoted price, has room for the slippage and the commission of the fill.
NeverOverdrawn == at \in Running => book.cash >= 0

\* No sequence of trades, with the fees they cost and the prices the other
\* checks work with, takes a position over its share of the book the process
\* started with.
PositionBounded ==
  at \in Running =>
    \A t \in Tickers : Value(t, book.shares[t]) * 100 <= MaxPositionPct * Worth(configured)

\* What risk.py says of the book: it is long-only, there are no shorts.
LongOnly == \A t \in Tickers : book.shares[t] >= 0
=============================================================================
