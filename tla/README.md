# Formal models of the AI investment firm

TLA+ specifications of the firm in this repository, the TLC configurations that
check them on small instances and proofs, for every instance, of the safety of the
outbox, the human gate, the graph and its loop, the book, the LLM router, the committee,
ingestion with retrieval, and the evaluation.  Paths are relative to the repository's root (`firm/...`, `docs/...`).

    tlc -workers 2 -config MCOutbox.cfg MCOutbox        # any other run likewise
    tlapm OutboxProofs.tla                              # HitlProofs, HeartbeatProofs, PortfolioProofs,
                                                    # RouterProofs, CommitteeProofs,
                                                    # RetrievalProofs, EvaluationProofs

## The system

One process, `firm run`, works in *heartbeats*.  A heartbeat is one run of a graph
of agents - monitor, research, portfolio committee (pm), risk, hitl (a human),
execution, reporter - over a working state that a checkpointer saves after each
node.  Everything durable is in one SQLite file (`firm/db/schema.sql`), every
statement of which is autocommitted unless a transaction is opened explicitly.
Next to that process run the command line (`firm ack`, `firm reject`) and the Slack
endpoint, on the same file, and `firm ingest`, which fills the vector store that
research searches.

| Component | State it keeps | Operations | What makes it hard | What makes it correct |
|---|---|---|---|---|
| Execution and outbox (`agents/execution.py`, `outbox/outbox.py`) | tables `decisions`, `outbox` | persist the decision, record the intent, submit up to 3 times, confirm; refuse; `recover_pending` | a call may raise and have worked; crashes between statements; two processes on a row | one order per decision, behind a durable intent; a confirmed row is true and final |
| Brokers (`broker/`) | book, orders by idempotency key | submit, quotes, positions, cash; `RestrictedBroker` denies | late requests, lost memory, asynchronous fills | a key fills once |
| Human gate (`agents/hitl.py`) | table `hitl_queue`, audit events | the hitl node, `mark_approved`, `mark_rejected`, the reaper | three processes on one row, statement by statement; deadlines; repeated nodes | the first answer stands, everyone acts on it, everything gets an end |
| Slack (`hitl/notify.py`, `slack.py`, `signing.py`) | signed buttons, two keys with a grace window | post a prompt, accept a click, rotate keys | expiry against deadline; firm and endpoint rotate one after the other | only fresh prompts count, and those do across a rotation |
| Graph and checkpoints (`orchestrator/`, `cli.py`) | a thread per heartbeat: state and next node | begin or resume, nodes, interrupt before hitl | crashes, checkpoints that lag, threads reused under a fixed clock | what is ordered was checked or approved; nothing waits and is lost |
| Run loop (`cli.py`) | failure signature and count, stop flag | heartbeat, breaker, sleep, signal handler | signals at any point | breaker exact, stop prompt |
| Boot (`cli.py`, `reconcile/boot.py`) | tables `cash`, `positions`, `reconciliations` | seed, reconcile, rewrite | a boot that dies half way | the tables are the broker's book |
| Risk gate (`agents/risk.py`, `cli.py`) | none; reads the book and the day's rows | `evaluate_risk` | sequences of legal trades; rounding and fees; stale counts | limits hold of the book, not only of each trade |
| Committee (`agents/pm.py`) | `pm_votes` | three parallel votes, aggregation, refusals | one voter fails while others run | a trade needs a majority of valid votes |
| Research (`agents/research.py`, `grounding/`, `llm/citations.py`) | claims, chunks, sufficiency | rotate the ticker, retrieve, extract, check citations, judge | each stage fails in its own way; a judge that answers too little | no ungrounded claim becomes a proposal |
| LLM router, client, cache, ledger (`llm/`, `db/cost_ledger.py`) | cache, ledger rows | fallback ladder, cached / live / record modes | parallel voters; failure after a paid call | one ledger row per paid success |
| Ingestion and retrieval (`rag/`) | vector store, `ingest_runs`, token bucket | ingest by document, start again, search twice as of a date, fuse, rerank | several commands at once, deaths at any step, an ingest between two searches | success is true, everything gets in, the past sees the past and all of it |
| Reporter, audit log, tracer, dashboard, reports | decision rows, audit rows, files | append, project | repeated nodes | rows once |
| Evaluation (`eval/`, `cli.py`) | price files, a database and a report per regime, a summary | record or read prices, a heartbeat per day, metrics, summary | commands killed half-way, files that outlive them, a vector store that refuses some days | reports are of their own regime, captures stay, trades agree with cash |
| Operations, AgentCore adapter | files | health checks, restore drill | none of the above kinds | - |

How they interact: risk, pm and research hand `Decision`s over in the working state;
`risk_decision` decides whether the graph is interrupted before hitl; hitl and the
answers meet in `hitl_queue`; execution reaches the broker only through the outbox;
the risk gate reads the broker's book and counts the day's rows of `decisions`,
which execution and the reporter write.  `PROJECT.json` lists every component with
its status, and under "hazards" each thing in the code that is hard to test, with
the property that would show it going wrong.

## Modules

**OrderOnce** is what the outbox promises: each order is intended, filled once,
acknowledged, in that order.  No database, no processes.

**Outbox** is the code's way to keep that promise.  `decided`, `refused`, `status`,
`result` are the tables; `orders`, `issued` the broker; `delayed` the requests that
are still on the network; `proc[p]` the program counter and locals of a process
(`attempts` is the loop variable, `todo` the list `recover_pending` has read).
`Execute`, `InsertRow`, `Answered` / `AttemptRaises` / `Denied`, `Confirm`,
`PersistRefuse` are the statements of the execution node and of
`place_order_via_outbox` in their order; `RecoverStart` .. `RecoverRaises` those of
`recover_pending`.  `MayBeOnItsWay` gives a raising or dying call both outcomes.  An
exception in the UPDATE of `Confirm` leaves what a crash there and a boot leave.
Outbox models a broker that keeps its book: the real one, or FakeBroker within one
life of its process.

**Escalation** is what the human gate promises: an escalation is on record before it is in
the queue, one answer is given to it, by a human who may be ahead of the question, and it
is released only while that answer is an approval.

**HitlQueue** is the human gate: one action per SQL statement of the hitl node
(`HitlEnter`, `HitlInsert`, `HitlSelect`, `HitlAudit`, then `HitlSign` and `HitlNotify` for
the prompt, `HitlNotifyFailed`, `HitlReturn`), of the reaper (`ReapStart`, `ReapOne`) and of
an answer (`Begin`, `ApproveInsert`, `Update`, `AuditAndReply`), which the command line and
the Slack endpoint carry out concurrently.  `HitlNotify` may raise after Slack has posted
the prompt as well as before; retries inside the slack_sdk client are its own matter.  A
prompt's button keeps the key it was signed with, the endpoint's key at that moment and
its age; `Verified` is `verify_with_rotation`.  Each age is counted until it has passed the
limit it is compared with, and time may pass between any two statements: a write waits for
SQLite's lock, so an INSERT that queues a row may come some time (`waited`) after the clock
was read for it.  `HitlEnter` is enabled whenever the node may be run; who gets there, and
when, is Heartbeat's matter.

**Heartbeat** composes the rest of the process: boots, heartbeats on threads,
the graph node by node, the interrupt, resumption, exceptions, crashes; and the
operator's answers.  The queue appears with one step per node or command, as Escalation
has them (its statements are HitlQueue's, which implements it), the order with the stages of OrderOnce, which Outbox
implements.  The checkpointer is a library: `saved` is what it has written, `Save`
lets it catch up at any time, and an invocation that ends (returns, is interrupted or
raises) has written everything.  Both clocks are modelled: under `WallClock` each
heartbeat's thread is new, under `ReplayClock` a restarted process meets the threads
of an earlier one.

**HeartbeatLoop** is `_run_heartbeat_loop`: `While`, the outcome of a heartbeat,
the breaker, the sleep in ticks, and `Signal` between any two steps.  Its names have
the prefix Loop where Heartbeat has the same one, so that one module can reason about both.

**Portfolio** is the book: the boot (`Boot`, `SeedCash`, `SeedPosition`, `Reconcile`,
`Resolve`), proposals, `Verdict` (`evaluate_risk` in the order of its checks, in
integers), `Persist` and `Submit` (the fill with its slippage and commission),
`Report`, nodes that raise (`Raise`, and `Report` cut short, as the fill's
confirmation or the reporter may), crashes and midnight, which may come between any two
steps.  `rows` is what `_count_trades_today` would return.
The broker is FakeBroker with fixed prices, which refuses nothing; an escalated trade is
not filled; the daily loss never fires because the code computes it as 0.

**LlmCall** is what one call of a language model promises the agent that makes it:
one result, an answer to a leading part of the documents it was given or a failure;
an answer is booked once, under the decision the call was made for.

**Router** is the code's way to keep that promise: `call_with_fallback`
(`llm/router.py`) over `messages_create` (`llm/anthropic_client.py`), the cache
(`llm/cache.py`) and `cost_ledger`.  `task[c]` is what a thread has in flight: its
rung of the ladder, whether it has dropped documents, what it got.  `Lookup`,
`ApiAnswers`, `Put`, `Book` are the statements of an attempt, `NextAttempt` the two
loops (the same documents, the leading half, then the rungs below), `AttemptFails` and
`BookFails` the exceptions that stay in the loop and those that leave it.  A profile
stands for its model, a `Key` for the hash and the model; max_tokens and temperature are
in neither, so they are left out.  `Restart` may change `FIRM_LLM_MODE`, which is how
a recording comes to be replayed.

**Committee** is the pipeline that makes a proposal: research with its extractor
(one or two calls), citation check and judge, and the committee's three voters, each a
thread with a call in flight, under one `asyncio.gather`.  `Retrieve` may raise, and binds the adapters of extractor and judge to the decision to
come, `OpenVote` that of the voters; `bound` keeps each binding until the next one, across
heartbeats of a process, and what an adapter sends bears it (`Request`).  Calls are LlmCall's
actions (`LLM!Ask`, `LLM!Answer`, `LLM!Fail`, `LLM!Take`), so Router's cache, ladder and
modes need not appear; what the model says is any reply its reader distinguishes.
`raised` is the exception `gather` raises, that of the first voter to fail; voters that
have not begun are cancelled, and `asyncio.run` joins the others (`Joined`) before the
node goes on.  That is Python 3.11's event loop, which the Dockerfile fixes; from 3.12
on the join gives up after 300 seconds.  A claim remembers which chunk the extractor
gives it (`chunk`) and which the model had read (`read`).

**Ingest** is `firm ingest`, several commands at a time: the collection, the
pre-pass that fits the sparse vocabulary, and `IngestRunner.run` over each source
with its row in `ingest_runs`.  `NextDoc`, `Upsert`, `Bump` are the steps of its loop,
`Raises` the exceptions its handler turns into a failed row, `Dies` those that end the
process.  A document stands for its chunks (their ids depend on nothing else, and one
call upserts them all) and a vocabulary for the set of documents it was fitted on.

**Retrieval** puts a heartbeat's question beside it: a dense search, a sparse search,
both filtered by publication time, `Fuse` (reciprocal rank fusion, in fractions) and
the reranker.  Between the two searches a command may add documents.  How similar a
document is to the question is the store's and the models' business: the dense search
returns as many as it may in any order, the sparse one any choice, the reranker any
choice of the candidates.  Each of the three calls may raise (`RetrieveRaises`).

**EvalMetrics** is what the evaluation computes: closed trades by first-in-first-out
matching, cash and positions, the ratio metrics with their verdicts, the summary of
several regimes.  Amounts are integers; the commission per share, which the code divides to
the 28 digits of its Decimals, is the nearest integer here (`PerShare`), so that the rounding
is visible.  Of the metrics that are means the summary keeps the status only, of the
returns nothing.

**Evaluation** is `firm eval` around it: a command empties its directories, reads or
records the price files, and gives each regime a new database, its days on the shared
replay clock, and a report; `left` and `ran` are the regimes it has ahead and those it
has a report of, `Killed` may happen at every step.  `Recorded` says how the
fixtures let a day end (a decision, a skipped day, an escalation, which leaves no
row).  `Build` makes the graph on the first day, or fails for all days; `Refused` is a day
whose search the vector store answers with an error, which is skipped alone (the store is
only named when the graph is built), and `missed` the days lost in either way.  `CallerDay` is `run_regime` with a heartbeat of its caller's, as the tests call
it: no production code writes `broker.fill` rows, so only a caller has trades to match.

`MC*` modules give constants their values; definitions whose comment begins with
"(mutant)" are wrong versions of the definition that follows, kept to show that
the properties notice.

## Runs

| Run | Question | Bounds, and why they are enough |
|---|---|---|
| `outbox` | exactly once, write-ahead, confirmed rows true and final, implements OrderOnce (which has one order per key) | 2 decisions, 3 processes (one denied by the capability layer), 2 attempts: two processes can meet on one row while each holds requests on their way; a third attempt repeats the second.  Symmetric in decisions and in the two equal processes. |
| `outbox_retried` (fails) | does the next heartbeat retry a pending order | 1 process, fair heartbeats and a broker that answers when called again and again |
| `hitl` | first answer wins, audit true, release only on approval, one prompt, deadlines, rotation, and every escalation ends | 1 escalation (rows do not interact), both actors, deadline, signature and grace window 1 each (what is compared with a limit is below it, at it or, for signature and window, past it), 1 rotation; the proofs have any number of escalations and rotations and any limits with signature <= grace, the only order that matters |
| `heartbeat` | only checked or approved orders, nothing waiting is overwritten, gates leave no leftovers | both clocks, 2 decision ids, 2 heartbeats per process, 3 readings of the clock, any number of restarts: two decisions on one reused thread, or an escalation and its successor |
| `heartbeat_resume` (fails) | does the next tick resume an interrupt | wall clock, 1 id, 2 heartbeats |
| `heartbeat_loop` | breaker exact, stop prompt | 6 heartbeats (twice the threshold of 3), 2 kinds of failure, an interval of 2 ticks |
| `portfolio` | tables match the broker, trades per day, never overdrawn, positions bounded | 2 configured books, 3 tickers in 2 sectors and the unknown one, 4 trades a day, 7 orders: every outcome of `evaluate_risk` is reached, midnight comes between any two steps; the limits are ordered as in `config/policy.yaml` (a position below its sector, both below the gross exposure) |
| `portfolio_short` (fails) | long-only | as `portfolio` |
| `router` | answers fit their attempts, recordings replay, implements LlmCall, calls return | 2 threads, 3 calls, one prompt with 3 documents (truncation leaves 2), the chain of `config/router.yaml` under its two profiles (the ladders repeat a name at once, and at their end; one that repeats none is left to the proof), all modes: two threads record one key at once, and what they recorded is replayed by a third call in another mode |
| `committee` | trades are backed, claims quote what was read, rows name their decision, no voter outlives its heartbeat, every heartbeat ends | 3 voters, at most 2 chunks (truncation drops one), a set of labels for each status, 2 heartbeats: a call left over by the first could be booked in the second |
| `ingest` | success is true, rows do not overclaim, the past sees the past, fusion puts agreement first, everything gets in | 2 commands, each of which may select everything or only the first document of a source; 3 sources, one not configured; 4 documents, one of them empty, one newer than the question's day and one listed twice; 1 failure or death; 2 candidates and 1 answer per search, so that both lists are cut; a row written by one command is read while the other is in any step |
| `evaluation` | reports are of their own regime, the summary is of its reports, captures replay, the books balance | 2 regimes of 2 days, which end in each of the four ways, any of which the store may refuse, the benchmark and 1 ticker; a caller's heartbeat writes up to 2 fills a day of 5 kinds, with commissions that do and do not divide: a sell that takes one lot and part of the next, one that leaves lots open, one with no lot and one of no shares are all reached |

`CHECK_DEADLOCK FALSE` is said of `heartbeat_loop`, because the loop ends (and `MaxHeartbeats`
bounds it), of `outbox_retried`, whose heartbeats run out of decisions, and of `router`
and `committee`, whose calls and heartbeats run out.  The
other models never stop: a process that ends is started again.

### What the failing runs show

Three runs check what a document, a comment or a docstring says and find the code
doing something else; "findings" in `PROJECT.json` quotes both.

- *outbox_retried*: nothing calls `recover_pending`; an order that exhausted its
  attempts stays pending for good.
- *heartbeat_resume*: the thread's name holds the clock's reading, so with the wall
  clock the interrupt before hitl is never resumed.
- *portfolio_short*: a SELL is not held against the shares there are.

Met while modelling, and visible in the models, but not a run of their own:

- The reaper refuses an escalation and leaves its row pending (`agents/hitl.py:163`
  says so on purpose, `docs/technical-overview.md:15` speaks of closing it): it can be
  approved later, and every sweep refuses it again.
- Where a thread is resumed (a fixed clock), the hitl node reads the queue once, as the
  row is created; an approval that comes later is never executed, while `README.md:100`
  has the workflow resume from that point.
- `PayloadFor`: research that holds for want of claims has no ticker; a committee that
  outvotes it trades one share of `"<unknown>"`, although `_payload_for` speaks of the
  same ticker and shares.  Nothing behind it refuses that ticker: the gate knows no
  universe, a BUY of it is escalated as a new ticker, a SELL is filled by FakeBroker
  (Portfolio has both).
- `AggregateStatus`: a judge that labels no claim at all has the status "ok".
- `Key`: an answer recorded after a fall-back is stored under the model that gave it;
  a replay asks for the first model and raises, although
  `docs/technical-overview.md:53` promises the same bytes whichever model was picked.
  `RecordingReplays` therefore speaks of answers to a first attempt.
- `Report`: the reporter's rows of research, committee and risk all bear the proposal's
  action, so one trade counts several times in `_count_trades_today`
  (`firm/cli.py:127`), whose comment (`:118`) warns of counting other rows.
- `Create`: two commands that both find no collection both create it; the second ends
  there.  `Upsert`: two commands that index the same document at once store it twice,
  the second time in the second one's vocabulary.  As a vocabulary comes from the
  documents of one command (`firm/cli.py:995`), a store filled by several has points of
  several, and the query's is fitted on FinanceBench alone (`:168`), also on documents
  published after the heartbeat's day.
- `NextDoc`: a command that starts again skips what is there without counting it, so its
  completed row shows fewer documents than its total, and an empty document that is
  listed twice counts twice.  One document that cannot be read ends its source's run,
  or, in the pre-pass, the command.
- `RecordPrice`: a ticker's file is recorded with the days of one regime; the next
  regime of the same command finds a file without its days, so a capture of several
  regimes ends at the second (`ReadPrice`).
- `Refused`: the vector store decides, day by day, what a replay reports.  The graph is
  built without it (`firm/cli.py:846`, `firm/rag/qdrant_store.py:92` keep a client), a
  missing collection shows at a day's search and costs that day its row alone, so that an
  ingest which ends in the middle of a regime leaves a report of skipped and of run days;
  `firm/eval/heartbeat.py:350` and `firm/cli.py:1292` promise the same bytes when
  dependencies come and go.  ReportIsItsRegimes says what is true: the days so lost
  determine the report.
- `NewDay`: an order recorded before midnight and filled after it is in the count of the day
  before, so the next day may have one order more than the limit (TradesPerDay).
- `Begin`: `decided_at` is read before a statement that may wait for the write lock, in
  `mark_approved` and `mark_rejected` alike, hence for the command line and Slack: a row may
  say it was answered before a sweep that had refused it.  AnsweredInTimeNotRefused speaks of
  the moment of the UPDATE.
- `Verified`: a prompt signed by a firm that is still on the old key, when the endpoint's
  grace window has less to go than a signature lasts, may be refused while it is fresh;
  FreshPromptAccepted says of which prompts this is not so.
- `HitlNotify`: a prompt that Slack posted although the call raised can be answered, but
  the audit log says it was not delivered; nothing posts it again.
- `RecordPrice`: the parquet file is written in place (`firm/eval/benchmarks.py:125`).
  Killed in the middle of that write a capture leaves a file no replay can read, which is not
  modelled: the file is all there or not at all.
- `Trace`: a day that is escalated leaves no row, and no metric counts it.
- `Summary`: of a metric that is a mean the summary shows the mean over the regimes
  beside the strictest of their statuses, so a value above its threshold may say "fail".

## Fairness

Safety needs none, and the refinements promise safety only.  Liveness:

- `hitl`: time passes (weak fairness of `Tick`), a node that was run finishes or crashes
  (weak fairness of `HitlRest`), heartbeats keep coming, each of which begins with the
  reaper, and crashes are not so well timed that every sweep dies: strong fairness of
  `ReapStart` and `ReapOne`, as a node at work and crashes disable them again and again.
  The loop restarts under its supervisor (`docker compose`, `--loop`), which justifies it.
  Nothing is asked of whoever answers.
- `router`: a thread inside a call goes on, because every wait there has a time-out
  (the SDK's, SQLite's busy timeout).
- `committee`: calls return, which is what `router` shows, and runnable threads are
  scheduled (weak fairness of the heartbeat's steps together).
- `ingest`: a command takes its next step unless it dies, and the operator does not
  ingest parts only: a command line that selects everything is given again and again
  (strong fairness, as other commands come between).  Failures are bounded
  by `MaxFaults`, which says that they stop.

The failing liveness run `outbox_retried` assumes more than the code guarantees (processes
restarted, a broker that answers in the end), so that it does not fail merely because
something stopped: `HeartbeatSpec`.

## Proofs

`OutboxProofs` proves, for every set of decisions, every set of processes (any of them
restricted) and every bound on attempts, that the outbox has the safety properties
the run `outbox` checks and
that it implements OrderOnce.  Assumptions: the three
ASSUMEs of Outbox (restricted processes are processes, at least one attempt, None is
something else).

None of the properties is inductive.  That a confirmed row is true needs that a process
about to confirm holds the id of an order under its decision's key; that an order
has an intent needs that whoever may call the broker - a process in the submit step,
a list `recover_pending` read, a delayed request - has a row behind it, and that rows
have decisions.  `OutboxInv` is the conjunction of the type invariant, the properties,
`ProcInv` (what a process may rely on in each step) and `RowInv`.  It is preserved by
each action (`NextInv`, one lemma per group of actions); `TakesOnce` says what a
request reaching the broker does, `ProcInvStep` that a step which only adds to the
tables disturbs no other process.  `StepRefines` maps every step to a step of the
promise or a stutter: an insert is `Intend`, an answer or a late arrival `Fill`, an
update `Acknowledge`.

`HitlProofs` proves, for every set of escalations, every deadline and every signature age
within the grace window, that the first answer stands (FirstAnswerWins), that the audit log
and the node tell no other (AuditTrue, ReleasedWasApproved), and that whoever was answered
in time is not refused (AnsweredInTimeNotRefused).  The last one is where an invariant is
needed most: the reaper's list is older than the rows it refuses, so `NodeInv` remembers
that every row on it was overdue when it was read and `RowInv` that every refused one was;
as ages only grow, an answer written now is then either late or to a row that is on no list
and that nobody has refused (`InTimeInv`).

OnePrompt rests on the row that the node's own INSERT made (`OnceInv`): what is about
to be posted has a row and has not been posted, and as no row is ever taken back, no
later traversal makes it again.

ImplementsGate says that HitlQueue implements Escalation (ImplementsEscalation): the node's
INSERT is `Ask`, either statement of an approval `Approve`, the UPDATE of a rejection
`Reject`, the node's return `Release`, and all else a stutter.  A release needs `NodeInv`
once more (what the node read some statements ago still stands), and that whatever has a
row is on record needs the foreign key (`RecordedInv`).

FreshPromptAccepted, that a fresh prompt is verified while the endpoint has its key or the
one after it, is proved for any number of rotations.  `KeyOK` remembers what the endpoint had
when a prompt was signed: if it had the prompt's key then, it has rotated since for no
longer than the prompt is old, and a signature expires before the grace window does (an
ASSUME of HitlQueue); if it had the next key already, its window runs on from where
it was.

`PortfolioProofs` proves, for every universe, book, price and limit, that the tables
are the broker's book when heartbeats begin (BootSynced) and that no day has more
orders than the policy allows, but for one that midnight overtook (TradesPerDay).  `BootInv` says what each stage of the
boot has reached (the cash row from "seeding" on, nobody trades before "idle"), `DayInv`
that rows run ahead of orders: one is written before each order, so the gate's count
is never too low, even when the process dies in between.  The exception is an order on its
way at midnight (`overnight`), whose row is of the day before: it is the first of its day
(`late`), and there is one at most, as one trade is on its way at a time.

The limits of the book, NeverOverdrawn and PositionBounded, are proved from `LimitInv`:
what the gate found of a trade (`GateInv`) is still true of the book it is filled from,
as nothing else trades in between; and no fill makes a book worth more (`BookInv`), so
that a position within its share of a later book is within its share of the first.
`WorthMoves` says that a change of one position moves the sum over all of them by that
position's value: `SumsAre`, `SumWithout` and `SameSum` are the theory of sums over a
finite set this needs, from the definition the community modules give.  `FillCosts`
bounds slippage and commission together by a hundredth of a trade's value, which is why
a buffer that is at least a hundredth of the largest trade covers them
(`BufferCovers`).  This needs what no code checks: the policy's minimum of cash is not
less than a hundredth of its largest trade (BufferAssumption; `config/policy.yaml` has
0.05 and 0.05), and the operator does not configure debts or a position already over its
limit (StartAssumption).

`RouterProofs` proves, for any threads, prompts, lists of documents, profiles, chain
and modes, the safety properties of the run `router` and that Router implements
LlmCall.  `TaskOK` says what a thread relies on: it is on a rung of its own ladder, and
what it got was said by the model and about the documents of the attempt it is making.
`CacheOK` is the primary key of the table, with answers that belong to their keys, which
is why a hit is as good as a call; `BookBacked` that a thread about to book in the
record mode has its key in the cache, which is what makes a recording replayable
when its row is written.  `NextAttemptOutcome` and `LookupOutcome` say once what these
two steps may lead to; the invariant and the refinement both rest on them.

`CommitteeProofs` proves, for any number of chunks, heartbeats and labels of the judge, what
the run `committee` checks but for its liveness: TradeIsBacked, ClaimsQuoteWhatWasRead,
RowsNameDecision and NoLateRow.  `CallInv` says what each thread may be asking and for
which decision, `BindInv` that its adapter is bound to that one, whatever an earlier heartbeat
left there, `ClaimInv` what claims and their labels rest on at each stage,
`VoteInv` that unless one raised, every voter that ended left a ballot, `TradeInv` what
lets a decision trade.  The ledger is accounted for row by row: `ResearchRows` and `PmRows` add to what
is booked what is in flight, `LaterRows` says that heartbeats to come have none.
CallsAsPromised closes the composition with Router: every step of the agents is one of
LlmCall or a stutter, so each thread asks one thing at a time and takes what it asked.

`HeartbeatProofs` proves, for any number of decisions, heartbeats and clock readings,
OrdersCheckedOrApproved, EscalationReachesQueue and PassedTradeIsPlaced.  The invariant
speaks of working states alike whether they run or lie in a checkpoint (`StateFits`:
past the gates a trade was checked, and an approval that is remembered stands), because
any checkpoint may be what runs next.  `IdInv` is why the row, the working state and the
checkpoints that bear one id are one decision; `WaitInv` says that the graph on a thread
left waiting is the one that waits until its escalation is queued; `FreshInv` that with
the wall clock no heartbeat meets a checkpoint of another.  OrdersAsPromised says that
heartbeats use orders only as OrderOnce has them (`StageInv`), also where execution is
run again: with OutboxProofs this justifies the one step per stage Heartbeat has.
GateAsPromised says the same of the queue: with an escalation's row as its question and the
order made of it as its release, every step is one of Escalation or a stutter, also when a
checkpoint that lags makes a node run twice.  With ImplementsGate this justifies the one
step per node or command: `QueueOnRecord` is the foreign key here, and `AddsToRecord` that a
decision added to the table makes no order that is on its way an escalation's (`IdInv`).

Its second part proves, for any kinds of failure, threshold, interval and number of
heartbeats, that the loop's breaker is exact and a stop prompt.  `StreakInv` relates the
breaker's two variables to the whole history of outcomes: the last `count` of them
failed as `last` says and the one before did not.  `CountInv` says where the count may
have reached the threshold, `OverrunInv` that a heartbeat or a second of sleep which ends
after a stop request was under way when it came, or begins after it because the flag had
been checked before: one of each at most.

`RetrievalProofs` proves, for any corpus, selections, number of commands and of faults,
that success tells the truth (SuccessMeansIndexed).  `StoreGrows` is the reason: nothing
is taken out of the store, so what one command has seen there stays (`DoneStays`) while
others go on.  `RunInv` says of a run under way that the documents it is done with are in
the store, `CommandInv` the same of the sources a command is done with unless it has
noted a failure.

RowNeverOverclaims is proved by counting (`CountInv`): what a command has counted is at
most the documents it has passed that are in the store, each once, and the places of
empty ones (`CountOthers` and `CountOf` say what one more document adds to either).
PointInTime follows from `ReaderInv`: each list was complete for the store as it was when
its search ran, and the store has only grown.  FoundByBothFirst is about the order the
fusion sorts in.  `RrfIs` computes a document's score from its ranks in the two lists,
`TwoBeatOne` is the arithmetic, that 1/a + 1/b exceeds 1/c when a and b are below 2 * c,
which ranks up to KRetrieve are beside the best rank of one list, `BeforeOrder` that scores and ties make a strict total order, and
`FuseIs` that the list whose i-th element has i - 1 documents ahead of it has every
document of the hits once.

`EvaluationProofs` proves, for any regimes, days, fixtures, basket and fills, the four
properties of the run `evaluation`.  Three of them are about folds over sequences, and
induction over data is out of the prover's reach as a theorem about an operator; here it is
done by hand.  A fold of the community modules is a function on sets of indices, chosen to
satisfy its equation: `FoldsExist` builds such a function, index by index, `FoldIsWalk` reads
it as a walk along 1..n, and `CountUp` is induction on a natural number, from the least number
of a set (`LeastNumber`, which rests on the well-foundedness of finite subsets).  The folds of
the model are then walks (`MatchWalk`, `TradesWalk`, `ExpectedStages`, `NumWalk`, `DenWalk`),
and what is said of them is an invariant of the walk.

BooksBalanced is two such inductions, one inside the other.  `MatchBalances` follows a sell
along the lots: what the trades it closes made is what it got for their shares less what
these lots cost.  `TradesBalance` follows the fills: unless a sell ran short, cash is what the
closed trades made less what the open lots cost (`Gap`), up to half of a share's rounding for
each share of each fill (`Rounding`, `PerShareNear`), and the lots are the position
(`InBalance`).  ReportsAreTheirRegimes rests on `RowsSoFar`, which says of each day of a
replay that the database has what the days before leave, the missed ones among them a
skipped row each, and on `LostLater`: a day lost now changes nothing of the days before; SummaryIsTrue on
`Accounted` (the reports that are done are the list the command keeps) and `RatiosAddUp`
(ratios that are all, or less than all, of something add up to one that is); CapturesReplay
on `PricesRead`, that what is no longer wanted has been read, and on files only growing.

Assumptions of each are the ASSUMEs of its module, which TLC evaluates on the runs too.
Most say that bounds are numbers and sets finite.  Those with content, and where the code
has them: signatures that expire within the grace window (HitlQueue); at least
one attempt and one failure (Outbox, HeartbeatLoop); three voters beside extractor and
judge, and the judge's three labels (Committee); k_retrieve no more than the constant of
the fusion and one, 50 and 60 (KAssumption); a chain of profiles that is not empty
(Router); a list of regimes that is not empty and fills with a side, natural numbers of
shares and commission, a positive price and a day (Evaluation); the policy's buffer and the operator's book, above.

The type invariants of Outbox, HitlQueue, Portfolio, Router, HeartbeatLoop, Ingest and Evaluation,
the refinements of LlmCall and OrderOnce by Committee
and Heartbeat and those of Escalation by HitlQueue and Heartbeat are proved and in no run.

Model-checked only:

- AnsweredOrRefused, CallReturns, HeartbeatEnds and AllIndexed: liveness under fairness
  rests on ENABLED, which is out of the prover's reach.

So every invariant and every action property of every passing run is proved, and each
refinement.

## Not modelled, and the plan

Research and the committee are modelled in Committee and appear by their outcomes only
in Heartbeat, Portfolio and Evaluation (which composes the same nodes a second time, as
`eval/heartbeat.py` does).

Left out for good:

- projections and formatting (dashboard, sample reports, tracer), numeric or textual
  content (embedding, chunking, agent tools, returns and drawdowns), operations (doctor,
  restore drill), the AgentCore wrapper;
- the rate limiter (`rag/_rate_limit.py`): `firm ingest` gives its news source no tickers,
  so nothing acquires it, and the news source yields nothing;
- `search_hybrid`, which no heartbeat calls; the patching of clients in `eval_capture`.

Next, in this order:

1. An asynchronous broker (Alpaca) for Portfolio: accepted is not filled, and a fill may
   come between the two reads of the reconciliation.
2. The rotation of tickers and the profile chosen for each (`agents/research.py:200-230`,
   `llm/router.py:100-163`): which decisions reach the expensive model.
