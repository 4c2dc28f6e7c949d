--------------------------- MODULE HeartbeatLoop ---------------------------
(***************************************************************************)
(* The loop of `firm run --loop` (_run_heartbeat_loop, firm/cli.py) with   *)
(* its circuit breaker, its sleep in ticks of a second and the handler of  *)
(* SIGINT and SIGTERM.  A signal may arrive between any two steps of the   *)
(* loop.  A heartbeat is one step with an outcome; Heartbeat has the rest. *)
(***************************************************************************)
EXTENDS Naturals, Sequences

CONSTANTS
  Errors,            \* failure signatures: exception class and message
  FailureThreshold,  \* _LOOP_FAILURE_THRESHOLD (3)
  Interval,          \* interval_seconds
  MaxHeartbeats,     \* bound: heartbeats of the loop
  None

ASSUME ThresholdAssumption == FailureThreshold \in Nat \ {0}
ASSUME IntervalAssumption == Interval \in Nat
ASSUME HeartbeatsAssumption == MaxHeartbeats \in Nat
ASSUME NoneAssumption == None \notin Errors /\ "ok" \notin Errors

VARIABLES
  step,      \* what the loop does next, or how it ended
  attempted, \* seq: heartbeats attempted
  last,      \* last_signature
  count,     \* consecutive_failures
  slept,     \* ticks slept since the last heartbeat
  stop,      \* stop["requested"]
  outcomes,  \* history: how each heartbeat ended
  overrun    \* history: what the loop still did after the stop was requested

loopVars == <<step, attempted, last, count, slept, stop, outcomes, overrun>>

Ends == {"returned", "raised", "exited"}
Steps == {"while", "heartbeat", "failed", "after", "sleep", "tick"}
NoOverrun == [heartbeats |-> 0, ticks |-> 0]

LoopInit ==
  /\ step = "while"
  /\ attempted = 0
  /\ last = None
  /\ count = 0
  /\ slept = 0
  /\ stop = FALSE
  /\ outcomes = <<>>
  /\ overrun = NoOverrun

\* while not should_stop(): seq += 1
While ==
  /\ step = "while"
  /\ IF stop
       THEN step' = "returned" /\ UNCHANGED attempted
       ELSE attempted < MaxHeartbeats /\ step' = "heartbeat" /\ attempted' = attempted + 1
  /\ UNCHANGED <<last, count, slept, stop, outcomes, overrun>>

Ran(outcome) ==
  /\ step = "heartbeat"
  /\ outcomes' = Append(outcomes, outcome)
  /\ overrun' = [overrun EXCEPT !.heartbeats = IF stop THEN @ + 1 ELSE @]

\* (mutant) a success leaves the count of failures alone.
SucceedsUncounted ==
  /\ Ran("ok")
  /\ step' = "after"
  /\ UNCHANGED <<attempted, last, count, slept, stop>>

\* do_heartbeat returned: the breaker is reset.
Succeeds ==
  /\ Ran("ok")
  /\ last' = None
  /\ count' = 0
  /\ step' = "after"
  /\ UNCHANGED <<attempted, slept, stop>>

\* do_heartbeat raised: count identical failures in a row.
Fails ==
  /\ \E error \in Errors :
       /\ Ran(error)
       /\ last' = error
       /\ count' = IF error = last THEN count + 1 ELSE 1
  /\ step' = "failed"
  /\ UNCHANGED <<attempted, slept, stop>>

\* Re-raise after failure_threshold of them.
Break ==
  /\ step = "failed"
  /\ step' = IF count >= FailureThreshold THEN "raised" ELSE "after"
  /\ UNCHANGED <<attempted, last, count, slept, stop, outcomes, overrun>>

\* The heartbeat is over: leave the loop if a stop was requested, or sleep.
After ==
  /\ step = "after"
  /\ step' = IF stop THEN "returned" ELSE "sleep"
  /\ slept' = 0
  /\ UNCHANGED <<attempted, last, count, stop, outcomes, overrun>>

\* (mutant) sleep through the interval whatever happens.
SleepThrough ==
  /\ step = "sleep"
  /\ step' = IF slept < Interval THEN "tick" ELSE "while"
  /\ UNCHANGED <<attempted, last, count, slept, stop, outcomes, overrun>>

\* while slept < interval_seconds and not should_stop():
Sleep ==
  /\ step = "sleep"
  /\ step' = IF slept < Interval /\ ~stop THEN "tick" ELSE "while"
  /\ UNCHANGED <<attempted, last, count, slept, stop, outcomes, overrun>>

\* sleep(1): a signal that finds it asleep lets it finish the second.
Tick ==
  /\ step = "tick"
  /\ slept' = slept + 1
  /\ overrun' = [overrun EXCEPT !.ticks = IF stop THEN @ + 1 ELSE @]
  /\ step' = "sleep"
  /\ UNCHANGED <<attempted, last, count, stop, outcomes>>

\* _on_signal: the first one asks the loop to stop, the second one exits.
Signal ==
  /\ step \in Steps
  /\ stop' = TRUE
  /\ step' = IF stop THEN "exited" ELSE step
  /\ UNCHANGED <<attempted, last, count, slept, outcomes, overrun>>

Loop == While \/ Succeeds \/ Fails \/ Break \/ After \/ Sleep \/ Tick

LoopNext == Loop \/ Signal

LoopSpec == LoopInit /\ [][LoopNext]_loopVars

-----------------------------------------------------------------------------
(* Properties.                                                             *)

\* The values the loop's variables take.
LoopTypeOK ==
  /\ step \in Steps \cup Ends
  /\ attempted \in 0..MaxHeartbeats
  /\ last \in Errors \cup {None}
  /\ count \in 0..FailureThreshold
  /\ slept \in 0..Interval
  /\ stop \in BOOLEAN
  /\ outcomes \in Seq(Errors \cup {"ok"})
  /\ overrun \in [heartbeats: Nat, ticks: Nat]

\* The last n heartbeats all failed in the same way.
SameFailures(n) ==
  /\ Len(outcomes) >= n
  /\ \E error \in Errors : \A i \in Len(outcomes) - n + 1 .. Len(outcomes) :
       outcomes[i] = error

\* The loop gives up on FailureThreshold identical failures in a row and on
\* nothing else: not on different ones, not across a success; and it never
\* sleeps and goes on after them.
BreakerExact ==
  /\ step = "raised" => SameFailures(FailureThreshold)
  /\ step \in {"while", "after", "sleep", "tick"} => ~SameFailures(FailureThreshold)

\* A stop request is honoured promptly: at most one heartbeat and at most one second
\* of sleep end after it, those under way when it came or whose check of the flag
\* had passed just before.
StopIsPrompt == overrun.heartbeats <= 1 /\ overrun.ticks <= 1
=============================================================================
