---------------------------- MODULE MCEvaluation ----------------------------
(* Bounds for model-checking: two regimes of two days, the benchmark and   *)
(* one ticker, fixtures that let a day end in every way.                    *)
EXTENDS Evaluation

MCRegimes == <<1, 2>>
MCUniverse == <<"NVDA">>
MCRow ==
  [hold    |-> [cites |-> <<"a", "b">>, mode |-> "none"],
   uncited |-> [cites |-> <<"a">>, mode |-> "uncited_claim"]]
MCRecorded == <<<<"hold", "escalated">>, <<"skipped", "uncited">>>>
MCFill(side, shares, price, commission) ==
  [side |-> side, shares |-> shares, price |-> price, commission |-> commission, day |-> 1]
MCOrders ==
  {MCFill("buy", 2, 10, 3), MCFill("buy", 3, 12, 5), MCFill("sell", 1, 14, 5), MCFill("sell", 4, 9, 6),
   MCFill("sell", 0, 9, 1)}
MCBatches == {<<>>} \cup {<<f>> : f \in MCOrders} \cup {<<f, g>> : f, g \in MCOrders}
=============================================================================
