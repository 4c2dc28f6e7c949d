---------------------------- MODULE MCPortfolio ----------------------------
(* A book of three tickers in two sectors, worth about eleven trades, and  *)
(* one worth five; one share of AAA, BBB or of the unknown ticker is a     *)
(* trade that may pass, one of CCC needs a human.  The limits are coarser  *)
(* than the policy's, so that a few trades reach each of them.             *)
EXTENDS Portfolio

MCUniverse == {"AAA", "BBB", "CCC"}
MCUnknown == "<unknown>"
Unit == 400000
MCPrice == [t \in MCUniverse \cup {MCUnknown} |-> IF t = "CCC" THEN 2 * Unit ELSE Unit]
MCSector == [t \in MCUniverse \cup {MCUnknown} |->
               IF t = MCUnknown THEN "unknown" ELSE IF t = "BBB" THEN "energy" ELSE "tech"]
MCLot == [t \in MCUniverse \cup {MCUnknown} |-> 1]
MCBooks ==
  {[cash |-> (67 * Unit) \div 10, shares |-> [t \in Tickers |-> IF t = MCUnknown THEN 0 ELSE 1]],
   [cash |-> 3 * Unit, shares |-> [t \in Tickers |-> IF t = "AAA" THEN 2 ELSE 0]]}
=============================================================================
