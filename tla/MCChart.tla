------------------------------ MODULE MCChart ------------------------------
(* Values for the constants of Chart.  A minute stands for a quarter of an *)
(* hour; 5 stands for "5m", the duration the page starts with.             *)
EXTENDS Chart

MCPeriod == [i \in Indicators |-> IF i = "ichimoku" THEN 1 ELSE 2]

(* Trades on the chart, from the table and from memory; more candles than  *)
(* it shows; and requests that overtake each other, while a box is ticked  *)
(* that an answer may have to leave unanswered.                            *)
MCVisits == {[first |-> 2, options |-> {"events"}, backTest |-> FALSE,
              slots |-> 1, time |-> 2, trades |-> 2, faults |-> 1],
             [first |-> 1, options |-> {"events"}, backTest |-> TRUE,
              slots |-> 1, time |-> 2, trades |-> 2, faults |-> 1],
             [first |-> 5, options |-> {"ema"}, backTest |-> FALSE,
              slots |-> 1, time |-> 4, trades |-> 0, faults |-> 1],
             [first |-> 2, options |-> {"hv"}, backTest |-> FALSE,
              slots |-> 2, time |-> 2, trades |-> 0, faults |-> 0]}
=============================================================================
