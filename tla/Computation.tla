---------------------------- MODULE Computation ----------------------------
(***************************************************************************)
(* What is computed apart from the tables: the size of an order (aiTrade.go *)
(* and the replies of bitflyer/), a back test (dfcandle.go), the choice of *)
(* indicators from the results of back tests (OptimizeParams), and the     *)
(* Ichimoku cloud (algo.go).  Each works on data of its own - replies of   *)
(* the exchange, a list of signals and candles nobody else writes, the     *)
(* profits, the closes - so that one of them is followed at a time, and    *)
(* the others keep the values they start with.                             *)
(***************************************************************************)
EXTENDS OrderSize, BackTest, Optimizer, Ichimoku

VARIABLE followed   \* which of the four this behaviour is about

vars == <<followed, order, backTest, optimizer, cloud>>

Init ==
    /\ OrderInit /\ CloudInit
    /\ \/ followed \in {"order", "cloud"} /\ BackTestIdle /\ OptimizerIdle
       \/ followed = "back test" /\ BackTestInit /\ OptimizerIdle
       \/ followed = "optimizer" /\ BackTestIdle /\ OptimizerInit

Next ==
    /\ \/ followed = "order" /\ OrderNext /\ UNCHANGED <<backTest, optimizer, cloud>>
       \/ followed = "back test" /\ BackTestNext /\ UNCHANGED <<order, optimizer, cloud>>
       \/ followed = "optimizer" /\ OptimizerNext /\ UNCHANGED <<order, backTest, cloud>>
       \/ followed = "cloud" /\ CloudNext /\ UNCHANGED <<order, backTest, optimizer>>
    /\ UNCHANGED followed

Spec == Init /\ [][Next]_vars
=============================================================================
