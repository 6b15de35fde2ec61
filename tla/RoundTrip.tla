------------------------------ MODULE RoundTrip ------------------------------
(***************************************************************************)
(* What the trader promises about its account (aiTrade.go, events.go): it  *)
(* holds at most one lot, long or short, every trade opens from flat or    *)
(* closes to flat, and every trade is in the journal before the next one   *)
(* is made.  When and why trades are made is left open.                    *)
(***************************************************************************)
EXTENDS SignalEvents

VARIABLES
    held,      \* signed position in lots
    journal,   \* sides of the trades recorded
    pending    \* side of a trade made and not yet recorded, or "none"

accountVars == <<held, journal, pending>>

Init == held = 0 /\ journal = << >> /\ pending = "none"

(* Trading the other side of what is held closes it, and from flat either side
   opens; holding one lot, the same side is never traded again. *)
Execute(side) ==
    /\ pending = "none"
    /\ held # Sign(side)
    /\ held' = held + Sign(side)
    /\ pending' = side
    /\ UNCHANGED journal

Record ==
    /\ pending # "none"
    /\ journal' = Append(journal, pending)
    /\ pending' = "none"
    /\ UNCHANGED held

Next == (\E side \in Side : Execute(side)) \/ Record

Spec == Init /\ [][Next]_accountVars
=============================================================================
